----------------------------- MODULE McpProofs -----------------------------
(* Theorems about the MCP client side, for any numbers of calls, servers,  *)
(* users and executions, and any interleaving of its parts.                *)
EXTENDS Mcp, CollectionLemmas, FiniteSetTheorems, TLAPS

-----------------------------------------------------------------------------
(* The session.                                                            *)

\* What SessionSound rests on: the owner opens the transport only while it is not
\* connected, so that the answer to that attempt finds no request pending and no session
\* that takes itself for connected.
Asked ==
    [op : {"none", "create", "reconnect", "request", "heartbeat"} \cup Closings,
     at : {"idle", "connecting", "closing", "closed", "waiting", "answered", "dropped",
           "refused", "done"}]
SessionInv ==
    /\ asked \in [SessionCalls -> Asked]
    /\ attempts \in Nat
    /\ opening # "no" => ~connected
    /\ SessionSound

LEMMA InitSession == McpInit => SessionInv
  BY SessionAssumption
  DEF McpInit, SessionInit, SessionInv, SessionSound, NotAsked, MCPSessionStatus, Asked

LEMMA SessionBeginsStep ==
    ASSUME SessionInv, NEW c \in SessionCalls, SessionBegins(c)
    PROVE  SessionInv'
  <1> USE SessionAssumption
      DEF SessionInv, Asked, SessionSound, Idle, MCPSessionStatus, transportVars, timerVars,
          managerVars, SetTimers, Cleanup
  <1>1. CASE Create(c)
    BY <1>1 DEF Create, Connected, Asks
  <1>2. CASE AttemptReconnect(c)
    BY <1>2 DEF AttemptReconnect, ShouldReconnect, TransportDisconnect, Asks
  <1>3. CASE Request(c)
    BY <1>3 DEF Request, TransportRequest, Asks
  <1>4. CASE Heartbeat(c)
    BY <1>4 DEF Heartbeat, TransportRequest, Asks
  <1>5. CASE \E op \in Closings : DisconnectBegin(c, op)
    BY <1>5 DEF DisconnectBegin, TransportDisconnect, Asks, Closings
  <1> QED BY <1>1, <1>2, <1>3, <1>4, <1>5 DEF SessionBegins

LEMMA SessionStepStep ==
    ASSUME SessionInv, NEW c \in SessionCalls, SessionStep(c)
    PROVE  SessionInv'
  <1> USE SessionAssumption
      DEF SessionInv, Asked, SessionSound, At, Goes, MCPSessionStatus, transportVars, timerVars,
          SetTimers, Cleanup
  <1>1. CASE CreateFails(c)
    BY <1>1 DEF CreateFails
  <1>2. CASE ReconnectConnects(c)
    BY <1>2 DEF ReconnectConnects, ReconnectFails, Connected
  <1>3. CASE ReconnectRejected(c)
    BY <1>3 DEF ReconnectRejected, ReconnectFails
  <1>4. CASE DisconnectEnds(c)
    BY <1>4 DEF DisconnectEnds, Closings
  <1>5. CASE RequestEnds(c)
    BY <1>5 DEF RequestEnds, managerVars
  <1> QED BY <1>1, <1>2, <1>3, <1>4, <1>5 DEF SessionStep

LEMMA ServerSteps ==
    ASSUME SessionInv, Server \/ SessionTimers \/ OpenTransport
    PROVE  SessionInv'
  <1> USE SessionAssumption
      DEF SessionInv, Asked, SessionSound, Goes, MCPSessionStatus, transportVars, timerVars,
          SetTimers, Cleanup
  <1>1. CASE HandleExit
    BY <1>1 DEF HandleExit
  <1>2. CASE HandleError
    BY <1>2 DEF HandleError
  <1>3. ASSUME NEW c \in SessionCalls, NEW ok \in BOOLEAN, HandleMessage(c, ok)
        PROVE  SessionInv'
    BY <1>3 DEF HandleMessage
  <1>4. ASSUME NEW ok \in BOOLEAN, Initialized(ok)
        PROVE  SessionInv'
    BY <1>4 DEF Initialized
  <1>5. CASE HandleIdleTimeout
    BY <1>5 DEF HandleIdleTimeout
  <1>6. CASE InitializationTimeout
    BY <1>6 DEF InitializationTimeout
  <1>7. ASSUME NEW c \in SessionCalls, RequestTimeout(c)
        PROVE  SessionInv'
    BY <1>7 DEF RequestTimeout
  <1>8. CASE OpenTransport
    BY <1>8 DEF OpenTransport
  <1> QED BY <1>1, <1>2, <1>3, <1>4, <1>5, <1>6, <1>7, <1>8 DEF Server, SessionTimers

LEMMA SessionUnchanged ==
    ASSUME SessionInv, UNCHANGED sessionVars
    PROVE  SessionInv'
  BY DEF SessionInv, SessionSound, sessionVars, transportVars

\* Everything else leaves the session as it is; the runtime's shutdown disconnects it.
LEMMA SessionNext ==
    ASSUME SessionInv, [McpNext]_mcpVars
    PROVE  SessionInv'
  <1>1. CASE UNCHANGED sessionVars
    BY <1>1, SessionUnchanged
  <1>2. ASSUME NEW c \in SessionCalls, SessionBegins(c) \/ SessionStep(c) \/ ShutdownSessions(c)
        PROVE  SessionInv'
    BY <1>2, SessionBeginsStep, SessionStepStep
    DEF ShutdownSessions, SessionBegins, Closings
  <1>3. CASE Server \/ SessionTimers \/ OpenTransport
    BY <1>3, ServerSteps
  <1>4. CASE UNCHANGED mcpVars
    BY <1>4, <1>1 DEF mcpVars
  <1>5. CASE McpNext
    <2>1. CASE \E c \in SessionCalls \cap workload :
                    \/ SessionBegins(c) /\ ("runtime" \in workload => asked'[c].op = "create")
                            /\ OnlySession
                    \/ SessionGoesOn(c) \/ ShutdownGoesOn(c)
      BY <2>1, <1>2 DEF SessionGoesOn, ShutdownGoesOn
    <2>2. CASE SessionCalls \cap workload # {} /\ (Server \/ SessionTimers \/ OpenTransport)
                    /\ OnlySession
      BY <2>2, <1>3
    <2>3. CASE OnlyExecution \/ OnlyDiscovery \/ OnlyPermissions
      BY <2>3, <1>1 DEF OnlyExecution, OnlyDiscovery, OnlyPermissions
    <2> QED
      BY <1>5, <2>1, <2>2, <2>3
      DEF McpNext, ExecutionGoesOn, BatchStep, RuntimeGoesOn, Discovery, DiscoveryGoesOn,
          AuthorizationGoesOn
  <1> QED BY <1>4, <1>5

\* No interleaving of the session's calls, the server's output and exit, the timers and the
\* owner's reconnections leaves the session CONNECTED over a transport that is not, a
\* request pending that nobody awaits or that no answer, timeout or exit can reach, or more
\* reconnections attempted than allowed.
THEOREM SessionCoherent == McpSpec => []SessionSound
  <1>1. SessionInv => SessionSound
    BY DEF SessionInv
  <1> QED BY <1>1, InitSession, SessionNext, PTL DEF McpSpec

-----------------------------------------------------------------------------
(* Discovery.                                                              *)

DiscoveryState ==
    [op : {"none", "register", "refresh", "discover", "one"},
     at : {"idle", "admission", "attempt", "failing", "done"},
     server : Servers \cup {NoServer}, entry : DiscoveryCalls \cup {NoServer},
     id : DiscoveryIds \cup {NoServer}, attempt : Nat]

DiscoveryTypeOK ==
    /\ servers \in [Servers -> DiscoveryCalls \cup {NoServer}]
    /\ serverStatus \in [DiscoveryCalls -> {"inactive", "error"}]
    /\ discoveries \in [DiscoveryCalls -> DiscoveryState]
    /\ \A c \in DiscoveryCalls :
            /\ discoveries[c].attempt <= DiscoveryRetries
            /\ discoveries[c].at = "idle" => discoveries[c].op = "none"

Registered == {s \in Servers : servers[s] # NoServer}
\* An entry is the one its registration made, under that registration's own id: the
\* failure that ends the registration deletes what is under the id, and so this entry.
EntriesUnderWay ==
    \A s \in Registered :
        /\ discoveries[servers[s]].server = s
        /\ discoveries[servers[s]].op = "register"
        /\ discoveries[servers[s]].at # "done"

DiscoveriesCounted ==
    /\ IsFiniteSet(activeDiscoveries)
    /\ Cardinality(activeDiscoveries) <= ConcurrentDiscoveries
    /\ \A i \in activeDiscoveries :
            \E c \in DiscoveryCalls : discoveries[c].at = "attempt" /\ discoveries[c].id = i

DiscoveryInv ==
    DiscoveryTypeOK /\ IsFiniteSet(Registered) /\ EntriesUnderWay /\ DiscoveriesCounted

LEMMA InitDiscovery == McpInit => DiscoveryInv
  <1> SUFFICES ASSUME McpInit PROVE DiscoveryInv
    OBVIOUS
  <1> USE DiscoveryAssumption DEF McpInit, DiscoveryInit
  <1>1. Registered = {}
    BY DEF Registered
  <1>2. IsFiniteSet({}) /\ Cardinality({}) = 0
    BY FS_EmptySet
  <1>3. DiscoveryTypeOK
    BY DEF DiscoveryTypeOK, DiscoveryState, NoDiscovery
  <1>4. EntriesUnderWay
    BY <1>1 DEF EntriesUnderWay
  <1>5. DiscoveriesCounted
    BY <1>2 DEF DiscoveriesCounted
  <1> QED BY <1>1, <1>2, <1>3, <1>4, <1>5 DEF DiscoveryInv

LEMMA BeginDiscovery ==
    ASSUME DiscoveryInv, NEW c \in DiscoveryCalls, NEW s \in Servers, NEW healthy,
           \/ RegisterServer(c, s, healthy) \/ RefreshServer(c, s, healthy)
           \/ RefreshDiscovery(c, s, healthy) \/ DiscoverOne(c, s, healthy)
    PROVE  DiscoveryInv'
  <1> USE DiscoveryAssumption
      DEF RegisterServer, RefreshServer, RefreshDiscovery, DiscoverOne, Discover, NoDiscovery
  <1> USE DEF DiscoveryInv, DiscoveryTypeOK
  <1>0. PICK d \in DiscoveryState :
            d.at # "idle" /\ d.attempt = 0 /\ discoveries' = [discoveries EXCEPT ![c] = d]
    BY DEF DiscoveryState
  <1>1. /\ discoveries[c].at = "idle"
        /\ discoveries'[c].at # "idle"
        /\ discoveries'[c].attempt = 0
        /\ \A e \in DiscoveryCalls \ {c} : discoveries'[e] = discoveries[e]
        /\ discoveries' \in [DiscoveryCalls -> DiscoveryState]
    BY <1>0
  <1>2. /\ servers' \in [Servers -> DiscoveryCalls \cup {NoServer}]
        /\ UNCHANGED <<serverStatus, activeDiscoveries>>
    OBVIOUS
  <1>3. DiscoveryTypeOK'
    BY <1>1, <1>2
  <1>4. \A t \in Registered : servers[t] # c
    BY <1>1 DEF EntriesUnderWay, Registered
  <1>5. Registered' = Registered \/ Registered' = Registered \cup {s}
    BY DEF Registered
  <1>6. IsFiniteSet(Registered')
    BY <1>5, FS_AddElement
  <1>7. EntriesUnderWay'
    <2>1. CASE RegisterServer(c, s, healthy)
      BY <2>1, <1>1, <1>4 DEF EntriesUnderWay, Registered
    <2>2. CASE UNCHANGED servers
      BY <2>2, <1>1, <1>4 DEF EntriesUnderWay, Registered
    <2> QED BY <2>1, <2>2
  <1>8. DiscoveriesCounted'
    BY <1>1, <1>2 DEF DiscoveriesCounted
  <1> QED BY <1>3, <1>6, <1>7, <1>8

LEMMA DiscoverServerStep ==
    ASSUME DiscoveryInv, NEW c \in DiscoveryCalls, NEW i \in DiscoveryIds,
           DiscoverServer(c, i)
    PROVE  DiscoveryInv'
  <1> USE DiscoveryAssumption DEF DiscoveryInv, DiscoveryTypeOK, DiscoverServer
  <1>1. DiscoveryTypeOK'
    BY SMTT(30) DEF DiscoveryState
  <1>2. IsFiniteSet(Registered') /\ EntriesUnderWay'
    BY DEF Registered, EntriesUnderWay, DiscoveryState
  <1>3. CASE Admits
    <2>1. /\ activeDiscoveries' = activeDiscoveries \cup {i}
          /\ IsFiniteSet(activeDiscoveries)
      BY <1>3 DEF DiscoveriesCounted
    <2>2. /\ IsFiniteSet(activeDiscoveries \cup {i})
          /\ Cardinality(activeDiscoveries) \in Nat
          /\ \/ Cardinality(activeDiscoveries \cup {i}) = Cardinality(activeDiscoveries)
             \/ Cardinality(activeDiscoveries \cup {i}) = Cardinality(activeDiscoveries) + 1
      BY <2>1, FS_AddElement, FS_CardinalityType
    <2>3. /\ IsFiniteSet(activeDiscoveries')
          /\ \/ Cardinality(activeDiscoveries') = Cardinality(activeDiscoveries)
             \/ Cardinality(activeDiscoveries') = Cardinality(activeDiscoveries) + 1
      BY <2>1, <2>2, Zenon
    <2>4. DiscoveriesCounted'
      BY <1>3, <2>1, <2>2, <2>3 DEF DiscoveriesCounted, Admits, DiscoveryState
    <2> QED BY <1>1, <1>2, <2>4
  <1>4. CASE ~Admits
    BY <1>1, <1>2, <1>4 DEF DiscoveriesCounted, DiscoveryState
  <1> QED BY <1>3, <1>4

LEMMA MakeRequestStep ==
    ASSUME DiscoveryInv, NEW c \in DiscoveryCalls, MakeRequest(c)
    PROVE  DiscoveryInv'
  <1> USE DiscoveryAssumption DEF DiscoveryInv, DiscoveryTypeOK, MakeRequest
  <1>1. DiscoveryTypeOK'
    BY DEF DiscoveryState
  <1>2. IsFiniteSet(Registered') /\ EntriesUnderWay'
    BY DEF Registered, EntriesUnderWay, DiscoveryState
  <1>3. CASE discoveries[c].attempt < DiscoveryRetries
    BY <1>1, <1>2, <1>3 DEF DiscoveriesCounted, DiscoveryState
  <1>4. CASE ~(discoveries[c].attempt < DiscoveryRetries)
    <2>1. /\ activeDiscoveries' \subseteq activeDiscoveries
          /\ IsFiniteSet(activeDiscoveries)
      BY <1>4 DEF DiscoveriesCounted
    <2>2. /\ IsFiniteSet(activeDiscoveries')
          /\ Cardinality(activeDiscoveries') <= Cardinality(activeDiscoveries)
          /\ Cardinality(activeDiscoveries) \in Nat
          /\ Cardinality(activeDiscoveries') \in Nat
      BY <2>1, FS_Subset, FS_CardinalityType
    <2>3. DiscoveriesCounted'
      BY <1>4, <2>2 DEF DiscoveriesCounted, DiscoveryState
    <2> QED BY <1>1, <1>2, <2>3
  <1> QED BY <1>3, <1>4

LEMMA DiscoveryFailsStep ==
    ASSUME DiscoveryInv, NEW c \in DiscoveryCalls, DiscoveryFails(c)
    PROVE  DiscoveryInv'
  <1> USE DiscoveryAssumption DEF DiscoveryInv, DiscoveryTypeOK, DiscoveryFails
  <1>1. DiscoveryTypeOK'
    BY DEF DiscoveryState
  <1>2. Registered' \subseteq Registered
    BY DEF Registered
  <1>3. IsFiniteSet(Registered')
    BY <1>2, FS_Subset
  <1>4. ASSUME NEW s \in Registered'
        PROVE  servers'[s] = servers[s] /\ servers[s] # c
    BY <1>4 DEF Registered, EntriesUnderWay
  <1>5. EntriesUnderWay'
    BY <1>2, <1>4 DEF Registered, EntriesUnderWay, DiscoveryState
  <1>6. DiscoveriesCounted'
    BY DEF DiscoveriesCounted, DiscoveryState
  <1> QED BY <1>1, <1>3, <1>5, <1>6

LEMMA DiscoveryOwnerStep ==
    ASSUME DiscoveryInv, DiscoveryOwner
    PROVE  DiscoveryInv'
  <1> USE DiscoveryAssumption DEF DiscoveryInv, DiscoveryTypeOK
  <1>1. CASE DiscoveryShutdown
    BY <1>1, FS_EmptySet
    DEF DiscoveryShutdown, DiscoveriesCounted, Registered, EntriesUnderWay
  <1>2. ASSUME NEW s \in Servers, RemoveServer(s)
        PROVE  DiscoveryInv'
    <2> USE <1>2 DEF RemoveServer
    <2>1. Registered' \subseteq Registered
      BY DEF Registered
    <2>2. IsFiniteSet(Registered')
      BY <2>1, FS_Subset
    <2>3. EntriesUnderWay'
      BY <2>1 DEF Registered, EntriesUnderWay
    <2> QED BY <2>2, <2>3 DEF DiscoveriesCounted
  <1> QED BY <1>1, <1>2 DEF DiscoveryOwner

LEMMA DiscoveryUnchanged ==
    ASSUME DiscoveryInv, UNCHANGED discoveryVars
    PROVE  DiscoveryInv'
  BY DEF DiscoveryInv, DiscoveryTypeOK, DiscoveriesCounted, Registered, EntriesUnderWay,
         discoveryVars

LEMMA DiscoveryNext ==
    ASSUME DiscoveryInv, [McpNext]_mcpVars
    PROVE  DiscoveryInv'
  <1>1. CASE UNCHANGED discoveryVars
    BY <1>1, DiscoveryUnchanged
  <1>2. ASSUME NEW c \in DiscoveryCalls, Discovery(c) \/ DiscoveryGoesOn(c)
        PROVE  DiscoveryInv'
    BY <1>2, BeginDiscovery, DiscoverServerStep, MakeRequestStep, DiscoveryFailsStep
    DEF Discovery, DiscoveryGoesOn, DiscoveryStep
  <1>3. CASE DiscoveryOwner
    BY <1>3, DiscoveryOwnerStep
  <1>4. CASE UNCHANGED mcpVars
    BY <1>4, <1>1 DEF mcpVars
  <1>5. CASE McpNext
    <2>1. CASE OnlySession \/ OnlyExecution \/ OnlyPermissions
      BY <2>1, <1>1 DEF OnlySession, OnlyExecution, OnlyPermissions
    <2> QED
      BY <1>5, <2>1, <1>2, <1>3
      DEF McpNext, SessionGoesOn, ShutdownGoesOn, ExecutionGoesOn, BatchStep, RuntimeGoesOn,
          AuthorizationGoesOn
  <1> QED BY <1>4, <1>5

LEMMA DiscoveryInvSound == DiscoveryInv => DiscoverySound
  <1> SUFFICES ASSUME DiscoveryInv PROVE DiscoverySound
    OBVIOUS
  <1> USE DiscoveryAssumption DEF DiscoveryInv, DiscoveryTypeOK
  <1> DEFINE Having(st) == {s \in Servers : servers[s] # NoServer
                                         /\ serverStatus[servers[s]] = st}
  <1>1. Registered = Having("inactive") \cup Having("error")
    BY DEF Registered
  <1>2. Having("inactive") \cap Having("error") = {}
    OBVIOUS
  <1>3. IsFiniteSet(Having("inactive")) /\ IsFiniteSet(Having("error"))
    BY <1>1, FS_Subset
  <1>4. Cardinality(Registered)
            = Cardinality(Having("inactive")) + Cardinality(Having("error"))
    <2> HIDE DEF Having
    <2>1. /\ Cardinality({}) = 0
          /\ Cardinality(Having("inactive")) \in Nat
          /\ Cardinality(Having("error")) \in Nat
      BY <1>3, FS_EmptySet, FS_CardinalityType
    <2>2. Cardinality(Having("inactive") \cup Having("error"))
            = Cardinality(Having("inactive")) + Cardinality(Having("error"))
                - Cardinality(Having("inactive") \cap Having("error"))
      BY <1>3, FS_Union
    <2>3. Cardinality(Having("inactive") \cap Having("error")) = 0
      BY <1>2, <2>1, Zenon
    <2>4. Cardinality(Registered) = Cardinality(Having("inactive") \cup Having("error"))
      BY <1>1, Zenon
    <2> QED BY <2>1, <2>2, <2>3, <2>4
  <1>5. RegistryStats.total = RegistryStats.inactive + RegistryStats.error
    BY <1>4 DEF RegistryStats, Registered
  <1>6. RegistrationsSound
    BY <1>5 DEF RegistrationsSound, EntriesUnderWay, DiscoveriesCounted, Registered
  <1>7. RegistryStats.active = 0
    <2>1. Having("active") = {}
      OBVIOUS
    <2> QED BY <2>1, FS_EmptySet DEF RegistryStats
  <1>8. "no active servers" \in Issues
    BY <1>7 DEF Issues
  <1> QED BY <1>6, <1>8 DEF DiscoverySound, RuntimeStatus

\* However registrations, refreshes and removals cross, and whatever the session does:
\* no entry survives the failure of its registration, the discoveries counted are running
\* and within their limit, the statistics add up, and the runtime finds itself unhealthy.
THEOREM DiscoveryCleansUp == McpSpec => []DiscoverySound
  BY InitDiscovery, DiscoveryNext, DiscoveryInvSound, PTL DEF McpSpec

-----------------------------------------------------------------------------
(* The cache of authorizations.                                            *)

\* r is what is left of the first n elements of s once all outside K are deleted: each of
\* its elements is one of theirs, and no two are the same one.
Picks(r, s, n, K, S) ==
    /\ r \in Seq(S)
    /\ \E f \in [1..Len(r) -> 1..n] :
            /\ \A i, j \in 1..Len(r) : f[i] = f[j] => i = j
            /\ \A i \in 1..Len(r) : r[i] = s[f[i]] /\ r[i] \in K

LEMMA PickNext ==
    ASSUME NEW S, NEW s \in Seq(S), NEW K, NEW n \in 1..Len(s), NEW r,
           Picks(r, s, n - 1, K, S)
    PROVE  Picks(IF s[n] \in K THEN Append(r, s[n]) ELSE r, s, n, K, S)
  <1>1. PICK f \in [1..Len(r) -> 1..(n - 1)] :
            /\ \A i, j \in 1..Len(r) : f[i] = f[j] => i = j
            /\ \A i \in 1..Len(r) : r[i] = s[f[i]] /\ r[i] \in K
    BY DEF Picks
  <1>2. r \in Seq(S) /\ Len(r) \in Nat
    BY DEF Picks
  <1>3. CASE s[n] \in K
    <2> DEFINE t == Append(r, s[n])
               g == [i \in 1..Len(t) |-> IF i = Len(t) THEN n ELSE f[i]]
    <2>1. /\ t \in Seq(S) /\ Len(t) = Len(r) + 1 /\ t[Len(t)] = s[n]
          /\ \A i \in 1..Len(r) : t[i] = r[i]
      BY <1>2
    <2> HIDE DEF t
    <2>2. g \in [1..Len(t) -> 1..n]
      BY <1>1, <1>2, <2>1
    <2>3. ASSUME NEW i \in 1..Len(t), NEW j \in 1..Len(t), g[i] = g[j]
          PROVE  i = j
      <3>1. \A k \in 1..Len(r) : f[k] \in 1..(n - 1) /\ f[k] # n
        BY <1>1, SMTT(30)
      <3>2. \A k \in 1..Len(t) : k = Len(t) \/ k \in 1..Len(r)
        BY <1>2, <2>1
      <3>3. CASE i = Len(t) \/ j = Len(t)
        BY <2>3, <3>1, <3>2, <3>3
      <3>4. CASE i # Len(t) /\ j # Len(t)
        BY <1>1, <2>3, <3>2, <3>4
      <3> QED BY <3>3, <3>4
    <2>4. \A i \in 1..Len(t) : t[i] = s[g[i]] /\ t[i] \in K
      BY <1>1, <1>2, <1>3, <2>1
    <2> HIDE DEF g
    <2>5. Picks(t, s, n, K, S)
      BY <2>1, <2>2, <2>3, <2>4 DEF Picks
    <2> QED BY <1>3, <2>5 DEF t
  <1>4. CASE s[n] \notin K
    <2>1. f \in [1..Len(r) -> 1..n]
      BY <1>1
    <2>2. Picks(r, s, n, K, S)
      BY <1>1, <1>2, <2>1 DEF Picks
    <2> QED BY <1>4, <2>2
  <1> QED BY <1>3, <1>4

LEMMA KeptPicks ==
    ASSUME NEW S, NEW s \in Seq(S), NEW K
    PROVE  Picks(Kept(s, K), s, Len(s), K, S)
  <1> DEFINE X == Seq(S)
             Look(n, x) == IF s[n] \in K THEN Append(x, s[n]) ELSE x
             F == [n \in 1..Len(s) |-> [x \in X |-> Look(n, x)]]
             Fits(f) == f = [n \in 0..Len(s) |-> IF n = 0 THEN <<>> ELSE Look(n, f[n-1])]
             stays == CHOOSE f : Fits(f)
  <1>1. <<>> \in X /\ Len(s) \in Nat
    OBVIOUS
  <1>2. F \in StepFunctions(Len(s), X)
    <2>1. \A n \in 1..Len(s), x \in X : Look(n, x) \in X
      OBVIOUS
    <2> HIDE DEF Look, X
    <2> QED BY <2>1 DEF StepFunctions
  <1>3. PICK f : Follows(f, Len(s), X, <<>>, F)
    <2> HIDE DEF F, X
    <2> QED BY <1>1, <1>2, BoundedRecursion
  <1>4. Fits(f)
    <2> HIDE DEF Look, X
    <2>1. ASSUME NEW n \in 1..Len(s)
          PROVE  f[n] = Look(n, f[n-1])
      <3>1. f[n-1] \in X
        BY <1>1, <1>3 DEF Follows
      <3>2. f[n] = F[n][f[n-1]]
        BY <1>3 DEF Follows
      <3>3. \A x \in X : F[n][x] = Look(n, x)
        OBVIOUS
      <3> HIDE DEF F
      <3> QED BY <3>1, <3>2, <3>3
    <2>2. f \in [0..Len(s) -> X] /\ f[0] = <<>>
      BY <1>3 DEF Follows
    <2>3. \A n \in 0..Len(s) : f[n] = IF n = 0 THEN <<>> ELSE Look(n, f[n-1])
      BY <1>1, <2>1, <2>2
    <2> QED BY <2>2, <2>3
  <1>5. Fits(stays)
    <2> HIDE DEF Fits
    <2> QED BY <1>4
  <1>6. Kept(s, K) = stays[Len(s)]
    BY DEF Kept
  <1> HIDE DEF stays, Look, X
  <1>7. stays[0] = <<>> /\ \A n \in 1..Len(s) : stays[n] = Look(n, stays[n-1])
    BY <1>1, <1>5
  <1> DEFINE D == {n \in 0..Len(s) : Picks(stays[n], s, n, K, S)}
  <1>8. 0 \in D
    <2>1. Picks(<<>>, s, 0, K, S)
      <3> DEFINE none == [i \in 1..0 |-> i]
      <3>1. <<>> \in Seq(S) /\ Len(<<>>) = 0 /\ none \in [1..0 -> 1..0]
        OBVIOUS
      <3>2. \A i \in 1..0 : FALSE
        OBVIOUS
      <3> HIDE DEF none
      <3> QED BY <3>1, <3>2 DEF Picks
    <2> QED BY <1>1, <1>7, <2>1
  <1>9. ASSUME NEW n \in 1..Len(s), n - 1 \in D
        PROVE  n \in D
    <2>1. Picks(stays[n-1], s, n - 1, K, S)
      BY <1>9
    <2>2. Picks(Look(n, stays[n-1]), s, n, K, S)
      BY <2>1, PickNext DEF Look
    <2> QED BY <1>7, <2>2
  <1> HIDE DEF D
  <1>10. \A n \in 0..Len(s) : n \in D
    BY <1>1, <1>8, <1>9, BoundedInduction
  <1>11. Len(s) \in D
    BY <1>1, <1>10
  <1> QED BY <1>6, <1>11 DEF D

Entries == [key : RequestKeys, granted : BOOLEAN, overtaken : BOOLEAN, fresh : BOOLEAN]
AuthStates ==
    [at : {"idle"}]
        \cup [at : {"computed"}, key : RequestKeys, granted : BOOLEAN, overtaken : BOOLEAN]
        \cup [at : {"done"}, granted : BOOLEAN]

\* The requests that would be granted now.
GrantedKeys == {key \in RequestKeys : Granted(key)}

\* An answer to the request x.key that a change has overtaken, or that G agrees with.
Answers(x, G) == x.overtaken \/ x.granted = (x.key \in G)
\* One entry to a request, each of which answers it.
Coherent(s, G) ==
    /\ s \in Seq(Entries)
    /\ \A p, q \in 1..Len(s) : s[p].key = s[q].key => p = q
    /\ \A p \in 1..Len(s) : Answers(s[p], G)

\* What is computed and not cached yet answers its request too, or is marked.
CacheInv ==
    /\ userPermissions \in [Users -> Grants]
    /\ authCalls \in [AuthCalls -> AuthStates]
    /\ \A a \in AuthCalls : authCalls[a].at = "computed" => Answers(authCalls[a], GrantedKeys)
    /\ Coherent(cache, GrantedKeys)

LEMMA GrantedKeysUnchanged ==
    ASSUME UNCHANGED <<userPermissions, workspacePermissions, resourcePermissions>>
    PROVE  GrantedKeys' = GrantedKeys
  BY DEF GrantedKeys, Granted, Roles, EffectiveGrants

LEMMA EmptyCoherent ==
    ASSUME NEW G
    PROVE  Coherent(<<>>, G)
  BY DEF Coherent

\* Deleting keeps a cache coherent, and with the new permissions H when the requests of
\* what stays are answered as they were.
LEMMA KeptCoherent ==
    ASSUME NEW s, NEW G, NEW H, NEW K, Coherent(s, G),
           \A e \in K : e.key \in G <=> e.key \in H
    PROVE  Coherent(Kept(s, K), H)
  <1> DEFINE r == Kept(s, K)
  <1>1. s \in Seq(Entries)
    BY DEF Coherent
  <1>2. Picks(r, s, Len(s), K, Entries)
    BY <1>1, KeptPicks
  <1> HIDE DEF r
  <1>3. PICK f \in [1..Len(r) -> 1..Len(s)] :
            /\ \A i, j \in 1..Len(r) : f[i] = f[j] => i = j
            /\ \A i \in 1..Len(r) : r[i] = s[f[i]] /\ r[i] \in K
    BY <1>2 DEF Picks
  <1>4. r \in Seq(Entries)
    BY <1>2 DEF Picks
  <1>5. ASSUME NEW p \in 1..Len(r), NEW q \in 1..Len(r), r[p].key = r[q].key
        PROVE  p = q
    <2>1. s[f[p]].key = s[f[q]].key /\ f[p] \in 1..Len(s) /\ f[q] \in 1..Len(s)
      BY <1>3, <1>5
    <2>2. f[p] = f[q]
      BY <2>1 DEF Coherent
    <2> QED BY <1>3, <2>2
  <1>6. ASSUME NEW p \in 1..Len(r)
        PROVE  Answers(r[p], H)
    <2>1. r[p] = s[f[p]] /\ f[p] \in 1..Len(s) /\ r[p] \in K
      BY <1>3
    <2>2. Answers(r[p], G)
      BY <2>1 DEF Coherent
    <2>3. (r[p].key \in G) = (r[p].key \in H)
      BY <2>1
    <2> QED BY <2>2, <2>3 DEF Answers
  <1> QED BY <1>4, <1>5, <1>6 DEF Coherent, r

LEMMA SubSeqCoherent ==
    ASSUME NEW s, NEW G, Coherent(s, G), NEW n \in 1..(Len(s) + 1)
    PROVE  Coherent(SubSeq(s, n, Len(s)), G)
  <1> DEFINE r == SubSeq(s, n, Len(s))
  <1>1. s \in Seq(Entries) /\ Len(s) \in Nat
    BY DEF Coherent
  <1>2. /\ r \in Seq(Entries) /\ Len(r) = Len(s) - n + 1
        /\ \A i \in 1..Len(r) : r[i] = s[n + i - 1] /\ n + i - 1 \in 1..Len(s)
    BY <1>1
  <1> HIDE DEF r
  <1>3. ASSUME NEW p \in 1..Len(r), NEW q \in 1..Len(r), r[p].key = r[q].key
        PROVE  p = q
    <2>1. /\ n + p - 1 \in 1..Len(s) /\ n + q - 1 \in 1..Len(s)
          /\ s[n + p - 1].key = s[n + q - 1].key
      BY <1>2, <1>3
    <2>2. n + p - 1 = n + q - 1
      BY <2>1 DEF Coherent
    <2> QED BY <1>1, <1>2, <2>2
  <1>4. \A p \in 1..Len(r) : Answers(r[p], G)
    BY <1>2 DEF Coherent
  <1> QED BY <1>2, <1>3, <1>4 DEF Coherent, r

LEMMA AppendCoherent ==
    ASSUME NEW s, NEW G, Coherent(s, G), NEW e \in Entries, Answers(e, G),
           \A p \in 1..Len(s) : s[p].key # e.key
    PROVE  Coherent(Append(s, e), G)
  <1> DEFINE r == Append(s, e)
  <1>1. s \in Seq(Entries) /\ Len(s) \in Nat
    BY DEF Coherent
  <1>2. /\ r \in Seq(Entries) /\ Len(r) = Len(s) + 1 /\ r[Len(s) + 1] = e
        /\ \A i \in 1..Len(s) : r[i] = s[i]
    BY <1>1
  <1> HIDE DEF r
  <1>3. \A i \in 1..Len(r) : i = Len(s) + 1 \/ i \in 1..Len(s)
    BY <1>1, <1>2
  <1>4. \A p, q \in 1..Len(r) : r[p].key = r[q].key => p = q
    BY <1>2, <1>3 DEF Coherent
  <1>5. \A p \in 1..Len(r) : Answers(r[p], G)
    BY <1>2, <1>3 DEF Coherent
  <1> QED BY <1>2, <1>4, <1>5 DEF Coherent, r

\* The answer cached replaces any other to its request, in a full cache too.
LEMMA CacheSetCoherent ==
    ASSUME NEW G, Coherent(cache, G), NEW e \in Entries, Answers(e, G)
    PROVE  Coherent(CacheSet(e), G)
  <1> DEFINE room == IF Len(cache) >= MaxCacheSize
                     THEN SubSeq(cache, (MaxCacheSize \div 10) + 1, Len(cache)) ELSE cache
             others == {x \in ToSet(room) : x.key # e.key}
             rest == Kept(room, others)
  <1>1. Coherent(room, G)
    <2>1. CASE Len(cache) >= MaxCacheSize
      <3>1. Len(cache) \in Nat
        BY DEF Coherent
      <3>2. (MaxCacheSize \div 10) + 1 \in 1..(Len(cache) + 1)
        BY <2>1, <3>1, PermissionsAssumption
      <3> QED BY <2>1, <3>2, SubSeqCoherent
    <2>2. CASE ~(Len(cache) >= MaxCacheSize)
      BY <2>2
    <2> QED BY <2>1, <2>2
  <1> HIDE DEF room
  <1>2. room \in Seq(Entries)
    BY <1>1 DEF Coherent
  <1>3. Coherent(rest, G)
    <2> HIDE DEF others
    <2> QED BY <1>1, KeptCoherent
  <1>4. ASSUME NEW p \in 1..Len(rest)
        PROVE  rest[p].key # e.key
    <2>1. Picks(rest, room, Len(room), others, Entries)
      BY <1>2, KeptPicks
    <2>2. rest[p] \in others
      <3> HIDE DEF others, rest
      <3> QED BY <2>1 DEF Picks
    <2> QED BY <2>2
  <1>5. CacheSet(e) = Append(rest, e)
    BY DEF CacheSet, room
  <1> HIDE DEF rest
  <1> QED BY <1>3, <1>4, <1>5, AppendCoherent

LEMMA InitCache == McpInit => CacheInv
  <1> SUFFICES ASSUME McpInit PROVE CacheInv
    OBVIOUS
  <1>1. Coherent(cache, GrantedKeys)
    BY EmptyCoherent DEF McpInit, PermissionsInit
  <1> QED BY <1>1 DEF McpInit, PermissionsInit, CacheInv, Grants, AuthStates

LEMMA AuthorizeBeginStep ==
    ASSUME CacheInv, NEW a \in AuthCalls, NEW key \in RequestKeys, AuthorizeBegin(a, key)
    PROVE  CacheInv'
  <1> DEFINE p == Position(key)
             others == {e \in ToSet(cache) : e.key # key}
  <1>1. GrantedKeys' = GrantedKeys /\ userPermissions' = userPermissions
    BY GrantedKeysUnchanged DEF AuthorizeBegin
  <1>2. cache \in Seq(Entries)
    BY DEF CacheInv, Coherent
  <1>3. p = 0 \/ p \in 1..Len(cache)
    <2> DEFINE I == {i \in 1..Len(cache) : cache[i].key = key}
    <2>1. p = IF I # {} THEN Min(I) ELSE 0
      BY DEF Position, SelectInSeq
    <2>2. I \in SUBSET Nat /\ I \subseteq 1..Len(cache)
      BY <1>2
    <2> HIDE DEF I, p
    <2>3. I # {} => Min(I) \in I
      BY <2>2, MinIn
    <2> QED BY <2>1, <2>2, <2>3
  <1> HIDE DEF p
  <1>4. CASE p # 0 /\ cache[p].fresh
    <2>1. /\ authCalls' = [authCalls EXCEPT ![a] = [at |-> "done", granted |-> cache[p].granted]]
          /\ cache' = cache
      BY <1>4 DEF AuthorizeBegin, p
    <2>2. cache[p].granted \in BOOLEAN
      <3>1. p \in 1..Len(cache)
        BY <1>3, <1>4
      <3>2. cache[p] \in Entries
        BY <1>2, <3>1
      <3> QED BY <3>2 DEF Entries
    <2>3. authCalls' \in [AuthCalls -> AuthStates]
      BY <2>1, <2>2 DEF CacheInv, AuthStates
    <2>4. \A b \in AuthCalls : authCalls'[b].at = "computed" => authCalls'[b] = authCalls[b]
      BY <2>1 DEF CacheInv
    <2>5. ASSUME NEW b \in AuthCalls, authCalls'[b].at = "computed"
          PROVE  Answers(authCalls'[b], GrantedKeys')
      BY <1>1, <2>4, <2>5 DEF CacheInv
    <2> QED BY <1>1, <2>1, <2>3, <2>5 DEF CacheInv
  <1>5. CASE ~(p # 0 /\ cache[p].fresh)
    <2> DEFINE c == [at |-> "computed", key |-> key, granted |-> Granted(key), overtaken |-> FALSE]
    <2>1. authCalls' = [authCalls EXCEPT ![a] = c] /\ cache' = Kept(cache, others)
      BY <1>5 DEF AuthorizeBegin, KeepOnly, p
    <2>2. Granted(key) \in BOOLEAN
      BY DEF Granted
    <2>3. c \in AuthStates
      BY <2>2 DEF AuthStates
    <2>4. Answers(c, GrantedKeys)
      BY <2>2 DEF Answers, GrantedKeys
    <2> HIDE DEF c, others
    <2>5. authCalls' \in [AuthCalls -> AuthStates]
      BY <2>1, <2>3 DEF CacheInv
    <2>6. ASSUME NEW b \in AuthCalls, authCalls'[b].at = "computed"
          PROVE  Answers(authCalls'[b], GrantedKeys')
      BY <1>1, <2>1, <2>4, <2>6 DEF CacheInv
    <2>7. Coherent(cache', GrantedKeys')
      BY <1>1, <2>1, KeptCoherent DEF CacheInv
    <2> QED BY <1>1, <2>5, <2>6, <2>7 DEF CacheInv
  <1> QED BY <1>4, <1>5

LEMMA ValidateWorkspaceAccessStep ==
    ASSUME CacheInv, NEW a \in AuthCalls, NEW key, ValidateWorkspaceAccess(a, key)
    PROVE  CacheInv'
  <1>1. GrantedKeys' = GrantedKeys /\ UNCHANGED <<userPermissions, cache>>
    BY GrantedKeysUnchanged DEF ValidateWorkspaceAccess
  <1>2. authCalls' = [authCalls EXCEPT ![a] = [at |-> "done", granted |-> FALSE]]
    BY DEF ValidateWorkspaceAccess
  <1>3. authCalls' \in [AuthCalls -> AuthStates]
    BY <1>2 DEF CacheInv, AuthStates
  <1>4. ASSUME NEW b \in AuthCalls, authCalls'[b].at = "computed"
        PROVE  Answers(authCalls'[b], GrantedKeys')
    BY <1>1, <1>2, <1>4 DEF CacheInv
  <1> QED BY <1>1, <1>3, <1>4 DEF CacheInv

LEMMA AuthorizeEndStep ==
    ASSUME CacheInv, NEW a \in AuthCalls, AuthorizeEnd(a)
    PROVE  CacheInv'
  <1> DEFINE c == authCalls[a]
             e == [key |-> c.key, granted |-> c.granted, overtaken |-> c.overtaken, fresh |-> TRUE]
  <1>1. GrantedKeys' = GrantedKeys /\ userPermissions' = userPermissions
    BY GrantedKeysUnchanged DEF AuthorizeEnd
  <1>2. /\ cache' = CacheSet(e)
        /\ authCalls' = [authCalls EXCEPT ![a] = [at |-> "done", granted |-> c.granted]]
        /\ c.at = "computed"
    BY DEF AuthorizeEnd
  <1>3. /\ c.key \in RequestKeys /\ c.granted \in BOOLEAN /\ c.overtaken \in BOOLEAN
        /\ Answers(c, GrantedKeys)
    BY <1>2 DEF CacheInv, AuthStates
  <1>4. e \in Entries /\ Answers(e, GrantedKeys)
    <2> HIDE DEF c
    <2> QED BY <1>3 DEF Entries, Answers
  <1>5. Coherent(CacheSet(e), GrantedKeys)
    <2> HIDE DEF e
    <2> QED BY <1>4, CacheSetCoherent DEF CacheInv
  <1>6. authCalls' \in [AuthCalls -> AuthStates]
    <2>1. [at |-> "done", granted |-> c.granted] \in AuthStates
      BY <1>3 DEF AuthStates
    <2> QED BY <1>2, <2>1 DEF CacheInv
  <1>7. ASSUME NEW b \in AuthCalls, authCalls'[b].at = "computed"
        PROVE  Answers(authCalls'[b], GrantedKeys')
    BY <1>1, <1>2, <1>7 DEF CacheInv
  <1> HIDE DEF e
  <1> QED BY <1>1, <1>2, <1>5, <1>6, <1>7 DEF CacheInv

\* A change marks what is computed, and its invalidation leaves only entries whose requests
\* are answered as they were.
LEMMA ChangeStep ==
    ASSUME CacheInv, Change, NEW K,
           cache' = <<>> \/ cache' = Kept(cache, K),
           \A e \in K : e.key \in GrantedKeys <=> e.key \in GrantedKeys',
           userPermissions' \in [Users -> Grants]
    PROVE  CacheInv'
  <1>1. \A a \in AuthCalls :
            /\ authCalls'[a] \in AuthStates
            /\ authCalls'[a].at = "computed" => authCalls'[a].overtaken
    <2> SUFFICES ASSUME NEW a \in AuthCalls
                 PROVE  /\ authCalls'[a] \in AuthStates
                        /\ authCalls'[a].at = "computed" => authCalls'[a].overtaken
      OBVIOUS
    <2>1. CASE authCalls[a].at = "computed"
      <3>1. authCalls'[a] = [authCalls[a] EXCEPT !.overtaken = TRUE]
        BY <2>1 DEF Change
      <3> QED BY <2>1, <3>1 DEF CacheInv, AuthStates
    <2>2. CASE authCalls[a].at # "computed"
      BY <2>2 DEF Change, CacheInv
    <2> QED BY <2>1, <2>2
  <1>2. authCalls' \in [AuthCalls -> AuthStates]
    BY <1>1 DEF Change
  <1>3. Coherent(cache', GrantedKeys')
    BY EmptyCoherent, KeptCoherent DEF CacheInv
  <1> QED BY <1>1, <1>2, <1>3 DEF CacheInv, Answers

LEMMA PermissionOwnerStep ==
    ASSUME CacheInv, PermissionOwner
    PROVE  CacheInv'
  <1>1. ASSUME NEW p \in 1..Len(cache), cache' = [cache EXCEPT ![p].fresh = FALSE],
               UNCHANGED <<userPermissions, workspacePermissions, resourcePermissions, authCalls>>
        PROVE  CacheInv'
    <2>1. GrantedKeys' = GrantedKeys
      BY <1>1, GrantedKeysUnchanged
    <2>2. cache \in Seq(Entries) /\ Len(cache) \in Nat
      BY DEF CacheInv, Coherent
    <2>4. /\ cache' \in Seq(Entries) /\ Len(cache') = Len(cache)
          /\ \A q \in 1..Len(cache) : /\ cache'[q].key = cache[q].key
                                       /\ cache'[q].granted = cache[q].granted
                                       /\ cache'[q].overtaken = cache[q].overtaken
      <3> DEFINE e == [cache[p] EXCEPT !.fresh = FALSE]
      <3>1. cache[p] \in Entries
        BY <2>2
      <3>2. /\ e \in Entries
            /\ e.key = cache[p].key /\ e.granted = cache[p].granted
            /\ e.overtaken = cache[p].overtaken
        BY <3>1 DEF Entries
      <3>3. cache' = [cache EXCEPT ![p] = e]
        BY <1>1
      <3> HIDE DEF e
      <3> QED BY <2>2, <3>2, <3>3
    <2>5. Coherent(cache', GrantedKeys)
      BY <2>4 DEF CacheInv, Coherent, Answers
    <2> QED BY <1>1, <2>1, <2>5 DEF CacheInv
  <1>2. ASSUME NEW K, cache' = <<>> \/ cache' = Kept(cache, K),
               UNCHANGED <<userPermissions, workspacePermissions, resourcePermissions, authCalls>>
        PROVE  CacheInv'
    <2>1. GrantedKeys' = GrantedKeys
      BY <1>2, GrantedKeysUnchanged
    <2>2. Coherent(cache', GrantedKeys)
      BY <1>2, EmptyCoherent, KeptCoherent DEF CacheInv
    <2> QED BY <1>2, <2>1, <2>2 DEF CacheInv
  <1>3. CASE CacheEntryExpires
    BY <1>1, <1>3 DEF CacheEntryExpires
  <1>4. CASE CleanupExpired
    BY <1>2, <1>4 DEF CleanupExpired, KeepOnly
  <1>5. CASE InvalidateCache
    BY <1>2, <1>5 DEF InvalidateCache, InvalidateServer, InvalidateUser, KeepOnly
  <1>6. ASSUME NEW u \in Users, NEW grants \in Grants, SetUserPermissions(u, grants)
        PROVE  CacheInv'
    <2> DEFINE K == {e \in ToSet(cache) : e.key.user # u}
    <2>1. /\ Change /\ cache' = Kept(cache, K)
          /\ userPermissions' = [userPermissions EXCEPT ![u] = grants]
          /\ UNCHANGED <<workspacePermissions, resourcePermissions>>
      BY <1>6 DEF SetUserPermissions, InvalidateUser, KeepOnly
    <2>2. userPermissions' \in [Users -> Grants]
      BY <2>1 DEF CacheInv
    <2>3. ASSUME NEW e \in K
          PROVE  e.key \in GrantedKeys <=> e.key \in GrantedKeys'
      <3>1. cache \in Seq(Entries)
        BY DEF CacheInv, Coherent
      <3>2. e.key \in RequestKeys /\ e.key.user \in Users /\ e.key.user # u
        <4>1. PICK q \in 1..Len(cache) : e = cache[q]
          BY <3>1, <2>3 DEF ToSet
        <4>2. e \in Entries
          BY <3>1, <4>1
        <4>3. e.key \in RequestKeys
          BY <4>2 DEF Entries
        <4> QED BY <4>3, <2>3 DEF RequestKeys
      <3>3. userPermissions'[e.key.user] = userPermissions[e.key.user]
        BY <2>1, <3>2 DEF CacheInv
      <3> HIDE DEF K
      <3> QED BY <2>1, <3>2, <3>3 DEF GrantedKeys, Granted, Roles, EffectiveGrants
    <2> HIDE DEF K
    <2> QED BY <2>1, <2>2, <2>3, ChangeStep
  <1>7. ASSUME NEW u \in Users, NEW grants \in Grants, SetWorkspacePermissions(u, grants)
        PROVE  CacheInv'
    <2>1. Change /\ cache' = <<>> /\ userPermissions' \in [Users -> Grants]
      BY <1>7 DEF SetWorkspacePermissions, InvalidateServer, CacheInv
    <2>2. \A e \in {} : e.key \in GrantedKeys <=> e.key \in GrantedKeys'
      OBVIOUS
    <2> QED BY <2>1, <2>2, ChangeStep
  <1>8. ASSUME NEW r \in ResourceType, NEW roles, SetResourcePermissions(r, roles)
        PROVE  CacheInv'
    <2>1. Change /\ cache' = <<>> /\ userPermissions' \in [Users -> Grants]
      BY <1>8 DEF SetResourcePermissions, InvalidateServer, CacheInv
    <2>2. \A e \in {} : e.key \in GrantedKeys <=> e.key \in GrantedKeys'
      OBVIOUS
    <2> QED BY <2>1, <2>2, ChangeStep
  <1> QED BY <1>3, <1>4, <1>5, <1>6, <1>7, <1>8 DEF PermissionOwner

LEMMA CacheUnchanged ==
    ASSUME CacheInv, UNCHANGED permissionVars
    PROVE  CacheInv'
  <1>1. GrantedKeys' = GrantedKeys
    BY GrantedKeysUnchanged DEF permissionVars
  <1> QED BY <1>1 DEF CacheInv, permissionVars

LEMMA CacheNext ==
    ASSUME CacheInv, [McpNext]_mcpVars
    PROVE  CacheInv'
  <1>1. CASE UNCHANGED permissionVars
    BY <1>1, CacheUnchanged
  <1>2. ASSUME NEW a \in AuthCalls, NEW key \in RequestKeys,
               AuthorizeBegin(a, key) \/ ValidateWorkspaceAccess(a, key)
        PROVE  CacheInv'
    BY <1>2, AuthorizeBeginStep, ValidateWorkspaceAccessStep
  <1>3. ASSUME NEW a \in AuthCalls, AuthorizationGoesOn(a)
        PROVE  CacheInv'
    BY <1>3, AuthorizeEndStep DEF AuthorizationGoesOn
  <1>4. CASE PermissionOwner
    BY <1>4, PermissionOwnerStep
  <1>5. CASE UNCHANGED mcpVars
    BY <1>5, <1>1 DEF mcpVars
  <1>6. CASE McpNext
    <2>1. CASE OnlySession \/ OnlyExecution \/ OnlyDiscovery
      BY <2>1, <1>1 DEF OnlySession, OnlyExecution, OnlyDiscovery
    <2> QED
      BY <1>6, <2>1, <1>2, <1>3, <1>4
      DEF McpNext, SessionGoesOn, ShutdownGoesOn, ExecutionGoesOn, BatchStep, RuntimeGoesOn,
          Discovery, DiscoveryGoesOn
  <1> QED BY <1>5, <1>6

\* Whatever calls, changes, invalidations, expiries and evictions cross: the cache has one
\* entry to a request, and none that says other than the permissions do now, unless it was
\* computed before a change and cached after it.
THEOREM CacheTellsTruth == McpSpec => []CacheCoherent
  <1>1. CacheInv => CacheCoherent
    <2> SUFFICES ASSUME CacheInv PROVE CacheCoherent
      OBVIOUS
    <2>1. ASSUME NEW p \in 1..Len(cache)
          PROVE  cache[p].overtaken \/ cache[p].granted = Granted(cache[p].key)
      <3>1. cache[p] \in Entries /\ Answers(cache[p], GrantedKeys)
        BY DEF CacheInv, Coherent
      <3>2. cache[p].key \in RequestKeys
        BY <3>1 DEF Entries
      <3>3. (cache[p].key \in GrantedKeys) = Granted(cache[p].key)
        <4>1. Granted(cache[p].key) \in BOOLEAN
          BY DEF Granted
        <4>2. cache[p].key \in GrantedKeys <=> Granted(cache[p].key)
          BY <3>2 DEF GrantedKeys
        <4> QED BY <4>1, <4>2
      <3> QED BY <3>1, <3>3 DEF Answers
    <2> QED BY <2>1 DEF CacheCoherent, CacheInv, Coherent
  <1> QED BY <1>1, InitCache, CacheNext, PTL DEF McpSpec

-----------------------------------------------------------------------------
(* The executions of tools, for any numbers of calls, ids, tools, retries  *)
(* and batches.  The proof follows the life of a call: it begins, goes on, *)
(* ends or is aborted, and what the steps of the code do is one of these.  *)

Places == {"idle", "limited", "security", "health", "tool", "delay", "cancelled", "done"}
ToolCallState ==
    [at : Places, attempt : Nat, runs : Nat, timedOut : BOOLEAN, aborted : BOOLEAN,
     ok : BOOLEAN, placeholder : BOOLEAN, id : ExecutionIds \cup {NoToolCall}]
ToolMetrics ==
    [executions : Nat, successes : Nat, failures : Nat, timeouts : Nat, retries : Nat]

ExecutionTypeOK ==
    /\ toolCalls \in [ToolCalls -> ToolCallState]
    /\ active \in [ExecutionIds -> ToolCalls \cup {NoToolCall}]
    /\ metrics \in [Range(ToolOf) -> ToolMetrics]

\* What each place of a call says of the rest of it: only a call in a delay was tried
\* before and may be cancelled unawares, and only one that is done was a success.
CallOK(t) ==
    /\ t.at = "idle" <=> t.id = NoToolCall
    /\ t.ok => t.at = "done" /\ ~t.aborted
    /\ t.at \in {"idle", "security", "health", "tool"} => ~t.aborted
    /\ t.at \in {"idle", "limited", "cancelled"} => t.attempt = 0 /\ t.runs <= 1
    /\ t.at \in {"security", "health", "tool"} => t.attempt = 0 /\ t.runs = 1
    /\ t.at = "delay" => t.runs = t.attempt + 1 /\ t.attempt < Retries
    /\ t.runs <= Retries + 1

Flying(t) == t.at \notin {"idle", "done", "limited"}

\* Each id tracked is that of a call in flight, and a call in flight that is not cancelled
\* is tracked unless another one has its id.
TrackingOK ==
    /\ IsFiniteSet(Tracked)
    /\ Cardinality(Tracked) <= MaxConcurrentExecutions
    /\ \A i \in Tracked : toolCalls[active[i]].id = i /\ Flying(toolCalls[active[i]])
    /\ \A e \in ToolCalls :
        Flying(toolCalls[e]) /\ ~toolCalls[e].aborted
            /\ (\A f \in ToolCalls \ {e} : toolCalls[f].id # toolCalls[e].id)
          => active[toolCalls[e].id] = e

CallsInv ==
    ExecutionTypeOK /\ (\A e \in ToolCalls : CallOK(toolCalls[e])) /\ TrackingOK

\* The metrics of each tool count its calls that have ended.
Ended == {e \in ToolCalls : toolCalls[e].at = "done"}
Won == {e \in Ended : toolCalls[e].ok}
OfTool(t, calls) == OfKind(calls, ToolOf, {t})
MetricOK(m, ended, won) ==
    /\ m.executions = Cardinality(ended)
    /\ m.successes = Cardinality(won)
    /\ m.executions = m.successes + m.failures
    /\ m.timeouts <= m.failures
    /\ Retries > 0 => m.timeouts <= m.retries
MetricsInv ==
    /\ IsFiniteSet(Ended)
    /\ \A t \in Range(ToolOf) : MetricOK(metrics[t], OfTool(t, Ended), OfTool(t, Won))

\* Every request of a running batch is admitted or queued, unless an error stopped it.
BatchInv ==
    /\ batch \in [at : {"idle", "running", "done"}, requests : SUBSET ToolCalls,
                  stopOnError : BOOLEAN, admitted : SUBSET ToolCalls, queue : Seq(ToolCalls),
                  settled : SUBSET ToolCalls, ok : BOOLEAN]
    /\ \A e \in batch.settled : ToolSettled(e)
    /\ batch.at = "idle" => ~batch.ok
    /\ batch.at = "running" =>
            \/ batch.requests \subseteq batch.admitted \cup ToSet(batch.queue)
            \/ \E e \in batch.settled : ~toolCalls[e].ok
    /\ batch.ok => \A e \in batch.requests : toolCalls[e].ok

-----------------------------------------------------------------------------
(* The steps of the code are steps of a call's life.                       *)

\* The steps of the calls: one is admitted or refused, one in flight goes on, one ends, and
\* some that are tracked are aborted.
ToolBegins(e) == \E i \in ExecutionIds, placeholder \in BOOLEAN : ExecuteTool(e, i, placeholder)
ToolMoves(e) ==
    /\ Flying(toolCalls[e])
    /\ \E t \in ToolCallState :
        /\ Flying(t) /\ CallOK(t)
        /\ t.id = toolCalls[e].id /\ t.aborted = toolCalls[e].aborted
        /\ toolCalls' = [toolCalls EXCEPT ![e] = t]
    /\ UNCHANGED <<active, metrics>>
ToolEnds(e) ==
    /\ Flying(toolCalls[e])
    /\ \E t \in ToolCallState, late \in BOOLEAN, n \in Nat :
        /\ t.at = "done" /\ CallOK(t) /\ t.id = toolCalls[e].id
        /\ late => ~t.ok /\ (Retries > 0 => n > 0)
        /\ toolCalls' = [toolCalls EXCEPT ![e] = t]
        /\ metrics' = RecordExecution(e, t.ok, n, late)
    /\ Untrack(e)
TrackedAbort ==
    /\ \/ \E i \in Tracked : Abort({active[i]}) /\ UNCHANGED active
       \/ CancelAll
    /\ UNCHANGED metrics

\* Whatever the code does for a call in flight moves it on or ends it.
LEMMA ToolStepIs ==
    ASSUME CallsInv, NEW e \in ToolCalls, ToolStep(e) \/ ToolServer(e)
    PROVE  /\ ToolMoves(e) \/ ToolEnds(e)
           /\ UNCHANGED <<registered, serverCalls, batch, runtime>>
  <1> DEFINE c == toolCalls[e]
  <1>0. c \in ToolCallState /\ CallOK(c) /\ Retries \in Nat
    BY ExecutionAssumption DEF CallsInv, ExecutionTypeOK
  <1>f. /\ c.at \in Places /\ c.attempt \in Nat /\ c.runs \in Nat /\ c.timedOut \in BOOLEAN
        /\ c.aborted \in BOOLEAN /\ c.ok \in BOOLEAN /\ c.placeholder \in BOOLEAN
        /\ c.id \in ExecutionIds \cup {NoToolCall}
    BY <1>0 DEF ToolCallState
  <1>e. ASSUME NEW t \in ToolCallState, CallOK(t), t.at = "done", ~t.ok, t.id = toolCalls[e].id,
               Flying(toolCalls[e]), toolCalls' = [toolCalls EXCEPT ![e] = t], Untrack(e),
               metrics' = RecordExecution(e, t.ok, Retries, TRUE)
        PROVE  ToolEnds(e)
    BY <1>0, <1>e DEF ToolEnds
  <1>1. ASSUME NEW place \in {"security", "health", "tool"}, place # "security", 
               c.at \in {"security", "health"}, ToolGoes(e, place), UNCHANGED <<active, metrics>>
        PROVE  ToolMoves(e)
    <2> DEFINE t == [c EXCEPT !.at = place]
    <2>1. t \in ToolCallState
      BY <1>0, <1>1 DEF ToolCallState, Places
    <2>2. Flying(t) /\ CallOK(t) /\ t.id = c.id /\ t.aborted = c.aborted
      BY <1>0, <1>f, <1>1 DEF ToolCallState, Flying, CallOK
    <2>3. toolCalls' = [toolCalls EXCEPT ![e] = t]
      BY <1>1 DEF ToolGoes
    <2> QED BY <1>1, <2>1, <2>2, <2>3 DEF ToolMoves, Flying
  <1>2. ASSUME NEW ok \in BOOLEAN, c.at \in {"security", "health", "tool"}, ToolReturns(e, ok)
        PROVE  ToolEnds(e)
    <2> DEFINE t == [c EXCEPT !.at = "done", !.ok = ok]
    <2>1. t \in ToolCallState
      BY <1>0, <1>2 DEF ToolCallState, Places
    <2>2. t.at = "done" /\ CallOK(t) /\ t.id = c.id /\ t.ok = ok
      BY <1>0, <1>f, <1>2 DEF ToolCallState, CallOK
    <2>3. toolCalls' = [toolCalls EXCEPT ![e] = t]
      BY <1>2 DEF ToolReturns
    <2>4. metrics' = RecordExecution(e, t.ok, c.attempt, FALSE) /\ Untrack(e)
      BY <1>2, <2>2 DEF ToolReturns
    <2> QED BY <1>f, <1>2, <2>1, <2>2, <2>3, <2>4 DEF ToolEnds, Flying
  <1>3. ASSUME c.at \in {"security", "cancelled"}, ToolFails(e)
        PROVE  ToolEnds(e)
    <2> DEFINE t == [c EXCEPT !.at = "done"]
    <2>1. t \in ToolCallState
      BY <1>0, <1>3 DEF ToolCallState, Places
    <2>2. t.at = "done" /\ CallOK(t) /\ t.id = c.id /\ t.ok = FALSE
      BY <1>0, <1>f, <1>3 DEF ToolCallState, CallOK
    <2>3. toolCalls' = [toolCalls EXCEPT ![e] = t]
      BY <1>3 DEF ToolFails
    <2>4. metrics' = RecordExecution(e, t.ok, Retries, c.timedOut) /\ Untrack(e)
      BY <1>3, <2>2 DEF ToolFails
    <2> QED BY <1>0, <1>f, <1>3, <2>1, <2>2, <2>3, <2>4 DEF ToolEnds, Flying
  <1>4. CASE RetryTool(e)
    <2> DEFINE ends == c.aborted \/ c.attempt + 1 >= Retries
               t == [c EXCEPT !.attempt = c.attempt + 1, !.runs = c.runs + 1,
                              !.at = IF ends THEN "done" ELSE "delay"]
    <2>1. c.at = "delay" /\ toolCalls' = [toolCalls EXCEPT ![e] = t]
      BY <1>4 DEF RetryTool
    <2>2. c.runs = c.attempt + 1 /\ c.attempt < Retries /\ ~c.ok /\ c.id # NoToolCall
      BY <1>0, <1>f, <2>1 DEF CallOK
    <2>3. t \in ToolCallState
      <3>1. (IF ends THEN "done" ELSE "delay") \in Places
        BY DEF Places
      <3>2. c.attempt + 1 \in Nat /\ c.runs + 1 \in Nat
        BY <1>f
      <3> QED BY <1>0, <3>1, <3>2 DEF ToolCallState
    <2>4. /\ t.at = IF ends THEN "done" ELSE "delay"
          /\ t.attempt = c.attempt + 1 /\ t.runs = c.runs + 1 /\ t.id = c.id
          /\ t.aborted = c.aborted /\ t.ok = FALSE
      BY <1>0, <2>2, <1>f DEF ToolCallState
    <2>5. CallOK(t)
      BY <1>0, <1>f, <2>2, <2>4 DEF CallOK
    <2>6. CASE ends
      <3>1. metrics' = RecordExecution(e, t.ok, Retries, TRUE) /\ Untrack(e)
        BY <1>4, <2>4, <2>6 DEF RetryTool
      <3>2. t.at = "done" /\ Flying(toolCalls[e]) /\ ~t.ok /\ t.id = toolCalls[e].id
        BY <2>1, <2>4, <2>6 DEF Flying
      <3> HIDE DEF t, ends
      <3> QED BY <1>e, <1>4, <2>1, <2>3, <2>5, <3>1, <3>2 DEF RetryTool
    <2>7. CASE ~ends
      BY <1>4, <2>1, <2>3, <2>4, <2>5, <2>7 DEF ToolMoves, Flying, RetryTool
    <2> QED BY <1>4, <2>6, <2>7 DEF RetryTool
  <1>5. CASE ToolCancelled(e)
    BY <1>3, <1>5 DEF ToolCancelled
  <1>6. CASE ExecutionTimeout(e)
    <2>1. c.at \in {"security", "health", "tool"}
      BY <1>6 DEF ExecutionTimeout, Awaiting
    <2>2. c.attempt = 0 /\ ~c.ok /\ c.runs = 1 /\ ~c.aborted /\ c.id # NoToolCall
      BY <1>0, <1>f, <2>1 DEF CallOK
    <2>3. CASE Retries > 0
      <3> DEFINE t == [c EXCEPT !.at = "delay", !.timedOut = TRUE]
      <3>1. toolCalls' = [toolCalls EXCEPT ![e] = t] /\ UNCHANGED <<active, metrics>>
        BY <1>6, <2>3 DEF ExecutionTimeout
      <3>2. t \in ToolCallState
        BY <1>0 DEF ToolCallState, Places
      <3>3. /\ t.at = "delay" /\ t.attempt = 0 /\ t.runs = c.runs /\ t.id = c.id
            /\ t.aborted = c.aborted /\ t.ok = FALSE
        BY <1>0, <1>f, <2>2 DEF ToolCallState
      <3>4. CallOK(t)
        BY <1>0, <1>f, <2>2, <2>3, <3>3 DEF CallOK
      <3> QED BY <1>6, <2>1, <3>1, <3>2, <3>3, <3>4 DEF ToolMoves, Flying, ExecutionTimeout
    <2>4. CASE ~(Retries > 0)
      <3> DEFINE t == [c EXCEPT !.at = "done", !.timedOut = TRUE]
      <3>1. t \in ToolCallState
        BY <1>0 DEF ToolCallState, Places
      <3>2. /\ t.at = "done" /\ t.attempt = 0 /\ t.runs = c.runs /\ t.id = c.id
            /\ t.aborted = c.aborted /\ t.ok = FALSE
        BY <1>0, <1>f, <2>2 DEF ToolCallState
      <3>3. CallOK(t)
        BY <1>0, <1>f, <2>2, <3>2 DEF CallOK
      <3>4. /\ toolCalls' = [toolCalls EXCEPT ![e] = t] /\ Untrack(e)
            /\ metrics' = RecordExecution(e, t.ok, Retries, TRUE)
        BY <1>6, <2>4, <3>2 DEF ExecutionTimeout
      <3> QED BY <1>0, <1>6, <2>1, <2>4, <3>1, <3>2, <3>3, <3>4
          DEF ToolEnds, Flying, ExecutionTimeout
    <2> QED BY <2>3, <2>4
  <1>7. ASSUME NEW ok \in BOOLEAN, Authorize(e, ok)
        PROVE  /\ ToolMoves(e) \/ ToolEnds(e)
               /\ UNCHANGED <<registered, serverCalls, batch, runtime>>
    BY <1>1, <1>2, <1>3, <1>7 DEF Authorize
  <1>8. ASSUME NEW ok \in BOOLEAN, ServerHealth(e, ok)
        PROVE  /\ ToolMoves(e) \/ ToolEnds(e)
               /\ UNCHANGED <<registered, serverCalls, batch, runtime>>
    BY <1>1, <1>2, <1>8 DEF ServerHealth
  <1>9. ASSUME NEW ok \in BOOLEAN, ToolAnswers(e, ok)
        PROVE  /\ ToolMoves(e) \/ ToolEnds(e)
               /\ UNCHANGED <<registered, serverCalls, batch, runtime>>
    BY <1>2, <1>9 DEF ToolAnswers
  <1> QED BY <1>4, <1>5, <1>6, <1>7, <1>8, <1>9 DEF ToolStep, ToolServer, RetryTool, ToolCancelled,
                                              ExecutionTimeout

-----------------------------------------------------------------------------
(* Those steps keep the calls and what is tracked of them.                 *)

\* A call in flight has an id.
LEMMA CallIs ==
    ASSUME CallsInv, NEW e \in ToolCalls
    PROVE  /\ toolCalls[e] \in ToolCallState /\ CallOK(toolCalls[e])
           /\ toolCalls[e].ok \in BOOLEAN /\ toolCalls[e].aborted \in BOOLEAN
           /\ Flying(toolCalls[e]) => toolCalls[e].id \in ExecutionIds
  <1>1. toolCalls[e] \in ToolCallState /\ CallOK(toolCalls[e])
    BY DEF CallsInv, ExecutionTypeOK
  <1> QED BY <1>1 DEF ToolCallState, CallOK, Flying

\* What is tracked is a call in flight under its own id.
LEMMA TrackedIs ==
    ASSUME CallsInv, NEW i \in Tracked
    PROVE  /\ active[i] \in ToolCalls
           /\ toolCalls[active[i]].id = i
           /\ Flying(toolCalls[active[i]])
  BY DEF CallsInv, ExecutionTypeOK, TrackingOK, Tracked

\* recordExecution() keeps the collector's totals numbers.
LEMMA RecordType ==
    ASSUME CallsInv, NEW e \in ToolCalls, NEW ok \in BOOLEAN, NEW late \in BOOLEAN, NEW n \in Nat
    PROVE  RecordExecution(e, ok, n, late) \in [Range(ToolOf) -> ToolMetrics]
  <1>1. ToolOf[e] \in Range(ToolOf) /\ metrics \in [Range(ToolOf) -> ToolMetrics]
    BY ExecutionAssumption DEF Range, CallsInv, ExecutionTypeOK
  <1> DEFINE m == metrics[ToolOf[e]]
  <1>2. m \in ToolMetrics
    BY <1>1
  <1>3. /\ m.executions + 1 \in Nat /\ m.successes + (IF ok THEN 1 ELSE 0) \in Nat
        /\ m.failures + (IF ok THEN 0 ELSE 1) \in Nat
        /\ m.timeouts + (IF late THEN 1 ELSE 0) \in Nat
        /\ m.retries + (IF n > 0 THEN 1 ELSE 0) \in Nat
    BY <1>2 DEF ToolMetrics
  <1>4. [executions |-> m.executions + 1, successes |-> m.successes + (IF ok THEN 1 ELSE 0),
         failures |-> m.failures + (IF ok THEN 0 ELSE 1),
         timeouts |-> m.timeouts + (IF late THEN 1 ELSE 0),
         retries |-> m.retries + (IF n > 0 THEN 1 ELSE 0)] \in ToolMetrics
    BY <1>3 DEF ToolMetrics
  <1> QED BY <1>1, <1>4 DEF RecordExecution

\* A call that goes on in flight stays tracked.
LEMMA MovesCalls ==
    ASSUME CallsInv, NEW e \in ToolCalls, ToolMoves(e)
    PROVE  CallsInv'
  <1>1. PICK t \in ToolCallState :
            /\ Flying(t) /\ CallOK(t)
            /\ t.id = toolCalls[e].id /\ t.aborted = toolCalls[e].aborted
            /\ toolCalls' = [toolCalls EXCEPT ![e] = t]
    BY DEF ToolMoves
  <1>2. ExecutionTypeOK'
    BY <1>1 DEF CallsInv, ExecutionTypeOK, ToolMoves
  <1>3. \A f \in ToolCalls :
            /\ toolCalls'[f] = IF f = e THEN t ELSE toolCalls[f]
            /\ toolCalls'[f].id = toolCalls[f].id
            /\ toolCalls'[f].aborted = toolCalls[f].aborted
            /\ Flying(toolCalls'[f]) <=> Flying(toolCalls[f])
    BY <1>1 DEF CallsInv, ExecutionTypeOK, ToolMoves
  <1>4. \A f \in ToolCalls : CallOK(toolCalls'[f])
    BY <1>1, <1>3 DEF CallsInv
  <1>5. active' = active /\ Tracked' = Tracked
    BY DEF ToolMoves, Tracked
  <1>6. \A i \in Tracked : active[i] \in ToolCalls
    BY DEF Tracked, CallsInv, ExecutionTypeOK
  <1>7. TrackingOK'
    BY <1>3, <1>5, <1>6 DEF CallsInv, TrackingOK
  <1> QED BY <1>2, <1>4, <1>7 DEF CallsInv

\* A call that ends is no longer tracked, and neither is another one that has its id.
LEMMA EndsCalls ==
    ASSUME CallsInv, NEW e \in ToolCalls, ToolEnds(e)
    PROVE  CallsInv'
  <1>1. PICK t \in ToolCallState, late \in BOOLEAN, n \in Nat :
            /\ t.at = "done" /\ CallOK(t) /\ t.id = toolCalls[e].id
            /\ toolCalls' = [toolCalls EXCEPT ![e] = t]
            /\ metrics' = RecordExecution(e, t.ok, n, late)
    BY DEF ToolEnds
  <1> DEFINE i == toolCalls[e].id
  <1>2. i \in ExecutionIds /\ active' = [active EXCEPT ![i] = NoToolCall]
    BY CallIs DEF ToolEnds, Untrack
  <1>3. ExecutionTypeOK'
    <2>1. t.ok \in BOOLEAN
      BY DEF ToolCallState
    <2>2. metrics' \in [Range(ToolOf) -> ToolMetrics]
      BY <1>1, <2>1, RecordType
    <2> QED BY <1>1, <1>2, <2>2 DEF CallsInv, ExecutionTypeOK
  <1>4. \A f \in ToolCalls :
            /\ toolCalls'[f] = IF f = e THEN t ELSE toolCalls[f]
            /\ toolCalls'[f].id = toolCalls[f].id
    BY <1>1 DEF CallsInv, ExecutionTypeOK
  <1>5. \A f \in ToolCalls : CallOK(toolCalls'[f])
    BY <1>1, <1>4 DEF CallsInv
  <1>6. ~Flying(toolCalls'[e])
    BY <1>1, <1>4 DEF Flying
  <1>7. Tracked' = Tracked \ {i}
    BY <1>2, ExecutionAssumption DEF Tracked, CallsInv, ExecutionTypeOK
  <1>8. IsFiniteSet(Tracked') /\ Cardinality(Tracked') <= MaxConcurrentExecutions
    <2>1. IsFiniteSet(Tracked) /\ Cardinality(Tracked) <= MaxConcurrentExecutions
      BY DEF CallsInv, TrackingOK
    <2>2. IsFiniteSet(Tracked') /\ Cardinality(Tracked') <= Cardinality(Tracked)
      BY <1>7, <2>1, FS_Subset
    <2>3. Cardinality(Tracked') \in Nat /\ Cardinality(Tracked) \in Nat
      BY <2>1, <2>2, FS_CardinalityType
    <2> QED BY <2>1, <2>2, <2>3, ExecutionAssumption
  <1>9. \A j \in Tracked' : active'[j] = active[j] /\ active[j] \in ToolCalls \ {e}
    BY <1>2, <1>7, TrackedIs DEF CallsInv, ExecutionTypeOK, Tracked
  <1>10. \A j \in Tracked' : toolCalls'[active'[j]].id = j /\ Flying(toolCalls'[active'[j]])
    BY <1>4, <1>7, <1>9, TrackedIs
  <1>11. ASSUME NEW f \in ToolCalls, Flying(toolCalls'[f]), ~toolCalls'[f].aborted,
                \A g \in ToolCalls \ {f} : toolCalls'[g].id # toolCalls'[f].id
         PROVE  active'[toolCalls'[f].id] = f
    <2>1. f # e /\ toolCalls'[f] = toolCalls[f] /\ toolCalls[f].id # i
      BY <1>4, <1>6, <1>11
    <2>2. active[toolCalls[f].id] = f
      BY <1>4, <1>11, <2>1 DEF CallsInv, TrackingOK
    <2>3. toolCalls[f].id \in ExecutionIds
      BY <1>11, <2>1, CallIs
    <2> QED BY <1>2, <2>1, <2>2, <2>3 DEF CallsInv, ExecutionTypeOK
  <1>12. TrackingOK'
    BY <1>8, <1>10, <1>11 DEF TrackingOK
  <1> QED BY <1>3, <1>5, <1>12 DEF CallsInv

\* A call that begins is tracked, unless the limit is reached.
LEMMA BeginsCalls ==
    ASSUME CallsInv, NEW e \in ToolCalls, ToolBegins(e)
    PROVE  /\ CallsInv'
           /\ UNCHANGED metrics
           /\ toolCalls[e].at = "idle"
           /\ \E t \in ToolCallState : t.at # "done" /\ toolCalls' = [toolCalls EXCEPT ![e] = t]
  <1>1. PICK i \in ExecutionIds, placeholder \in BOOLEAN : ExecuteTool(e, i, placeholder)
    BY DEF ToolBegins
  <1> DEFINE c == toolCalls[e]
             t == IF LimitReached THEN [c EXCEPT !.at = "limited", !.id = i]
                  ELSE [c EXCEPT !.at = "security", !.id = i, !.runs = 1,
                                 !.placeholder = placeholder]
  <1>2. c.at = "idle" /\ toolCalls' = [toolCalls EXCEPT ![e] = t] /\ UNCHANGED metrics
    BY <1>1 DEF ExecuteTool, CallsInv, ExecutionTypeOK, ToolCallState
  <1>3. c \in ToolCallState /\ CallOK(c)
    BY CallIs
  <1>4. c.id = NoToolCall /\ ~c.ok /\ ~c.aborted /\ c.attempt = 0 /\ c.runs <= 1 /\ c.runs \in Nat
    BY <1>2, <1>3 DEF CallOK, ToolCallState
  <1>5. i # NoToolCall
    BY ExecutionAssumption
  <1>6. t \in ToolCallState /\ t.id = i /\ t.at = (IF LimitReached THEN "limited" ELSE "security")
    BY <1>3 DEF ToolCallState, Places
  <1>7. CallOK(t)
    BY <1>3, <1>4, <1>5, ExecutionAssumption DEF CallOK, ToolCallState
  <1> HIDE DEF t
  <1>8. \A f \in ToolCalls : toolCalls'[f] = IF f = e THEN t ELSE toolCalls[f]
    BY <1>2 DEF CallsInv, ExecutionTypeOK
  <1>9. \A j \in Tracked : active[j] \in ToolCalls \ {e}
    BY <1>2, TrackedIs DEF Flying
  <1>10. \A f \in ToolCalls : CallOK(toolCalls'[f])
    BY <1>7, <1>8, CallIs
  <1>11. toolCalls' \in [ToolCalls -> ToolCallState]
    BY <1>2, <1>6 DEF CallsInv, ExecutionTypeOK
  <1>12. CASE LimitReached
    <2>1. active' = active /\ Tracked' = Tracked
      BY <1>1, <1>12 DEF ExecuteTool, Tracked
    <2>2. ~Flying(t)
      BY <1>6, <1>12 DEF Flying
    <2>3. ASSUME NEW f \in ToolCalls, Flying(toolCalls'[f]), ~toolCalls'[f].aborted,
                 \A g \in ToolCalls \ {f} : toolCalls'[g].id # toolCalls'[f].id
          PROVE  active'[toolCalls'[f].id] = f
      <3>1. f # e /\ toolCalls'[f] = toolCalls[f]
        BY <1>8, <2>2, <2>3
      <3>2. toolCalls[f].id # NoToolCall
        BY <2>3, <3>1, CallIs, ExecutionAssumption
      <3>3. \A g \in ToolCalls \ {f} : toolCalls[g].id # toolCalls[f].id
        BY <1>4, <1>8, <2>3, <3>1, <3>2
      <3> QED BY <2>1, <2>3, <3>1, <3>3 DEF CallsInv, TrackingOK
    <2>4. \A j \in Tracked' : toolCalls'[active'[j]].id = j /\ Flying(toolCalls'[active'[j]])
      BY <1>8, <1>9, <2>1, TrackedIs
    <2>5. IsFiniteSet(Tracked') /\ Cardinality(Tracked') <= MaxConcurrentExecutions
      BY <2>1 DEF CallsInv, TrackingOK
    <2>6. TrackingOK'
      BY <2>3, <2>4, <2>5 DEF TrackingOK
    <2>7. ExecutionTypeOK'
      BY <1>2, <1>11, <2>1 DEF CallsInv, ExecutionTypeOK
    <2> QED BY <1>2, <1>6, <1>10, <2>6, <2>7, <1>12 DEF CallsInv
  <1>13. CASE ~LimitReached
    <2>1. active' = [active EXCEPT ![i] = e]
      BY <1>1, <1>13 DEF ExecuteTool
    <2>2. e # NoToolCall /\ active \in [ExecutionIds -> ToolCalls \cup {NoToolCall}]
      BY ExecutionAssumption DEF CallsInv, ExecutionTypeOK
    <2>3. Tracked' = Tracked \cup {i}
      BY <2>1, <2>2 DEF Tracked
    <2>4. Flying(t)
      BY <1>6, <1>13 DEF Flying
    <2>5. IsFiniteSet(Tracked') /\ Cardinality(Tracked') <= MaxConcurrentExecutions
      <3>1. IsFiniteSet(Tracked) /\ Cardinality(Tracked) \in Nat
        BY FS_CardinalityType DEF CallsInv, TrackingOK
      <3>2. IsFiniteSet(Tracked') /\ Cardinality(Tracked') <= Cardinality(Tracked) + 1
        BY <2>3, <3>1, FS_AddElement, SMTT(30)
      <3>3. Cardinality(Tracked') \in Nat
        BY <3>2, FS_CardinalityType
      <3> QED BY <1>13, <3>1, <3>2, <3>3, ExecutionAssumption DEF LimitReached
    <2>6. \A j \in Tracked' : toolCalls'[active'[j]].id = j /\ Flying(toolCalls'[active'[j]])
      BY <1>6, <1>8, <1>9, <2>1, <2>2, <2>3, <2>4, TrackedIs
    <2>7. ASSUME NEW f \in ToolCalls, Flying(toolCalls'[f]), ~toolCalls'[f].aborted,
                 \A g \in ToolCalls \ {f} : toolCalls'[g].id # toolCalls'[f].id
          PROVE  active'[toolCalls'[f].id] = f
      <3>1. CASE f = e
        BY <1>6, <1>8, <2>1, <2>2, <3>1
      <3>2. CASE f # e
        <4>1. toolCalls'[f] = toolCalls[f] /\ toolCalls[f].id # i
          BY <1>6, <1>8, <2>7, <3>2
        <4>2. toolCalls[f].id # NoToolCall /\ toolCalls[f].id \in ExecutionIds
          BY <2>7, <4>1, CallIs, ExecutionAssumption
        <4>3. \A g \in ToolCalls \ {f} : toolCalls[g].id # toolCalls[f].id
          BY <1>4, <1>8, <2>7, <4>1, <4>2
        <4>4. active[toolCalls[f].id] = f
          BY <2>7, <4>1, <4>3 DEF CallsInv, TrackingOK
        <4> QED BY <2>1, <2>2, <4>1, <4>2, <4>4
      <3> QED BY <3>1, <3>2
    <2>8. TrackingOK'
      BY <2>5, <2>6, <2>7 DEF TrackingOK
    <2>9. ExecutionTypeOK'
      BY <1>2, <1>11, <2>1, <2>2 DEF CallsInv, ExecutionTypeOK
    <2> QED BY <1>2, <1>6, <1>10, <2>8, <2>9, <1>13 DEF CallsInv
  <1> QED BY <1>12, <1>13

\* What is aborted was tracked, and ends later: nothing that has ended changes.
LEMMA AbortCalls ==
    ASSUME CallsInv, TrackedAbort
    PROVE  /\ CallsInv'
           /\ \A e \in ToolCalls : \/ toolCalls'[e] = toolCalls[e]
                                   \/ Flying(toolCalls[e]) /\ toolCalls'[e].at # "done"
  <1>1. PICK calls \in SUBSET ToolCalls :
            /\ Abort(calls)
            /\ \A e \in calls : Flying(toolCalls[e])
            /\ \/ active' = active
               \/ calls = {active[i] : i \in Tracked} /\ active' = [i \in ExecutionIds |-> NoToolCall]
    <2>1. ASSUME NEW i \in Tracked, Abort({active[i]}), UNCHANGED active
          PROVE  \E calls \in SUBSET ToolCalls :
                    Abort(calls) /\ (\A e \in calls : Flying(toolCalls[e])) /\ active' = active
      <3>1. {active[i]} \in SUBSET ToolCalls /\ Flying(toolCalls[active[i]])
        BY TrackedIs
      <3> QED BY <2>1, <3>1
    <2>2. ASSUME CancelAll
          PROVE  \E calls \in SUBSET ToolCalls :
                    /\ Abort(calls) /\ (\A e \in calls : Flying(toolCalls[e]))
                    /\ calls = {active[i] : i \in Tracked}
                    /\ active' = [i \in ExecutionIds |-> NoToolCall]
      <3> DEFINE calls == {active[i] : i \in Tracked}
      <3>1. calls \in SUBSET ToolCalls /\ \A e \in calls : Flying(toolCalls[e])
        BY TrackedIs
      <3>2. Abort(calls) /\ active' = [i \in ExecutionIds |-> NoToolCall]
        BY <2>2 DEF CancelAll
      <3> QED BY <3>1, <3>2
    <2> QED BY <2>1, <2>2 DEF TrackedAbort
  <1>2. ASSUME NEW e \in ToolCalls
        PROVE  /\ toolCalls'[e] \in ToolCallState /\ CallOK(toolCalls'[e])
               /\ toolCalls'[e].id = toolCalls[e].id
               /\ Flying(toolCalls'[e]) <=> Flying(toolCalls[e])
               /\ e \in calls => toolCalls'[e].aborted
               /\ e \notin calls => toolCalls'[e] = toolCalls[e]
               /\ \/ toolCalls'[e] = toolCalls[e]
                  \/ Flying(toolCalls[e]) /\ toolCalls'[e].at # "done"
    <2> DEFINE c == toolCalls[e]
               d == toolCalls'[e]
    <2>1. c \in ToolCallState /\ CallOK(c) /\ Retries \in Nat
      BY CallIs, ExecutionAssumption
    <2>2. CASE e \in calls /\ Awaiting(e)
      <3>1. d = [c EXCEPT !.aborted = TRUE, !.at = "cancelled"]
        BY <1>1, <2>2 DEF Abort
      <3>2. c.at \in {"security", "health", "tool"} /\ c.attempt = 0 /\ c.runs = 1 /\ ~c.ok
            /\ c.id # NoToolCall
        BY <2>1, <2>2 DEF Awaiting, CallOK
      <3>3. d \in ToolCallState /\ d.at = "cancelled" /\ d.attempt = c.attempt /\ d.runs = c.runs
            /\ d.ok = c.ok /\ d.id = c.id /\ d.aborted = TRUE
        BY <2>1, <3>1 DEF ToolCallState, Places
      <3>4. CallOK(d)
        BY <2>1, <3>2, <3>3 DEF CallOK
      <3>5. Flying(d) /\ Flying(c) /\ c.at # "done"
        BY <3>2, <3>3 DEF Flying
      <3> QED BY <2>2, <3>3, <3>4, <3>5
    <2>3. CASE e \in calls /\ ~Awaiting(e)
      <3>1. d = [c EXCEPT !.aborted = TRUE]
        BY <1>1, <2>3 DEF Abort
      <3>2. c.at \in {"delay", "cancelled"}
        BY <1>1, <2>1, <2>3 DEF Awaiting, Flying, ToolCallState, Places
      <3>3. ~c.ok /\ c.id # NoToolCall
        BY <2>1, <3>2 DEF CallOK
      <3>4. d \in ToolCallState /\ d.at = c.at /\ d.attempt = c.attempt /\ d.runs = c.runs
            /\ d.ok = c.ok /\ d.id = c.id /\ d.aborted = TRUE
        BY <2>1, <3>1 DEF ToolCallState
      <3>5. CallOK(d)
        BY <2>1, <3>2, <3>3, <3>4 DEF CallOK
      <3>6. Flying(d) /\ Flying(c) /\ c.at # "done"
        BY <3>2, <3>4 DEF Flying
      <3> QED BY <2>3, <3>4, <3>5, <3>6
    <2>4. CASE e \notin calls
      BY <1>1, <2>1, <2>4 DEF Abort
    <2> QED BY <2>2, <2>3, <2>4
  <1>3. ExecutionTypeOK'
    <2>1. toolCalls' \in [ToolCalls -> ToolCallState]
      BY <1>1, <1>2 DEF Abort
    <2> QED BY <1>1, <2>1 DEF CallsInv, ExecutionTypeOK, TrackedAbort
  <1>4. Tracked' \subseteq Tracked /\ \A i \in Tracked' : active'[i] = active[i]
    BY <1>1 DEF Tracked
  <1>5. IsFiniteSet(Tracked') /\ Cardinality(Tracked') <= MaxConcurrentExecutions
    <2>1. IsFiniteSet(Tracked) /\ Cardinality(Tracked) <= MaxConcurrentExecutions
      BY DEF CallsInv, TrackingOK
    <2>2. IsFiniteSet(Tracked') /\ Cardinality(Tracked') <= Cardinality(Tracked)
      BY <1>4, <2>1, FS_Subset
    <2>3. Cardinality(Tracked') \in Nat /\ Cardinality(Tracked) \in Nat
      BY <2>1, <2>2, FS_CardinalityType
    <2> QED BY <2>1, <2>2, <2>3, ExecutionAssumption
  <1>6. \A i \in Tracked' : toolCalls'[active'[i]].id = i /\ Flying(toolCalls'[active'[i]])
    BY <1>2, <1>4, TrackedIs
  <1>7. ASSUME NEW f \in ToolCalls, Flying(toolCalls'[f]), ~toolCalls'[f].aborted,
               \A g \in ToolCalls \ {f} : toolCalls'[g].id # toolCalls'[f].id
        PROVE  active'[toolCalls'[f].id] = f
    <2>1. f \notin calls /\ toolCalls'[f] = toolCalls[f]
      BY <1>2, <1>7
    <2>2. toolCalls[f].id \in ExecutionIds /\ active[toolCalls[f].id] = f
      BY <1>2, <1>7, <2>1, CallIs DEF CallsInv, TrackingOK
    <2>3. toolCalls[f].id \in Tracked
      BY <2>2, ExecutionAssumption DEF Tracked
    <2> QED BY <1>1, <2>1, <2>2, <2>3
  <1>8. TrackingOK'
    BY <1>5, <1>6, <1>7 DEF TrackingOK
  <1> QED BY <1>2, <1>3, <1>8 DEF CallsInv

-----------------------------------------------------------------------------
(* They keep the metrics and the batch.                                    *)

\* Calls that have ended stay as they are.
LEMMA SameMetrics ==
    ASSUME MetricsInv, UNCHANGED metrics,
           \A e \in ToolCalls : \/ toolCalls'[e] = toolCalls[e]
                                \/ toolCalls[e].at # "done" /\ toolCalls'[e].at # "done"
    PROVE  MetricsInv'
  <1>1. Ended' = Ended /\ Won' = Won
    BY DEF Ended, Won
  <1> QED BY <1>1 DEF MetricsInv, OfTool, OfKind, MetricOK

\* A call that ends is counted once, for its own tool.
LEMMA EndsMetrics ==
    ASSUME CallsInv, MetricsInv, NEW e \in ToolCalls, ToolEnds(e)
    PROVE  MetricsInv'
  <1>1. PICK t \in ToolCallState, late \in BOOLEAN, n \in Nat :
            /\ t.at = "done" /\ CallOK(t) /\ t.id = toolCalls[e].id
            /\ late => ~t.ok /\ (Retries > 0 => n > 0)
            /\ toolCalls' = [toolCalls EXCEPT ![e] = t]
            /\ metrics' = RecordExecution(e, t.ok, n, late)
    BY DEF ToolEnds
  <1>2. t.ok \in BOOLEAN /\ ToolOf[e] \in Range(ToolOf)
    BY ExecutionAssumption DEF ToolCallState, Range
  <1>3. e \notin Ended /\ IsFiniteSet(Ended)
    BY DEF ToolEnds, Flying, Ended, MetricsInv
  <1>4. \A f \in ToolCalls : toolCalls'[f] = IF f = e THEN t ELSE toolCalls[f]
    BY <1>1 DEF CallsInv, ExecutionTypeOK
  <1>5. Ended' = Ended \cup {e} /\ Won' = IF t.ok THEN Won \cup {e} ELSE Won
    BY <1>1, <1>2, <1>3, <1>4 DEF Ended, Won
  <1>6. IsFiniteSet(Ended')
    BY <1>3, <1>5, FS_AddElement
  <1>7. ASSUME NEW s \in Range(ToolOf)
        PROVE  MetricOK(metrics'[s], OfTool(s, Ended'), OfTool(s, Won'))
    <2> DEFINE ended == OfTool(s, Ended)
               won == OfTool(s, Won)
               m == metrics[s]
    <2>1. MetricOK(m, ended, won) /\ m \in ToolMetrics
      BY DEF MetricsInv, CallsInv, ExecutionTypeOK
    <2>2. CASE s # ToolOf[e]
      <3>1. OfTool(s, Ended') = ended /\ OfTool(s, Won') = won
        BY <1>5, <2>2 DEF OfTool, OfKind
      <3>2. metrics'[s] = m
        BY <1>1, <1>2, <2>2 DEF RecordExecution, CallsInv, ExecutionTypeOK
      <3> QED BY <2>1, <3>1, <3>2
    <2>3. CASE s = ToolOf[e]
      <3>1. OfTool(s, Ended') = ended \cup {e} /\ e \notin ended /\ e \notin won
        BY <1>3, <1>5, <2>3 DEF OfTool, OfKind, Won
      <3>2. OfTool(s, Won') = IF t.ok THEN won \cup {e} ELSE won
        BY <1>5, <2>3 DEF OfTool, OfKind
      <3>3. IsFiniteSet(ended) /\ IsFiniteSet(won)
        BY <1>3, FS_Subset DEF OfTool, OfKind, Won
      <3>4. /\ Cardinality(ended \cup {e}) = Cardinality(ended) + 1
            /\ Cardinality(won \cup {e}) = Cardinality(won) + 1
            /\ Cardinality(ended) \in Nat /\ Cardinality(won) \in Nat
        BY <3>1, <3>3, FS_AddElement, FS_CardinalityType
      <3>5. metrics'[s] =
                [executions |-> m.executions + 1, successes |-> m.successes + (IF t.ok THEN 1 ELSE 0),
                 failures |-> m.failures + (IF t.ok THEN 0 ELSE 1),
                 timeouts |-> m.timeouts + (IF late THEN 1 ELSE 0),
                 retries |-> m.retries + (IF n > 0 THEN 1 ELSE 0)]
        BY <1>1, <1>2, <2>3 DEF RecordExecution, CallsInv, ExecutionTypeOK
      <3>6. /\ m.executions \in Nat /\ m.successes \in Nat /\ m.failures \in Nat
            /\ m.timeouts \in Nat /\ m.retries \in Nat
        BY <2>1 DEF ToolMetrics
      <3>7. /\ m.executions = Cardinality(ended) /\ m.successes = Cardinality(won)
            /\ m.executions = m.successes + m.failures /\ m.timeouts <= m.failures
            /\ Retries > 0 => m.timeouts <= m.retries
        BY <2>1 DEF MetricOK
      <3> DEFINE d == metrics'[s]
      <3>8. /\ d.executions = m.executions + 1
            /\ d.successes = m.successes + (IF t.ok THEN 1 ELSE 0)
            /\ d.failures = m.failures + (IF t.ok THEN 0 ELSE 1)
            /\ d.timeouts = m.timeouts + (IF late THEN 1 ELSE 0)
            /\ d.retries = m.retries + (IF n > 0 THEN 1 ELSE 0)
        BY <3>5
      <3> HIDE DEF d, m, ended, won
      <3>9. d.executions = Cardinality(OfTool(s, Ended'))
        BY <3>1, <3>4, <3>7, <3>8
      <3>10. d.successes = Cardinality(OfTool(s, Won'))
        BY <1>2, <3>2, <3>4, <3>6, <3>7, <3>8
      <3>11. d.executions = d.successes + d.failures
        BY <1>2, <3>6, <3>7, <3>8
      <3>12. d.timeouts <= d.failures /\ (Retries > 0 => d.timeouts <= d.retries)
        BY <1>1, <1>2, <3>6, <3>7, <3>8
      <3> QED BY <3>9, <3>10, <3>11, <3>12 DEF MetricOK, d
    <2> QED BY <2>2, <2>3
  <1>8. (\A s \in Range(ToolOf) : MetricOK(metrics[s], OfTool(s, Ended), OfTool(s, Won)))'
    BY <1>7 DEF OfTool, OfKind
  <1> QED BY <1>6, <1>8 DEF MetricsInv

\* What is settled stays settled, and the batch counts on it.
LEMMA SameBatch ==
    ASSUME BatchInv, UNCHANGED batch, \A e \in ToolCalls : CallOK(toolCalls[e]),
           \A e \in ToolCalls : ToolSettled(e) => toolCalls'[e] = toolCalls[e]
    PROVE  BatchInv'
  <1>1. batch.settled \subseteq ToolCalls /\ batch.requests \subseteq ToolCalls
    BY DEF BatchInv
  <1>2. \A e \in batch.settled : toolCalls'[e] = toolCalls[e] /\ ToolSettled(e)'
    BY <1>1 DEF BatchInv, ToolSettled
  <1>3. batch.ok => \A e \in batch.requests : toolCalls'[e] = toolCalls[e]
    BY <1>1 DEF BatchInv, ToolSettled, CallOK
  <1> QED BY <1>2, <1>3 DEF BatchInv

\* A batch begins, goes on and returns: what it takes from the queue it admits.
LEMMA BatchSteps ==
    ASSUME BatchInv, UNCHANGED toolCalls,
           \/ \E limit \in 1..Len(BatchRequests), stops \in BOOLEAN :
                    BatchBegins(BatchRequests, limit, stops)
           \/ \E e \in ToolCalls : BatchGoesOn(e)
           \/ BatchReturns
    PROVE  BatchInv'
  <1> DEFINE b == batch
  <1>0. /\ b.at \in {"idle", "running", "done"} /\ b.requests \in SUBSET ToolCalls
        /\ b.stopOnError \in BOOLEAN /\ b.admitted \in SUBSET ToolCalls
        /\ b.queue \in Seq(ToolCalls) /\ b.settled \in SUBSET ToolCalls /\ b.ok \in BOOLEAN
    BY DEF BatchInv
  <1>s. \A e \in ToolCalls : ToolSettled(e)' <=> ToolSettled(e)
    BY DEF ToolSettled
  <1>1. ASSUME NEW limit \in 1..Len(BatchRequests), NEW stops \in BOOLEAN,
               BatchBegins(BatchRequests, limit, stops)
        PROVE  BatchInv'
    <2> DEFINE r == BatchRequests
               first == SubSeq(r, 1, limit)
               rest == SubSeq(r, limit + 1, Len(r))
    <2>1. /\ r \in Seq(ToolCalls) /\ Len(r) \in Nat /\ limit \in Nat /\ limit <= Len(r)
          /\ \A i \in 1..Len(r) : r[i] \in ToolCalls
      BY BatchAssumption
    <2>2. /\ first \in Seq(ToolCalls) /\ Len(first) = limit
          /\ \A i \in 1..limit : first[i] = r[i]
      <3>1. \A i \in 1..limit : r[i] \in ToolCalls
        BY <2>1
      <3>2. /\ first \in Seq(ToolCalls) /\ Len(first) = IF 1 <= limit THEN limit - 1 + 1 ELSE 0
            /\ \A i \in 1..(limit - 1 + 1) : first[i] = r[1 + i - 1]
        BY <2>1, <3>1, SubSeqProperties
      <3> QED BY <2>1, <3>2
    <2>3. /\ rest \in Seq(ToolCalls) /\ Len(rest) = Len(r) - limit
          /\ \A i \in 1..(Len(r) - limit) : rest[i] = r[limit + i]
      <3>1. \A i \in (limit + 1)..Len(r) : r[i] \in ToolCalls
        BY <2>1
      <3>2. /\ rest \in Seq(ToolCalls)
            /\ Len(rest) = IF limit + 1 <= Len(r) THEN Len(r) - (limit + 1) + 1 ELSE 0
            /\ \A i \in 1..(Len(r) - (limit + 1) + 1) : rest[i] = r[(limit + 1) + i - 1]
        BY <2>1, <3>1, SubSeqProperties
      <3> QED BY <2>1, <3>2
    <2>4. ToSet(r) \subseteq ToSet(first) \cup ToSet(rest)
      <3> HIDE DEF first, rest, r
      <3> SUFFICES ASSUME NEW i \in 1..Len(r) PROVE r[i] \in ToSet(first) \cup ToSet(rest)
        BY <2>1 DEF ToSet
      <3>1. CASE i <= limit
        BY <2>1, <2>2, <3>1 DEF ToSet
      <3>2. CASE i > limit
        <4>1. i - limit \in 1..(Len(r) - limit) /\ rest[i - limit] = r[i]
          BY <2>1, <2>3, <3>2
        <4> QED BY <2>3, <4>1 DEF ToSet
      <3> QED BY <2>1, <3>1, <3>2
    <2>5. ToSet(r) \in SUBSET ToolCalls /\ ToSet(first) \in SUBSET ToolCalls
      BY <2>1, <2>2 DEF ToSet
    <2>6. /\ b.at = "idle" /\ ~b.ok
          /\ b' = [b EXCEPT !.at = "running", !.requests = ToSet(r), !.stopOnError = stops,
                            !.admitted = ToSet(first), !.queue = rest]
      BY <1>1 DEF BatchBegins, BatchInv
    <2> HIDE DEF first, rest, r
    <2>7. /\ b'.at = "running" /\ b'.requests = ToSet(r) /\ b'.admitted = ToSet(first)
          /\ b'.queue = rest /\ b'.settled = b.settled /\ b'.ok = b.ok
      BY <2>6 DEF BatchInv
    <2>8. b' \in [at : {"idle", "running", "done"}, requests : SUBSET ToolCalls,
                  stopOnError : BOOLEAN, admitted : SUBSET ToolCalls, queue : Seq(ToolCalls),
                  settled : SUBSET ToolCalls, ok : BOOLEAN]
      BY <2>3, <2>5, <2>6 DEF BatchInv
    <2> QED BY <1>0, <1>s, <2>4, <2>6, <2>7, <2>8 DEF BatchInv
  <1>2. ASSUME NEW e \in ToolCalls, BatchGoesOn(e)
        PROVE  BatchInv'
    <2> DEFINE stops == b.queue = <<>> \/ (b.stopOnError /\ ~toolCalls[e].ok)
               admitted == IF stops THEN b.admitted ELSE b.admitted \cup {Head(b.queue)}
               queue == IF stops THEN <<>> ELSE Tail(b.queue)
    <2>1. /\ e \in b.admitted /\ ToolSettled(e)
          /\ b' = [b EXCEPT !.settled = b.settled \cup {e}, !.admitted = admitted, !.queue = queue]
      BY <1>2 DEF BatchGoesOn, BatchInv
    <2>2. admitted \in SUBSET ToolCalls /\ queue \in Seq(ToolCalls)
      BY <1>0
    <2>3. ToSet(b.queue) \subseteq (IF stops THEN ToSet(b.queue) ELSE {Head(b.queue)} \cup ToSet(queue))
      BY <1>0, HeadTailSet
    <2>4. b.queue = <<>> => ToSet(b.queue) = {}
      BY DEF ToSet
    <2>5. CASE stops
      <3>1. admitted = b.admitted /\ queue = <<>> /\ (b.queue = <<>> \/ ~toolCalls[e].ok)
        BY <2>5
      <3> HIDE DEF stops, admitted, queue
      <3>2. /\ b'.at = b.at /\ b'.requests = b.requests /\ b'.admitted = b.admitted
            /\ b'.queue = <<>> /\ b'.settled = b.settled \cup {e} /\ b'.ok = b.ok
        BY <2>1, <3>1 DEF BatchInv
      <3>3. b' \in [at : {"idle", "running", "done"}, requests : SUBSET ToolCalls,
                    stopOnError : BOOLEAN, admitted : SUBSET ToolCalls, queue : Seq(ToolCalls),
                    settled : SUBSET ToolCalls, ok : BOOLEAN]
        BY <2>1, <2>2, <3>1 DEF BatchInv
      <3>4. b.at = "running" => \/ b.requests \subseteq b.admitted \cup ToSet(<<>>)
                                \/ \E f \in b.settled \cup {e} : ~toolCalls[f].ok
        BY <2>4, <3>1 DEF BatchInv
      <3>5. \A f \in b.settled \cup {e} : ToolSettled(f)
        BY <2>1 DEF BatchInv
      <3> QED BY <1>0, <1>s, <3>2, <3>3, <3>4, <3>5 DEF BatchInv
    <2>6. CASE ~stops
      <3>1. admitted = b.admitted \cup {Head(b.queue)} /\ queue = Tail(b.queue)
        BY <2>6
      <3>2. /\ b'.at = b.at /\ b'.requests = b.requests /\ b'.admitted = admitted
            /\ b'.queue = queue /\ b'.settled = b.settled \cup {e} /\ b'.ok = b.ok
        BY <2>1 DEF BatchInv
      <3>3. b' \in [at : {"idle", "running", "done"}, requests : SUBSET ToolCalls,
                    stopOnError : BOOLEAN, admitted : SUBSET ToolCalls, queue : Seq(ToolCalls),
                    settled : SUBSET ToolCalls, ok : BOOLEAN]
        BY <2>1, <2>2 DEF BatchInv
      <3>4. ToSet(b.queue) \subseteq {Head(b.queue)} \cup ToSet(queue)
        BY <2>3, <2>6
      <3> HIDE DEF stops, admitted, queue
      <3>5. b.at = "running" => \/ b.requests \subseteq admitted \cup ToSet(queue)
                                \/ \E f \in b.settled \cup {e} : ~toolCalls[f].ok
        BY <3>1, <3>4 DEF BatchInv
      <3>6. \A f \in b.settled \cup {e} : ToolSettled(f)
        BY <2>1 DEF BatchInv
      <3> QED BY <1>0, <1>s, <3>2, <3>3, <3>5, <3>6 DEF BatchInv
    <2> QED BY <2>5, <2>6
  <1>3. CASE BatchReturns
    <2>1. b.at = "running" /\ b.queue = <<>> /\ b.admitted = b.settled
      BY <1>3 DEF BatchReturns
    <2>2. ToSet(b.queue) = {}
      BY <2>1 DEF ToSet
    <2>3. BatchSuccess => \A e \in b.requests : toolCalls[e].ok
      BY <2>1, <2>2 DEF BatchInv, BatchSuccess
    <2>4. b' = [b EXCEPT !.at = "done", !.ok = BatchSuccess] /\ BatchSuccess \in BOOLEAN
      BY <1>3 DEF BatchReturns, BatchSuccess
    <2>5. /\ b'.at = "done" /\ b'.requests = b.requests /\ b'.ok = BatchSuccess
          /\ b'.settled = b.settled
      BY <2>4 DEF BatchInv
    <2>6. b' \in [at : {"idle", "running", "done"}, requests : SUBSET ToolCalls,
                  stopOnError : BOOLEAN, admitted : SUBSET ToolCalls, queue : Seq(ToolCalls),
                  settled : SUBSET ToolCalls, ok : BOOLEAN]
      BY <2>4 DEF BatchInv
    <2> QED BY <1>0, <1>s, <2>3, <2>5, <2>6 DEF BatchInv
  <1> QED BY <1>1, <1>2, <1>3

-----------------------------------------------------------------------------
(* The invariant implies ExecutionSound, and every step keeps it.          *)

ExecInv == CallsInv /\ MetricsInv /\ BatchInv

\* The totals over any tools count the calls of those tools.
LEMMA TotalsCount ==
    ASSUME ExecInv, NEW tools \in SUBSET Range(ToolOf), IsFiniteSet(tools)
    PROVE  LET a == Aggregate(tools)
           IN  /\ a.executions = Cardinality(OfKind(Ended, ToolOf, tools))
               /\ a.successes = Cardinality(OfKind(Won, ToolOf, tools))
               /\ a.executions = a.successes + a.failures
               /\ a.timeouts <= a.failures
               /\ Retries > 0 => a.timeouts <= a.retries
               /\ a.toolCount = Cardinality(tools)
  <1> DEFINE a == Aggregate(tools)
             executions == Column("executions")
             successes == Column("successes")
             failures == Column("failures")
             timeouts == Column("timeouts")
             retries == Column("retries")
  <1>1. \A t \in tools :
            /\ executions[t] = metrics[t].executions /\ successes[t] = metrics[t].successes
            /\ failures[t] = metrics[t].failures /\ timeouts[t] = metrics[t].timeouts
            /\ retries[t] = metrics[t].retries
    BY DEF Column, ExecInv, CallsInv, ExecutionTypeOK
  <1>2. \A t \in tools :
            /\ metrics[t].executions \in Nat /\ metrics[t].successes \in Nat
            /\ metrics[t].failures \in Nat /\ metrics[t].timeouts \in Nat
            /\ metrics[t].retries \in Nat
    BY DEF ExecInv, CallsInv, ExecutionTypeOK, ToolMetrics
  <1>3. \A t \in tools :
            /\ metrics[t].executions = Cardinality(OfKind(Ended, ToolOf, {t}))
            /\ metrics[t].successes = Cardinality(OfKind(Won, ToolOf, {t}))
            /\ metrics[t].executions = metrics[t].successes + metrics[t].failures
            /\ metrics[t].timeouts <= metrics[t].failures
            /\ Retries > 0 => metrics[t].timeouts <= metrics[t].retries
    BY DEF ExecInv, MetricsInv, MetricOK, OfTool
  <1>4. /\ a.executions = SumFunctionOnSet(executions, tools)
        /\ a.successes = SumFunctionOnSet(successes, tools)
        /\ a.failures = SumFunctionOnSet(failures, tools)
        /\ a.timeouts = SumFunctionOnSet(timeouts, tools)
        /\ a.retries = SumFunctionOnSet(retries, tools)
        /\ a.toolCount = Cardinality(tools)
    BY DEF Aggregate, Total
  <1> HIDE DEF a, executions, successes, failures, timeouts, retries
  <1>5. IsFiniteSet(Ended) /\ IsFiniteSet(Won)
    BY FS_Subset DEF ExecInv, MetricsInv, Won
  <1>6. a.executions = Cardinality(OfKind(Ended, ToolOf, tools))
    <2>1. \A t \in tools : executions[t] = Cardinality(OfKind(Ended, ToolOf, {t}))
      BY <1>1, <1>3
    <2>2. SumFunctionOnSet(executions, tools) = Cardinality(OfKind(Ended, ToolOf, tools))
      BY <1>5, <2>1, SumCounts
    <2> QED BY <1>4, <2>2
  <1>7. a.successes = Cardinality(OfKind(Won, ToolOf, tools))
    <2>1. \A t \in tools : successes[t] = Cardinality(OfKind(Won, ToolOf, {t}))
      BY <1>1, <1>3
    <2>2. SumFunctionOnSet(successes, tools) = Cardinality(OfKind(Won, ToolOf, tools))
      BY <1>5, <2>1, SumCounts
    <2> QED BY <1>4, <2>2
  <1>8. a.executions = a.successes + a.failures
    <2>1. \A t \in tools : /\ successes[t] \in Nat /\ failures[t] \in Nat
                           /\ executions[t] = successes[t] + failures[t]
      BY <1>1, <1>2, <1>3
    <2>2. SumFunctionOnSet(executions, tools) =
              SumFunctionOnSet(successes, tools) + SumFunctionOnSet(failures, tools)
      BY <2>1, SumAdds
    <2> QED BY <1>4, <2>2
  <1>9. a.timeouts <= a.failures
    <2>1. \A t \in tools : /\ timeouts[t] \in Nat /\ failures[t] \in Nat
                           /\ timeouts[t] <= failures[t]
      BY <1>1, <1>2, <1>3
    <2>2. SumFunctionOnSet(timeouts, tools) <= SumFunctionOnSet(failures, tools)
      BY <2>1, SumMonotone
    <2> QED BY <1>4, <2>2
  <1>10. Retries > 0 => a.timeouts <= a.retries
    <2> SUFFICES ASSUME Retries > 0 PROVE a.timeouts <= a.retries
      OBVIOUS
    <2>1. \A t \in tools : /\ timeouts[t] \in Nat /\ retries[t] \in Nat
                           /\ timeouts[t] <= retries[t]
      BY <1>1, <1>2, <1>3
    <2>2. SumFunctionOnSet(timeouts, tools) <= SumFunctionOnSet(retries, tools)
      BY <2>1, SumMonotone
    <2> QED BY <1>4, <2>2
  <1> QED BY <1>4, <1>6, <1>7, <1>8, <1>9, <1>10 DEF a

\* The invariant says all that ExecutionSound does.
LEMMA ExecInvSound == ExecInv => ExecutionSound
  <1> SUFFICES ASSUME ExecInv PROVE ExecutionSound
    OBVIOUS
  <1> DEFINE ended == {e \in ToolCalls : toolCalls[e].at = "done"}
             used == {ToolOf[e] : e \in ended}
             global == GetGlobalMetrics
  <1>1. ended = Ended /\ IsFiniteSet(ended) /\ ended \subseteq ToolCalls
    BY DEF Ended, ExecInv, MetricsInv
  <1>2. used \in SUBSET Range(ToolOf) /\ IsFiniteSet(used)
    <2>1. used \in SUBSET Range(ToolOf)
      BY ExecutionAssumption DEF Range
    <2>2. ended \subseteq DOMAIN ToolOf
      BY ExecutionAssumption
    <2> QED BY <1>1, <2>1, <2>2, ImageFinite
  <1>3. ToolsMetered = used
    <2>1. DOMAIN metrics = Range(ToolOf)
      BY DEF ExecInv, CallsInv, ExecutionTypeOK
    <2>2. ASSUME NEW t \in Range(ToolOf)
          PROVE  metrics[t].executions > 0 <=> t \in used
      <3>1. metrics[t].executions = Cardinality(OfTool(t, Ended))
        BY DEF ExecInv, MetricsInv, MetricOK
      <3>2. IsFiniteSet(OfTool(t, Ended))
        BY <1>1, FS_Subset DEF OfTool, OfKind
      <3>3. Cardinality(OfTool(t, Ended)) \in Nat
            /\ (Cardinality(OfTool(t, Ended)) = 0 <=> OfTool(t, Ended) = {})
        BY <3>2, FS_CardinalityType, FS_EmptySet
      <3>4. OfTool(t, Ended) # {} <=> t \in used
        BY <1>1 DEF OfTool, OfKind
      <3> QED BY <3>1, <3>3, <3>4
    <2> QED BY <1>2, <2>1, <2>2 DEF ToolsMetered
  <1>4. /\ global.executions = Cardinality(OfKind(Ended, ToolOf, used))
        /\ global.successes = Cardinality(OfKind(Won, ToolOf, used))
        /\ global.executions = global.successes + global.failures
        /\ global.timeouts <= global.failures
        /\ Retries > 0 => global.timeouts <= global.retries
        /\ global.toolCount = Cardinality(used)
    BY <1>2, <1>3, TotalsCount DEF GetGlobalMetrics
  <1>5. global.executions = Cardinality(ended)
    <2>1. OfKind(Ended, ToolOf, used) = ended
      BY <1>1 DEF OfKind
    <2> QED BY <1>4, <2>1, Zenon
  <1>6. global.successes = Cardinality({e \in ended : toolCalls[e].ok})
    <2>1. OfKind(Won, ToolOf, used) = {e \in ended : toolCalls[e].ok}
      BY <1>1 DEF Won, OfKind
    <2> QED BY <1>4, <2>1, Zenon
  <1>7. ASSUME NEW e \in ended
        PROVE  GetAggregatedServerMetrics(ToolOf[e][1]).executions =
                    Cardinality({f \in ended : ToolOf[f][1] = ToolOf[e][1]})
    <2> DEFINE tools == ToolsOfServer(ToolOf[e][1])
    <2>1. tools = {t \in used : t[1] = ToolOf[e][1]}
      BY <1>3 DEF ToolsOfServer
    <2>2. tools \in SUBSET Range(ToolOf) /\ IsFiniteSet(tools)
      BY <1>2, <2>1, FS_Subset
    <2>3. Aggregate(tools).executions = Cardinality(OfKind(Ended, ToolOf, tools))
      BY <2>2, TotalsCount
    <2>4. OfKind(Ended, ToolOf, tools) = {f \in ended : ToolOf[f][1] = ToolOf[e][1]}
      BY <1>1, <2>1 DEF OfKind
    <2> QED BY <2>3, <2>4, Zenon DEF GetAggregatedServerMetrics
  <1>8. /\ Cardinality(Tracked) <= MaxConcurrentExecutions
        /\ \A i \in Tracked : toolCalls[active[i]].id = i /\ InFlight(active[i])
        /\ \A e \in ToolCalls :
            InFlight(e) /\ ~toolCalls[e].aborted
                /\ (\A f \in ToolCalls \ {e} : toolCalls[f].id # toolCalls[e].id)
              => active[toolCalls[e].id] = e
    BY DEF ExecInv, CallsInv, TrackingOK, Flying, InFlight
  <1>9. \A e \in ToolCalls : /\ toolCalls[e].ok => ~toolCalls[e].aborted
                             /\ toolCalls[e].runs <= Retries + 1
    BY DEF ExecInv, CallsInv, CallOK
  <1>10. batch.ok => \A e \in batch.requests : toolCalls[e].ok
    BY DEF ExecInv, BatchInv
  <1> HIDE DEF global, used
  <1>11. /\ global.executions = Cardinality(ended)
         /\ global.successes = Cardinality({e \in ended : toolCalls[e].ok})
         /\ global.executions = global.successes + global.failures
         /\ global.timeouts <= global.failures
         /\ Retries > 0 => global.timeouts <= global.retries
         /\ global.toolCount = Cardinality(used)
         /\ \A e \in ended :
                GetAggregatedServerMetrics(ToolOf[e][1]).executions =
                    Cardinality({f \in ended : ToolOf[f][1] = ToolOf[e][1]})
    BY <1>4, <1>5, <1>6, <1>7
  <1> QED BY <1>8, <1>9, <1>10, <1>11, Zenon DEF ExecutionSound, global, used

\* At first no call is tracked, none has ended and there is no batch.
LEMMA InitExec == McpInit => ExecInv
  <1> SUFFICES ASSUME McpInit PROVE ExecInv
    OBVIOUS
  <1>1. ExecutionInit
    BY DEF McpInit
  <1>2. Unstarted \in ToolCallState /\ CallOK(Unstarted)
    BY ExecutionAssumption DEF Unstarted, ToolCallState, Places, CallOK
  <1>3. \A e \in ToolCalls : toolCalls[e] = Unstarted /\ ~Flying(toolCalls[e])
    BY <1>1 DEF ExecutionInit, Unstarted, Flying
  <1>4. ExecutionTypeOK
    BY <1>1, <1>2 DEF ExecutionInit, ExecutionTypeOK, ToolMetrics
  <1>5. Tracked = {} /\ IsFiniteSet({}) /\ Cardinality({}) = 0
    BY <1>1, FS_EmptySet DEF ExecutionInit, Tracked
  <1>6. TrackingOK
    <2>1. IsFiniteSet(Tracked) /\ Cardinality(Tracked) <= MaxConcurrentExecutions
      BY <1>5, ExecutionAssumption
    <2> QED BY <1>3, <1>5, <2>1 DEF TrackingOK
  <1>7. Ended = {} /\ Won = {}
    BY <1>3 DEF Ended, Won, Unstarted
  <1>8. ASSUME NEW t \in Range(ToolOf)
        PROVE  MetricOK(metrics[t], OfTool(t, Ended), OfTool(t, Won))
    <2>1. metrics[t] = [executions |-> 0, successes |-> 0, failures |-> 0, timeouts |-> 0,
                        retries |-> 0]
      BY <1>1 DEF ExecutionInit
    <2>2. OfTool(t, Ended) = {} /\ OfTool(t, Won) = {}
      BY <1>7 DEF OfTool, OfKind
    <2> QED BY <1>5, <2>1, <2>2 DEF MetricOK
  <1>9. MetricsInv
    BY <1>5, <1>7, <1>8 DEF MetricsInv
  <1>10. BatchInv
    BY <1>1 DEF ExecutionInit, BatchInv
  <1> QED BY <1>2, <1>3, <1>4, <1>6, <1>9, <1>10 DEF ExecInv, CallsInv

\* Each step of the execution manager, the batch and the runtime.
LEMMA CallSteps ==
    ASSUME ExecInv, UNCHANGED batch,
           \/ \E e \in ToolCalls : ToolBegins(e) \/ ToolMoves(e) \/ ToolEnds(e)
           \/ TrackedAbort
    PROVE  ExecInv'
  <1>1. ASSUME CallsInv', MetricsInv',
               \A e \in ToolCalls : \/ toolCalls'[e] = toolCalls[e]
                                    \/ toolCalls[e].at \notin {"done", "limited"}
        PROVE  ExecInv'
    BY <1>1, SameBatch DEF ExecInv, CallsInv, ToolSettled
  <1>2. ASSUME NEW e \in ToolCalls, ToolBegins(e)
        PROVE  ExecInv'
    <2>1. PICK t \in ToolCallState : t.at # "done" /\ toolCalls' = [toolCalls EXCEPT ![e] = t]
      BY <1>2, BeginsCalls DEF ExecInv
    <2>2. CallsInv' /\ UNCHANGED metrics /\ toolCalls[e].at = "idle"
      BY <1>2, BeginsCalls DEF ExecInv
    <2>3. \A f \in ToolCalls : toolCalls'[f] = IF f = e THEN t ELSE toolCalls[f]
      BY <2>1 DEF ExecInv, CallsInv, ExecutionTypeOK
    <2>4. MetricsInv'
      BY <2>1, <2>2, <2>3, SameMetrics DEF ExecInv
    <2> QED BY <1>1, <2>2, <2>3, <2>4
  <1>3. ASSUME NEW e \in ToolCalls, ToolMoves(e)
        PROVE  ExecInv'
    <2>1. PICK t \in ToolCallState : Flying(t) /\ toolCalls' = [toolCalls EXCEPT ![e] = t]
      BY <1>3 DEF ToolMoves
    <2>2. CallsInv' /\ UNCHANGED metrics /\ Flying(toolCalls[e])
      BY <1>3, MovesCalls DEF ExecInv, ToolMoves
    <2>3. \A f \in ToolCalls : toolCalls'[f] = IF f = e THEN t ELSE toolCalls[f]
      BY <2>1 DEF ExecInv, CallsInv, ExecutionTypeOK
    <2>4. MetricsInv'
      BY <2>1, <2>2, <2>3, SameMetrics DEF ExecInv, Flying
    <2> QED BY <1>1, <2>2, <2>3, <2>4 DEF Flying
  <1>4. ASSUME NEW e \in ToolCalls, ToolEnds(e)
        PROVE  ExecInv'
    <2>1. PICK t \in ToolCallState : toolCalls' = [toolCalls EXCEPT ![e] = t]
      BY <1>4 DEF ToolEnds
    <2>2. CallsInv' /\ MetricsInv' /\ Flying(toolCalls[e])
      BY <1>4, EndsCalls, EndsMetrics DEF ExecInv, ToolEnds
    <2>3. \A f \in ToolCalls : toolCalls'[f] = IF f = e THEN t ELSE toolCalls[f]
      BY <2>1 DEF ExecInv, CallsInv, ExecutionTypeOK
    <2> QED BY <1>1, <2>2, <2>3 DEF Flying
  <1>5. CASE TrackedAbort
    <2>1. CallsInv' /\ UNCHANGED metrics
      BY <1>5, AbortCalls DEF ExecInv, TrackedAbort
    <2>2. \A e \in ToolCalls : \/ toolCalls'[e] = toolCalls[e]
                               \/ Flying(toolCalls[e]) /\ toolCalls'[e].at # "done"
      BY <1>5, AbortCalls DEF ExecInv
    <2>3. MetricsInv'
      BY <2>1, <2>2, SameMetrics DEF ExecInv, Flying
    <2> QED BY <1>1, <2>1, <2>2, <2>3 DEF Flying
  <1> QED BY <1>2, <1>3, <1>4, <1>5

\* Only the calls, what is tracked, the metrics and the batch matter.
LEMMA ExecUnchanged ==
    ASSUME ExecInv, UNCHANGED executionVars, UNCHANGED batch \/ BatchInv'
    PROVE  ExecInv'
  <1>1. UNCHANGED <<toolCalls, active, metrics>>
    BY DEF executionVars
  <1>2. ExecutionTypeOK' /\ \A e \in ToolCalls : CallOK(toolCalls'[e])
    BY <1>1 DEF ExecInv, CallsInv, ExecutionTypeOK
  <1>t. TrackingOK'
    BY <1>1 DEF ExecInv, CallsInv, TrackingOK, Tracked
  <1>m. MetricsInv'
    BY <1>1, SameMetrics DEF ExecInv
  <1>3. BatchInv'
    BY <1>1 DEF ExecInv, BatchInv, ToolSettled
  <1> QED BY <1>2, <1>3, <1>t, <1>m DEF ExecInv, CallsInv

\* What callers do: execute, cancel, begin a batch, shut the runtime down.
LEMMA ExecutingStep ==
    ASSUME ExecInv, Executing
    PROVE  ExecInv'
  <1>1. ASSUME NEW e \in ToolCalls, NEW i \in ExecutionIds, NEW placeholder \in BOOLEAN,
               ExecuteTool(e, i, placeholder)
        PROVE  ExecInv'
    <2>1. ToolBegins(e) /\ UNCHANGED batch
      BY <1>1 DEF ToolBegins, ExecuteTool
    <2> QED BY <2>1, CallSteps
  <1>2. ASSUME NEW e \in ToolCalls, ToolServer(e)
        PROVE  ExecInv'
    BY <1>2, ToolStepIs, CallSteps DEF ExecInv
  <1>3. ASSUME NEW i \in ExecutionIds, CancelTool(i)
        PROVE  ExecInv'
    <2>1. TrackedAbort /\ UNCHANGED batch
      BY <1>3 DEF CancelTool, TrackedAbort, Tracked
    <2> QED BY <2>1, CallSteps
  <1>4. CASE CancelAllTools \/ RuntimeShutdown
    <2>1. TrackedAbort /\ UNCHANGED batch
      BY <1>4 DEF CancelAllTools, RuntimeShutdown, TrackedAbort
    <2> QED BY <2>1, CallSteps
  <1>5. ASSUME NEW limit \in 1..Len(BatchRequests), NEW stops \in BOOLEAN,
               BatchBegins(BatchRequests, limit, stops)
        PROVE  ExecInv'
    <2>1. UNCHANGED executionVars /\ UNCHANGED toolCalls
      BY <1>5 DEF BatchBegins, executionVars
    <2>2. BatchInv'
      BY <1>5, <2>1, BatchSteps DEF ExecInv
    <2> QED BY <2>1, <2>2, ExecUnchanged
  <1>6. CASE RuntimeInitialize \/ \E s \in ServerCalls : ServerCall(s)
    BY <1>6, ExecUnchanged DEF RuntimeInitialize, ServerCall
  <1>7. 1 \in 1..Len(BatchRequests)
    BY BatchAssumption
  <1> QED BY <1>1, <1>2, <1>3, <1>4, <1>5, <1>6, <1>7 DEF Executing, RuntimeExecute

\* The other components leave the executions as they are.
LEMMA ExecutionNext ==
    ASSUME ExecInv, [McpNext]_mcpVars
    PROVE  ExecInv'
  <1>1. CASE UNCHANGED mcpExecutionVars
    BY <1>1, ExecUnchanged DEF mcpExecutionVars
  <1>2. CASE UNCHANGED mcpVars
    BY <1>1, <1>2 DEF mcpVars
  <1>3. CASE McpNext
    <2>1. CASE Executing
      BY <2>1, ExecutingStep
    <2>2. ASSUME NEW e \in ToolCalls, ExecutionGoesOn(e)
          PROVE  ExecInv'
      BY <2>2, ToolStepIs, CallSteps DEF ExecutionGoesOn, ExecInv
    <2>3. ASSUME NEW e \in ToolCalls, BatchStep(e)
          PROVE  ExecInv'
      <3>1. ASSUME NEW i \in ExecutionIds, ExecuteTool(e, i, FALSE)
            PROVE  ExecInv'
        <4>1. ToolBegins(e) /\ UNCHANGED batch
          BY <3>1 DEF ToolBegins, ExecuteTool
        <4> QED BY <4>1, CallSteps
      <3>2. CASE BatchGoesOn(e)
        <4>1. UNCHANGED executionVars /\ UNCHANGED toolCalls
          BY <3>2 DEF BatchGoesOn, executionVars
        <4>2. BatchInv'
          BY <3>2, <4>1, BatchSteps DEF ExecInv
        <4> QED BY <4>1, <4>2, ExecUnchanged
      <3> QED BY <2>3, <3>1, <3>2 DEF BatchStep
    <2>4. CASE RuntimeGoesOn
      <3>1. CASE BatchReturns
        <4>1. UNCHANGED executionVars /\ UNCHANGED toolCalls
          BY <3>1 DEF BatchReturns, executionVars
        <4>2. BatchInv'
          BY <3>1, <4>1, BatchSteps DEF ExecInv
        <4> QED BY <4>1, <4>2, ExecUnchanged
      <3>2. CASE ServerCallStep \/ SessionsShutDown
        BY <3>2, ExecUnchanged
        DEF ServerCallStep, ServerCallEnds, SessionsShutDown, RuntimeShutdownEnds
      <3> QED BY <2>4, <3>1, <3>2 DEF RuntimeGoesOn
    <2>5. CASE OnlySession \/ OnlyDiscovery \/ OnlyPermissions
      BY <2>5, <1>1 DEF OnlySession, OnlyDiscovery, OnlyPermissions
    <2> QED
      BY <1>3, <2>1, <2>2, <2>3, <2>4, <2>5
      DEF McpNext, SessionGoesOn, ShutdownGoesOn, Discovery, DiscoveryGoesOn,
          AuthorizationGoesOn
  <1> QED BY <1>2, <1>3

\* However executions, timeouts, retries, cancellations, the runtime's shutdown and batches
\* interleave, and whatever ids the calls get: the limit holds, what is tracked is in
\* flight, the totals of all tools and of each server are those of the calls that ended,
\* cancelled calls never report success, and a batch that reports it had every request run.
THEOREM ExecutionsAccounted == McpSpec => []ExecutionSound
  <1>1. McpInit => ExecInv
    BY InitExec
  <1>2. ExecInv /\ [McpNext]_mcpVars => ExecInv'
    BY ExecutionNext
  <1>3. ExecInv => ExecutionSound
    BY ExecInvSound
  <1> QED BY <1>1, <1>2, <1>3, PTL DEF McpSpec
=============================================================================
