---------------------------- MODULE McpDiscovery ----------------------------
(***************************************************************************)
(* Registration of MCP servers (mcp/registry/mcp-server-registry.ts) and   *)
(* the discovery behind it (mcp/discovery/).  An attempt races the request *)
(* against a promise whose executor names that promise before it exists,   *)
(* and so is rejected from the start: no discovery ever succeeds, the      *)
(* discovery cache stays empty, no server becomes "active" and no tool is  *)
(* indexed.  What is left to model is how the failures are cleaned up.     *)
(***************************************************************************)
EXTENDS Naturals, FiniteSets

CONSTANTS
    DiscoveryCalls,         \* calls of registerServer, refreshServer, discoverServer
    Servers,                \* server ids
    DiscoveryIds,           \* server and millisecond: two calls may get the same
    ConcurrentDiscoveries,
    DiscoveryRetries,
    NoServer

ASSUME DiscoveryAssumption ==
    ConcurrentDiscoveries \in Nat /\ DiscoveryRetries \in Nat /\ NoServer \notin DiscoveryCalls

VARIABLES
    servers,            \* the registry: the call that made the entry under each id
    serverStatus,       \* the status of the entry each call made
    activeDiscoveries,
    discoveries         \* what each call does and how far it is

discoveryVars == <<servers, serverStatus, activeDiscoveries, discoveries>>

NoDiscovery == [op |-> "none", at |-> "idle", server |-> NoServer, entry |-> NoServer,
                id |-> NoServer, attempt |-> 0]

DiscoveryInit ==
    /\ servers = [s \in Servers |-> NoServer]
    /\ serverStatus = [c \in DiscoveryCalls |-> "inactive"]
    /\ activeDiscoveries = {}
    /\ discoveries = [c \in DiscoveryCalls |-> NoDiscovery]

\* The call asks for the session at once, and goes on in a later turn.
Discover(c, op, s, entry, healthy) ==
    discoveries' = [discoveries EXCEPT ![c] =
        [NoDiscovery EXCEPT !.op = op, !.server = s, !.entry = entry,
                            !.at = IF healthy THEN "admission" ELSE "failing"]]

\* registerServer(): the entry is made before the refresh it depends on.
RegisterServer(c, s, healthy) ==
    /\ discoveries[c].at = "idle"
    /\ servers[s] = NoServer
    /\ servers' = [servers EXCEPT ![s] = c]
    /\ Discover(c, "register", s, c, healthy)
    /\ UNCHANGED <<serverStatus, activeDiscoveries>>

\* refreshServer(), also of each server by refreshAll().
RefreshServer(c, s, healthy) ==
    /\ discoveries[c].at = "idle"
    /\ servers[s] # NoServer
    /\ Discover(c, "refresh", s, servers[s], healthy)
    /\ UNCHANGED <<servers, serverStatus, activeDiscoveries>>

\* discoverServer() by the manager itself: refresh() and refreshAll() of the healthy sessions.
RefreshDiscovery(c, s, healthy) ==
    /\ discoveries[c].at = "idle"
    /\ Discover(c, "discover", s, NoServer, healthy)
    /\ UNCHANGED <<servers, serverStatus, activeDiscoveries>>

\* One kind of data is asked for: discoverTools() and the like, getToolByName(),
\* hasCapability().  Such a discovery is not counted.
DiscoverOne(c, s, healthy) ==
    /\ discoveries[c].at = "idle"
    /\ discoveries' = [discoveries EXCEPT ![c] =
            [NoDiscovery EXCEPT !.op = "one", !.server = s,
                                !.at = IF healthy THEN "attempt" ELSE "failing"]]
    /\ UNCHANGED <<servers, serverStatus, activeDiscoveries>>

Admits == Cardinality(activeDiscoveries) < ConcurrentDiscoveries

DiscoverServer(c, i) ==
    /\ discoveries[c].at = "admission"
    /\ IF Admits
       THEN /\ activeDiscoveries' = activeDiscoveries \cup {i}
            /\ discoveries' = [discoveries EXCEPT ![c].at = "attempt", ![c].id = i]
       ELSE /\ discoveries' = [discoveries EXCEPT ![c].at = "failing"]
            /\ UNCHANGED activeDiscoveries
    /\ UNCHANGED <<servers, serverStatus>>

\* Mutant: a failed attempt is never the last one.
MakeRequest_Forever(c) ==
    /\ discoveries[c].at = "attempt"
    /\ discoveries' = [discoveries EXCEPT ![c].attempt = IF @ < DiscoveryRetries THEN @ + 1 ELSE 0]
    /\ UNCHANGED <<servers, serverStatus, activeDiscoveries>>
\* One attempt of the five parallel discoveries: the requests are sent and abandoned.
\* After the last one the id is given back, be it another call's too.
MakeRequest(c) ==
    LET d == discoveries[c]
    IN  /\ d.at = "attempt"
        /\ IF d.attempt < DiscoveryRetries
           THEN /\ discoveries' = [discoveries EXCEPT ![c].attempt = @ + 1]
                /\ UNCHANGED activeDiscoveries
           ELSE /\ discoveries' = [discoveries EXCEPT ![c].at = "failing"]
                /\ activeDiscoveries' = activeDiscoveries \ {d.id}
        /\ UNCHANGED <<servers, serverStatus>>

\* Mutant: a failed registration leaves its entry.
DiscoveryFails_KeepEntry(c) ==
    /\ discoveries[c].at = "failing"
    /\ serverStatus' = [e \in DiscoveryCalls |->
                            IF e = discoveries[c].entry THEN "error" ELSE serverStatus[e]]
    /\ discoveries' = [discoveries EXCEPT ![c].at = "done"]
    /\ UNCHANGED <<servers, activeDiscoveries>>
\* refreshServer() marks the entry it read at the start; registerServer() deletes what is
\* under the id now.
DiscoveryFails(c) ==
    /\ discoveries[c].at = "failing"
    /\ serverStatus' = [e \in DiscoveryCalls |->
                            IF e = discoveries[c].entry THEN "error" ELSE serverStatus[e]]
    /\ servers' = [s \in Servers |->
                    IF discoveries[c].op = "register" /\ s = discoveries[c].server
                    THEN NoServer ELSE servers[s]]
    /\ discoveries' = [discoveries EXCEPT ![c].at = "done"]
    /\ UNCHANGED activeDiscoveries

\* removeServer(), or clear() when there is one server.
RemoveServer(s) ==
    /\ servers[s] # NoServer
    /\ servers' = [servers EXCEPT ![s] = NoServer]
    /\ UNCHANGED <<serverStatus, activeDiscoveries, discoveries>>

\* The manager's shutdown() forgets the discoveries, which run on.
DiscoveryShutdown ==
    /\ activeDiscoveries # {}
    /\ activeDiscoveries' = {}
    /\ UNCHANGED <<servers, serverStatus, discoveries>>

\* getRegistryStats(); listActiveServers() are those with tools, prompts and so on.
RegistryStats ==
    LET Having(status) == Cardinality({s \in Servers : servers[s] # NoServer
                                                      /\ serverStatus[servers[s]] = status})
    IN  [total |-> Cardinality({s \in Servers : servers[s] # NoServer}),
         active |-> Having("active"), inactive |-> Having("inactive"), error |-> Having("error")]

DiscoveryStep(c) ==
    \/ MakeRequest(c) \/ DiscoveryFails(c)
    \/ \E i \in DiscoveryIds : DiscoverServer(c, i)
DiscoveryOwner ==
    \/ DiscoveryShutdown
    \/ \E s \in Servers : RemoveServer(s)

\* However registrations, refreshes and removals of one server cross, an entry of the
\* registry belongs to a registration that is still under way, so that none survives its
\* failure; the discoveries counted are really running and no more than allowed; and
\* each stays within its attempts.
RegistrationsSound ==
    /\ \A s \in Servers : servers[s] # NoServer =>
            discoveries[servers[s]].op = "register" /\ discoveries[servers[s]].at # "done"
    /\ Cardinality(activeDiscoveries) <= ConcurrentDiscoveries
    /\ \A i \in activeDiscoveries :
            \E c \in DiscoveryCalls : discoveries[c].at = "attempt" /\ discoveries[c].id = i
    /\ \A c \in DiscoveryCalls : discoveries[c].attempt <= DiscoveryRetries
    /\ RegistryStats.total = RegistryStats.inactive + RegistryStats.error
=============================================================================
