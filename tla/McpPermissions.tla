--------------------------- MODULE McpPermissions ---------------------------
(***************************************************************************)
(* Authorization of MCP requests (mcp/security/): the permission service   *)
(* with its permissions of users, workspaces, tools and servers, and the   *)
(* cache of its answers, behind the security manager.                      *)
(***************************************************************************)
EXTENDS Naturals, Sequences, SequencesExt

CONSTANTS
    AuthCalls,              \* calls of authorizeTool, authorizeConnection, ...
    Users,
    MaxCacheSize,
    MaxChanges              \* bound: how often permissions are set or the cache invalidated

ASSUME PermissionsAssumption == MaxCacheSize \in Nat /\ MaxChanges \in Nat

VARIABLES
    userPermissions,        \* what setUserPermissions gave each user
    workspacePermissions,   \* the one workspace: its user, and what it gives that user
    resourcePermissions,    \* the tool and the server: the roles let in
    cache,                  \* the entries, oldest first
    authCalls,              \* per call: its request, the answer computed, where it is
    changes

permissionVars == <<userPermissions, workspacePermissions, resourcePermissions, cache,
                    authCalls, changes>>

SecurityRole == {"admin", "user"}
\* Of a prompt, a resource or a template nobody configures who may read it.
ResourceType == {"tool", "server", "prompt"}
\* What can be given: nothing, the admin role, or the permission itself.
Grants == {{}, {"admin"}, {"permission"}}
RequestKeys == [user : Users, resource : ResourceType]

PermissionsInit ==
    /\ userPermissions = [u \in Users |-> {}]
    /\ workspacePermissions = [user |-> CHOOSE u \in Users : TRUE, grants |-> {}]
    /\ resourcePermissions = [r \in ResourceType |-> SecurityRole]
    /\ cache = <<>>
    /\ authCalls = [a \in AuthCalls |-> [at |-> "idle"]]
    /\ changes = 0

\* getUserEffectivePermissions(): the default role, the user's, and the workspace's.
EffectiveGrants(u) ==
    userPermissions[u] \cup
        (IF workspacePermissions.user = u THEN workspacePermissions.grants ELSE {})
Roles(u) == {"user"} \cup (EffectiveGrants(u) \cap SecurityRole)

\* performAuthorization(): by a role, or by an explicit permission.
Granted(key) ==
    \/ Roles(key.user) \cap resourcePermissions[key.resource] # {}
    \/ "permission" \in EffectiveGrants(key.user)

\* What stays of the entries s, in their order, when those outside K are deleted.
Kept(s, K) ==
    LET kept[n \in 0..Len(s)] ==
            IF n = 0 THEN <<>>
            ELSE IF s[n] \in K THEN Append(kept[n-1], s[n]) ELSE kept[n-1]
    IN  kept[Len(s)]
KeepOnly(K) == cache' = Kept(cache, K)

Position(key) == SelectInSeq(cache, LAMBDA e : e.key = key)

\* PermissionCache.set(): a full cache loses its oldest tenth, rounded down.
CacheSet(entry) ==
    LET room == IF Len(cache) >= MaxCacheSize
                THEN SubSeq(cache, (MaxCacheSize \div 10) + 1, Len(cache)) ELSE cache
    IN  Append(Kept(room, {e \in ToSet(room) : e.key # entry.key}), entry)

\* authorize(): a cached answer is returned; an entry found expired is deleted.
AuthorizeBegin(a, key) ==
    /\ authCalls[a].at = "idle"
    /\ LET p == Position(key)
       IN  IF p # 0 /\ cache[p].fresh
           THEN /\ authCalls' = [authCalls EXCEPT ![a] = [at |-> "done", granted |-> cache[p].granted]]
                /\ UNCHANGED cache
           ELSE /\ authCalls' = [authCalls EXCEPT ![a] =
                        [at |-> "computed", key |-> key, granted |-> Granted(key), overtaken |-> FALSE]]
                /\ KeepOnly({e \in ToSet(cache) : e.key # key})
    /\ UNCHANGED <<userPermissions, workspacePermissions, resourcePermissions, changes>>

\* validateWorkspaceAccess(): all but a connection have to say who asks, where and in
\* which session; if not, the permission service is not asked at all.
ValidateWorkspaceAccess(a, key) ==
    /\ authCalls[a].at = "idle"
    /\ key.resource # "server"
    /\ authCalls' = [authCalls EXCEPT ![a] = [at |-> "done", granted |-> FALSE]]
    /\ UNCHANGED <<userPermissions, workspacePermissions, resourcePermissions, cache, changes>>

\* A turn later the answer is cached, whatever was set in between, and returned: the
\* security manager throws when it is a refusal.
AuthorizeEnd(a) ==
    /\ authCalls[a].at = "computed"
    /\ cache' = CacheSet([key |-> authCalls[a].key, granted |-> authCalls[a].granted,
                          overtaken |-> authCalls[a].overtaken, fresh |-> TRUE])
    /\ authCalls' = [authCalls EXCEPT ![a] = [at |-> "done", granted |-> authCalls[a].granted]]
    /\ UNCHANGED <<userPermissions, workspacePermissions, resourcePermissions, changes>>

-----------------------------------------------------------------------------
(* Changes, each with the invalidation that belongs to it.                 *)

\* Answers computed but not cached yet are overtaken.
Change ==
    /\ changes < MaxChanges
    /\ changes' = changes + 1
    /\ authCalls' = [a \in AuthCalls |->
                        IF authCalls[a].at = "computed"
                        THEN [authCalls[a] EXCEPT !.overtaken = TRUE] ELSE authCalls[a]]

InvalidateUser(u) == KeepOnly({e \in ToSet(cache) : e.key.user # u})
\* Mutant: only the entries of the tool or server itself are dropped, by a wrong test.
InvalidateServer_Refused == KeepOnly({e \in ToSet(cache) : e.granted})
\* Every request here is of the one workspace and the one server: all entries go, with
\* invalidateWorkspace(), invalidateServer() and clear().
InvalidateServer == cache' = <<>>

SetUserPermissions(u, grants) ==
    /\ Change
    /\ userPermissions' = [userPermissions EXCEPT ![u] = grants]
    /\ InvalidateUser(u)
    /\ UNCHANGED <<workspacePermissions, resourcePermissions>>

SetWorkspacePermissions(u, grants) ==
    /\ Change
    /\ workspacePermissions' = [user |-> u, grants |-> grants]
    /\ InvalidateServer
    /\ UNCHANGED <<userPermissions, resourcePermissions>>

\* setToolPermissions() and setServerPermissions()
SetResourcePermissions(r, allowedRoles) ==
    /\ Change
    /\ r # "prompt"
    /\ resourcePermissions' = [resourcePermissions EXCEPT ![r] = allowedRoles]
    /\ InvalidateServer
    /\ UNCHANGED <<userPermissions, workspacePermissions>>

\* invalidateCache()
InvalidateCache ==
    /\ changes < MaxChanges
    /\ changes' = changes + 1
    /\ InvalidateServer \/ \E u \in Users : InvalidateUser(u)
    /\ UNCHANGED <<userPermissions, workspacePermissions, resourcePermissions, authCalls>>

\* Time passes: the oldest entry that is fresh expires.
CacheEntryExpires ==
    /\ \E p \in 1..Len(cache) :
        /\ cache[p].fresh
        /\ \A q \in 1..(p - 1) : ~cache[q].fresh
        /\ cache' = [cache EXCEPT ![p].fresh = FALSE]
    /\ UNCHANGED <<userPermissions, workspacePermissions, resourcePermissions, authCalls, changes>>

CleanupExpired ==
    /\ \E p \in 1..Len(cache) : ~cache[p].fresh
    /\ KeepOnly({e \in ToSet(cache) : e.fresh})
    /\ UNCHANGED <<userPermissions, workspacePermissions, resourcePermissions, authCalls, changes>>

PermissionOwner ==
    \/ CacheEntryExpires \/ CleanupExpired \/ InvalidateCache
    \/ \E u \in Users, grants \in Grants :
            SetUserPermissions(u, grants) \/ SetWorkspacePermissions(u, grants)
    \/ \E r \in ResourceType, roles \in {{"admin"}, SecurityRole} : SetResourcePermissions(r, roles)

\* No cached answer disagrees with the permissions as they are, be it about a tool, a
\* server or another resource and whether the user, the workspace or the resource was
\* changed, unless the answer was computed before the change and cached after it.
CacheCoherent ==
    /\ \A p, q \in 1..Len(cache) : cache[p].key = cache[q].key => p = q
    /\ \A p \in 1..Len(cache) : cache[p].overtaken \/ cache[p].granted = Granted(cache[p].key)
=============================================================================
