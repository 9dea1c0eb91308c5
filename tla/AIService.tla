------------------------------ MODULE AIService ------------------------------
(***************************************************************************)
(* The AI service (ai-service/src): its health checks of the model         *)
(* providers, behind a cache and a timeout, and the calls it passes on to  *)
(* them.  Time passes in ticks, of which the health checks take note; how  *)
(* long a provider takes over a call is left open.  Streaming is left out. *)
(***************************************************************************)
EXTENDS Integers, FiniteSets

CONSTANTS
    Providers,          \* names in the provider registry
    Names,              \* names callers ask for
    Calls,              \* calls of /execute, /chat, /embeddings and /embed
    Probes,             \* requests for the health of one provider or of all
    Expiration,         \* cacheExpirationMs, in ticks
    HealthTimeout,      \* of one provider's health check, in ticks
    RetryAttempts,      \* of retry(), which only ollama's execute goes through
    MaxToolExecutions

ASSUME ServiceAssumption ==
    /\ Providers \subseteq Names
    /\ {Expiration, HealthTimeout, RetryAttempts, MaxToolExecutions} \subseteq Nat \ {0}
    /\ HealthTimeout <= Expiration
    /\ IsFiniteSet(Providers)

VARIABLES
    now,
    up,             \* does the provider work?
    lastUp,         \* history: when it last did
    healthCache,    \* provider-health.service's
    probes,         \* the health requests under way, one check per provider
    calls,          \* the calls; executions counts those of a provider (history)
    rows            \* aIExecution rows stored for each call

serviceVars == <<now, up, lastUp, healthCache, probes, calls, rows>>
healthVars == <<up, lastUp, healthCache, probes>>
callVars == <<calls, rows>>

NoEntry == [status |-> "none", lastChecked |-> 0]

ServiceInit ==
    /\ now = 0
    /\ up \in [Providers -> BOOLEAN]
    /\ lastUp = [p \in Providers |-> IF up[p] THEN 0 ELSE -(Expiration + HealthTimeout + 1)]
    /\ healthCache = [p \in Names |-> NoEntry]
    /\ probes = [h \in Probes |-> [at |-> "idle"]]
    /\ calls = [c \in Calls |-> [at |-> "idle", executions |-> 0]]
    /\ rows = [c \in Calls |-> 0]

\* A provider fails or recovers.
ProviderTurns(p) ==
    /\ up' = [up EXCEPT ![p] = ~@]
    /\ lastUp' = [lastUp EXCEPT ![p] = now]
    /\ UNCHANGED <<now, healthCache, probes, callVars>>

-----------------------------------------------------------------------------
\* Provider health

\* getCachedHealth(): an entry too old is no entry, and is deleted when it is met.
Cached(p) == healthCache[p].status # "none" /\ now - healthCache[p].lastChecked <= Expiration

\* checkProviderHealth() up to its await: what is cached, or no provider, is told at once.
CheckOf(p) ==
    IF Cached(p) THEN [at |-> "told", status |-> healthCache[p].status]
    ELSE IF p \notin Providers THEN [at |-> "told", status |-> "unknown"]
    ELSE [at |-> "asked", began |-> now, reply |-> "none"]

CacheWhenAsked(ps) ==
    [p \in Names |->
        IF p \notin ps \/ Cached(p) THEN healthCache[p]
        ELSE IF p \notin Providers THEN [status |-> "unknown", lastChecked |-> now]
        ELSE NoEntry]

\* Once the last of its checks is told a request is answered with what they said.
Concluded(checks) ==
    IF \A p \in DOMAIN checks : checks[p].at = "told"
    THEN [at |-> "answered", when |-> now, asked |-> DOMAIN checks,
          healthy |-> {p \in DOMAIN checks : checks[p].status = "healthy"}]
    ELSE [at |-> "open", checks |-> checks]

\* health(p), or getHealthyProviders() and checkSystemHealth() of them all.
HealthAsked(h, ps) ==
    /\ probes[h].at = "idle"
    /\ probes' = [probes EXCEPT ![h] = Concluded([p \in ps |-> CheckOf(p)])]
    /\ healthCache' = CacheWhenAsked(ps)
    /\ UNCHANGED <<now, up, lastUp, callVars>>

Asking(h, p) ==
    /\ probes[h].at = "open"
    /\ p \in DOMAIN probes[h].checks
    /\ probes[h].checks[p].at = "asked"

\* The provider's own answer: the truth, or an error on the way.
ProviderReplies(h, p) ==
    /\ Asking(h, p) /\ probes[h].checks[p].reply = "none"
    /\ \E reply \in {"unhealthy"} \cup {s \in {"healthy"} : up[p]} :
          probes' = [probes EXCEPT ![h].checks[p].reply = reply]
    /\ UNCHANGED <<now, up, lastUp, healthCache, callVars>>

\* Mutant: an entry is dated by its answer.
EntryOf_Answered(check, status) == [status |-> status, lastChecked |-> now]
\* A check is dated by its beginning.
EntryOf(check, status) == [status |-> status, lastChecked |-> check.began]

Told(h, p, status) ==
    LET checks == probes[h].checks
    IN  /\ probes' = [probes EXCEPT ![h] =
              Concluded([checks EXCEPT ![p] = [at |-> "told", status |-> status]])]
        /\ healthCache' = [healthCache EXCEPT ![p] = EntryOf(checks[p], status)]
        /\ UNCHANGED <<now, up, lastUp, callVars>>

\* What checkProviderHealth() does after its await, whatever the cache holds by now.
HealthTold(h, p) ==
    /\ Asking(h, p) /\ probes[h].checks[p].reply # "none"
    /\ Told(h, p, probes[h].checks[p].reply)

TimeIsUp(h, p) == now >= probes[h].checks[p].began + HealthTimeout

\* createTimeoutPromise() wins the race; the provider's reply is for nobody.
HealthTimesOut(h, p) ==
    /\ Asking(h, p) /\ TimeIsUp(h, p)
    /\ Told(h, p, "unhealthy")

ServiceTimersAllow == \A h \in Probes, p \in Providers : Asking(h, p) => ~TimeIsUp(h, p)

ServiceTick ==
    /\ ServiceTimersAllow
    /\ now' = now + 1
    /\ lastUp' = [p \in Providers |-> IF up[p] THEN now + 1 ELSE lastUp[p]]
    /\ UNCHANGED <<up, healthCache, probes, callVars>>

-----------------------------------------------------------------------------
\* Calls

CallKinds == {"execute", "tools", "chat", "embeddings", "embed"}

\* What the defaults of the model registry name.
ChatDefaults == {"ollama", "openai", "gemini", "claude", "anthropic"}
EmbeddingDefaults == {"ollama", "openai", "gemini"}
HasDefaultModel(provider, kind) ==
    provider \in IF kind = "embeddings" THEN EmbeddingDefaults ELSE ChatDefaults

\* How often a provider's method is tried.
AttemptsOf(provider, kind) ==
    IF provider = "ollama" /\ kind \in {"execute", "tools", "chat"} THEN RetryAttempts ELSE 1

\* Calls refused before a provider is asked; /embed takes the mock provider for an
\* unknown one.
Refused(kind, provider, hasModel) ==
    CASE kind = "embed" -> FALSE
      [] kind = "tools" -> provider \notin Providers
      [] OTHER -> provider \notin Providers \/ ~(hasModel \/ HasDefaultModel(provider, kind))

CallSent(c) == [calls EXCEPT ![c].at = "sent"]
CallEnds(c, ok) == calls' = [calls EXCEPT ![c] = [at |-> "answered", ok |-> ok, executions |-> @.executions]]
ExecutionBegins(c, call) ==
    calls' = [calls EXCEPT ![c] = [call EXCEPT !.executions = @ + 1]]

\* The controller's handlers, up to the provider's first execution (or, for /embed, its
\* health() before it).
CallArrives(c, kind, provider, hasModel) ==
    /\ calls[c].at = "sent"
    /\ IF Refused(kind, provider, hasModel) THEN CallEnds(c, FALSE)
       ELSE LET call == [at |-> "asked", kind |-> kind, provider |-> provider, attempt |-> 1,
                         rounds |-> 0, executions |-> calls[c].executions]
            IN  IF kind = "embed" THEN calls' = [calls EXCEPT ![c] = [call EXCEPT !.at = "checked"]]
                ELSE ExecutionBegins(c, call)
    /\ UNCHANGED <<now, healthVars, rows>>

\* providerManager.getProvider() asks for the provider's health before /embed.
EmbedChecked(c) ==
    /\ calls[c].at = "checked"
    /\ \/ ExecutionBegins(c, [calls[c] EXCEPT !.at = "asked"])
       \/ CallEnds(c, FALSE)
    /\ UNCHANGED <<now, healthVars, rows>>

\* The provider answers: an execution is stored, anything else is answered.
ProviderAnswers(c) ==
    /\ calls[c].at = "asked"
    /\ IF calls[c].kind = "execute" THEN calls' = [calls EXCEPT ![c].at = "storing"]
       ELSE CallEnds(c, TRUE)
    /\ UNCHANGED <<now, healthVars, rows>>

\* executeWithTools(): the model wants tools, there is no handler to run them, and it is
\* asked again with that in the prompt; the last time it is given no tools.
ToolsWanted(c) ==
    /\ calls[c].at = "asked" /\ calls[c].kind = "tools"
    /\ calls[c].rounds < MaxToolExecutions
    /\ ExecutionBegins(c, [calls[c] EXCEPT !.rounds = @ + 1, !.attempt = 1])
    /\ UNCHANGED <<now, healthVars, rows>>

\* The provider fails, or its timeout does: retry() asks again, or the call is answered 500.
ProviderFails(c) ==
    /\ calls[c].at = "asked"
    /\ IF calls[c].attempt < AttemptsOf(calls[c].provider, calls[c].kind)
       THEN ExecutionBegins(c, [calls[c] EXCEPT !.attempt = @ + 1])
       ELSE CallEnds(c, FALSE)
    /\ UNCHANGED <<now, healthVars, rows>>

\* repository.create(); its failure is logged and the call answered all the same.
Stored(c) ==
    /\ calls[c].at = "storing"
    /\ CallEnds(c, TRUE)
    /\ rows' \in {rows, [rows EXCEPT ![c] = @ + 1]}
    /\ UNCHANGED <<now, healthVars>>

-----------------------------------------------------------------------------
ServiceTypeOK ==
    /\ now \in Nat
    /\ up \in [Providers -> BOOLEAN]
    /\ lastUp \in [Providers -> Int]
    /\ healthCache \in [Names -> [status : {"none", "healthy", "unhealthy", "unknown"},
                                  lastChecked : Nat]]
    /\ \A h \in Probes : probes[h].at \in {"idle", "open", "answered"}
    /\ \A c \in Calls : calls[c].at \in {"idle", "sent", "checked", "asked", "storing", "answered"}
    /\ rows \in [Calls -> Nat]

\* A provider reported healthy did work not longer ago than the cache and, where several
\* are reported, the wait for the slowest of them account for.
HealthIsRecent ==
    \A h \in Probes :
       probes[h].at = "answered" =>
          \A p \in probes[h].healthy :
             lastUp[p] >= probes[h].when - Expiration
                             - (IF Cardinality(probes[h].asked) > 1 THEN HealthTimeout ELSE 0)

\* A provider is asked a bounded number of times for one call, a row is stored at most once
\* and only for a provider's answer.
CallsAreBounded ==
    \A c \in Calls :
       /\ calls[c].executions <= (MaxToolExecutions + 1) * RetryAttempts
       /\ rows[c] <= 1
       /\ rows[c] > 0 => calls[c].at = "answered" /\ calls[c].ok /\ calls[c].executions > 0
=============================================================================
