----------------------------- MODULE KernelProofs -----------------------------
(***************************************************************************)
(* What the kernel, the AI service and the prompt client promise, proved   *)
(* for any providers, callers, requests, prompts and time limits.  Each    *)
(* has an invariant of its own: time and the health checks, the client and *)
(* its cache, the calls, and the requests with the kernel's start.         *)
(***************************************************************************)
EXTENDS Kernel, CollectionLemmas

-----------------------------------------------------------------------------
(* Provider health.                                                        *)

Statuses == {"none", "healthy", "unhealthy", "unknown"}
ToldCheck == [at : {"told"}, status : Statuses]
AskedCheck == [at : {"asked"}, began : Nat, reply : {"none", "healthy", "unhealthy"}]

\* The shape of a health request.
ProbeTypeOK(probe) ==
    \/ probe = [at |-> "idle"]
    \/ /\ probe.at = "open"
       /\ probe = [at |-> "open", checks |-> probe.checks]
       /\ DOMAIN probe.checks \subseteq Names
       /\ probe.checks = [p \in DOMAIN probe.checks |-> probe.checks[p]]
       /\ \A p \in DOMAIN probe.checks : probe.checks[p] \in ToldCheck \cup AskedCheck
    \/ /\ probe.at = "answered"
       /\ probe = [at |-> "answered", when |-> probe.when, asked |-> probe.asked,
                   healthy |-> probe.healthy]
       /\ probe.when \in Nat
       /\ probe.asked \subseteq Names /\ IsFiniteSet(probe.asked)
       /\ probe.healthy \subseteq probe.asked

HealthTypeOK ==
    /\ now \in Nat
    /\ up \in [Providers -> BOOLEAN]
    /\ lastUp \in [Providers -> Int]
    /\ healthCache \in [Names -> [status : Statuses, lastChecked : Nat]]
    /\ DOMAIN probes = Probes
    /\ \A h \in Probes : ProbeTypeOK(probes[h])

\* lastUp is what it says it is.
HistorySound == \A p \in Providers : lastUp[p] <= now /\ (up[p] => lastUp[p] = now)

\* An entry says healthy of a provider that has worked since the entry's date.
EntriesTrue ==
    \A p \in Names :
       /\ healthCache[p].lastChecked <= now
       /\ healthCache[p].status = "healthy" => p \in Providers /\ lastUp[p] >= healthCache[p].lastChecked

\* A check of a request made at t.
CheckTrue(p, check, t) ==
    \/ check.at = "told" /\ (check.status = "healthy" => p \in Providers /\ lastUp[p] >= t - Expiration)
    \/ /\ check.at = "asked" /\ p \in Providers /\ check.began = t
       /\ check.reply = "healthy" => lastUp[p] >= t

\* The checks of an open request were all made when it was, not longer ago than a check
\* may take, and one of them is still awaited.
OpenTrue(checks) ==
    /\ IsFiniteSet(DOMAIN checks)
    /\ \E p \in DOMAIN checks : checks[p].at = "asked"
    /\ \E t \in 0 .. now : /\ now <= t + HealthTimeout
                           /\ \A p \in DOMAIN checks : CheckTrue(p, checks[p], t)

\* A request answered was answered with what was true not too long before.
AnswerTrue(probe) ==
    /\ probe.when <= now
    /\ \A p \in probe.healthy :
          /\ p \in Providers
          /\ lastUp[p] >= probe.when - Expiration - (IF Cardinality(probe.asked) > 1 THEN HealthTimeout ELSE 0)

ProbeTrue(probe) ==
    /\ probe.at = "open" => OpenTrue(probe.checks)
    /\ probe.at = "answered" => AnswerTrue(probe)

HealthInv ==
    /\ HealthTypeOK
    /\ HistorySound
    /\ EntriesTrue
    /\ \A h \in Probes : ProbeTrue(probes[h])

-----------------------------------------------------------------------------
(* Prompts.                                                                *)

\* The prompt service is in order: what is published is a version there is, and so is what
\* a change under way is about.
EditTrue(edit) ==
    \/ edit.at \in {"idle", "done"}
    \/ /\ edit.at \in {"rollback", "publish"}
       /\ edit.prompt \in Prompts
       /\ edit.version \in prompts[edit.prompt].versions

ServerTrue ==
    /\ prompts \in [Prompts -> PromptRow]
    /\ \A p \in Prompts : prompts[p].published \subseteq prompts[p].versions
    /\ ceased \in [Facts -> Int]
    /\ DOMAIN edits = Editors /\ \A e \in Editors : EditTrue(edits[e])

\* A prompt that bears a name or was found when no prompt did, at t or later.
NameSince(key, p, t) == NameOf[p] = key \/ Since(<<"absent", key>>, t)

\* What a search for a key has read of a prompt was so at t or later.
SnapshotSince(key, s, t) ==
    /\ s \in SnapshotsOfPrompts
    /\ s.prompt \in Matches[key]
    /\ s.versions \subseteq prompts[s.prompt].versions
    /\ \A v \in s.published : v \in s.versions /\ Since(<<"published", s.prompt, v>>, t)
    /\ s.published = {} => Since(<<"unpublished", s.prompt>>, t)

\* What is found for a key, or rendered for a request, from what was read at t.
FoundSince(key, found, t) == SnapshotSince(key, found, t) /\ NameSince(key, found.prompt, t)

RenderedSince(request, result, t) ==
    /\ result \in [outcome : {"rendered"}, prompt : Prompts, version : Versions]
    /\ result.prompt \in Matches[request.key]
    /\ NameSince(request.key, result.prompt, t)
    /\ result.version \in prompts[result.prompt].versions
    /\ IF request.version # Published THEN result.version = request.version
       ELSE \/ Since(<<"published", result.prompt, result.version>>, t)
            \/ Since(<<"unpublished", result.prompt>>, t)

CacheEntry == [key : {MetaKey(q) : q \in RenderRequest} \cup {RenderKey(q) : q \in RenderRequest},
               value : SnapshotsOfPrompts
                 \cup [outcome : {"rendered"}, prompt : Prompts, version : Versions],
               expiresAt : Nat]
OneEntryPerKey(c) == \A i, j \in DOMAIN c : c[i].key = c[j].key => i = j

\* An entry holds what was read not longer before it was made than a request may take: a
\* rendering may have been made from a prompt that was an entry before.
EntryTrue(entry) ==
    /\ entry.expiresAt \in Nat /\ entry.expiresAt <= now + Ttl
    /\ \E q \in RenderRequest :
          \/ /\ entry.key = MetaKey(q)
             /\ FoundSince(q.key, entry.value, entry.expiresAt - Ttl - RequestTimeout)
          \/ /\ entry.key = RenderKey(q)
             /\ RenderedSince(q, entry.value, entry.expiresAt - 2 * Ttl - RequestTimeout)

\* A cache the client may have: of one entry per key.
CacheTrue(c) ==
    /\ c \in Seq(CacheEntry)
    /\ Len(c) <= MaxEntries
    /\ OneEntryPerKey(c)
    /\ \A i \in DOMAIN c : EntryTrue(c[i])

\* A request of the prompt service is under way no longer than its timeout.
FetchTrue(render) ==
    /\ render.sent \in Nat /\ render.sent <= now /\ now <= render.sent + RequestTimeout
    /\ render.answered =>
          /\ \A s \in render.list : SnapshotSince(render.request.key, s, render.sent)
          /\ \/ \E s \in render.list : NameOf[s.prompt] = render.request.key
             \/ Since(<<"absent", render.request.key>>, render.sent)

RenderTrue(render) ==
    \/ render = [at |-> "idle"]
    \/ render = [at |-> "over"]
    \/ /\ render.at = "fetching" /\ render.request \in RenderRequest
       /\ render.answered \in BOOLEAN
       /\ FetchTrue(render)
    \/ /\ render.at = "done" /\ render.request \in RenderRequest
       /\ render.when \in Nat /\ render.when <= now
       /\ \/ render.result \in {NotFound, Failed}
          \/ RenderedSince(render.request, render.result, render.when - 2 * Ttl - RequestTimeout)

PromptInv ==
    /\ now \in Nat
    /\ ServerTrue
    /\ CacheTrue(cache)
    /\ DOMAIN renders = Renders
    /\ \A r \in Renders : RenderTrue(renders[r])

-----------------------------------------------------------------------------
(* Calls.                                                                  *)

Underway == {"checked", "asked", "storing"}

\* The shape of a call.
CallTypeOK(call) ==
    \/ call \in [at : {"idle", "sent"}, executions : {0}]
    \/ call \in [at : Underway, kind : CallKinds, provider : Names, attempt : Nat, rounds : Nat,
                 executions : Nat]
    \/ call \in [at : {"answered"}, ok : BOOLEAN, executions : Nat]

\* A call under way has executed its provider at most once per attempt, and the attempts
\* start anew in each round.
Counted(call) ==
    /\ call.attempt \in 1 .. AttemptsOf(call.provider, call.kind)
    /\ call.rounds <= MaxToolExecutions
    /\ call.kind # "tools" => call.rounds = 0
    /\ call.executions <= call.rounds * RetryAttempts + call.attempt
    /\ call.at = "checked" => call.executions = 0
    /\ call.at # "checked" => call.executions > 0

\* A call of which n rows are stored.
CallTrue(call, n) ==
    /\ CallTypeOK(call)
    /\ call.at \in Underway => Counted(call)
    /\ call.at = "answered" =>
          /\ call.executions <= (MaxToolExecutions + 1) * RetryAttempts
          /\ call.ok => call.executions > 0
    /\ n \in 0 .. 1
    /\ n > 0 => call.at = "answered" /\ call.ok

CallsInv ==
    /\ DOMAIN calls = Calls /\ rows \in [Calls -> Nat]
    /\ \A c \in Calls : CallTrue(calls[c], rows[c])

-----------------------------------------------------------------------------
(* The kernel.                                                             *)

Places == {"idle", "starting", "memory", "loading", "prompt", "rendering", "engine", "tool",
           "llm", "waiting"}
RequestTypeOK(request) ==
    \/ request \in [at : Places, attempt : Nat]
    \/ request \in [at : {"answered"}, attempt : Nat, success : BOOLEAN]

StartSound ==
    /\ workload \in Workloads
    /\ kernel \in [at : {"none", "starting", "started", "dead"}, init : 0 .. Len(Awaited)]
    /\ kernel.at = "starting" => kernel.init > 0
    /\ starter \subseteq Requests
    /\ registered \subseteq Providers \cup {"ollama"}
    /\ kernel.at = "dead" => registered = {}

\* Calls of a request are made one attempt after the other once it waits, for the provider
\* it names.
CallsOfSound(r) ==
    \A n \in 1 .. LlmAttempts :
       LET call == calls[<<r, n>>]
       IN  /\ requests[r].at \notin {"waiting", "answered"} => call.at = "idle"
           /\ requests[r].at = "waiting" /\ n > requests[r].attempt => call.at = "idle"
           /\ call.at # "idle" => kernel.at = "started" /\ Profile(r).provider \in registered
           /\ call.at \in Underway => call.kind = "execute" /\ call.provider = Profile(r).provider
           /\ call.at = "answered" => call.executions <= AttemptsOf(Profile(r).provider, "execute")

RequestSound(r) ==
    /\ RequestTypeOK(requests[r])
    /\ r \notin DOMAIN workload.requests => requests[r].at = "idle"
    /\ requests[r].at \in {"tool", "llm", "waiting"} => kernel.at = "started"
    /\ requests[r].at = "waiting" =>
          requests[r].attempt \in 1 .. LlmAttempts /\ Profile(r).provider \in registered
    /\ r \in starter /\ kernel.at = "starting" => requests[r].at = "starting"
    /\ requests[r].at = "answered" /\ requests[r].success =>
          /\ kernel.at = "started"
          /\ \E c \in CallsOf(r) : calls[c].at = "answered" /\ calls[c].ok

RequestsInv ==
    /\ StartSound
    /\ DOMAIN requests = Requests
    /\ \A r \in Requests : RequestSound(r) /\ CallsOfSound(r)

-----------------------------------------------------------------------------
(* The health checks keep their invariant.                                 *)

\* A set with two elements has more than one.
LEMMA TwoElements ==
    ASSUME NEW S, IsFiniteSet(S), NEW p \in S, NEW q \in S, p # q
    PROVE  Cardinality(S) > 1
<1>0. IsFiniteSet({p}) /\ Cardinality({p}) = 1 /\ q \notin {p}
  BY FS_Singleton
<1>1. Cardinality({p} \cup {q}) = 2
  BY <1>0, FS_AddElement
<1>2. {p} \cup {q} \in SUBSET S
  OBVIOUS
<1>3. Cardinality({p} \cup {q}) <= Cardinality(S) /\ Cardinality(S) \in Nat
  BY <1>2, FS_Subset, FS_CardinalityType
<1> QED
  BY <1>1, <1>3

\* The checks of a request, some of them told.
ChecksTypeOK(checks) ==
    /\ DOMAIN checks \subseteq Names /\ IsFiniteSet(DOMAIN checks)
    /\ checks = [p \in DOMAIN checks |-> checks[p]]
    /\ \A p \in DOMAIN checks : checks[p] \in ToldCheck \cup AskedCheck

\* What a request is answered with is true when each check is, and when a check told of a
\* time before the cache's memory is not the only one.
LEMMA ConcludedTrue ==
    ASSUME HealthTypeOK, NEW checks, ChecksTypeOK(checks), NEW t \in 0 .. now,
           now <= t + HealthTimeout,
           \A p \in DOMAIN checks : CheckTrue(p, checks[p], t),
           \A p \in DOMAIN checks :
              (p \in Providers /\ checks[p].at = "told" /\ checks[p].status = "healthy") =>
                 lastUp[p] >= now - Expiration \/ Cardinality(DOMAIN checks) > 1
    PROVE  ProbeTypeOK(Concluded(checks)) /\ ProbeTrue(Concluded(checks))
<1> USE ServiceAssumption
<1>1. CASE \A p \in DOMAIN checks : checks[p].at = "told"
  <2> DEFINE probe == [at |-> "answered", when |-> now, asked |-> DOMAIN checks,
                       healthy |-> {p \in DOMAIN checks : checks[p].status = "healthy"}]
  <2>1. Concluded(checks) = probe
    BY <1>1 DEF Concluded
  <2>2. ProbeTypeOK(probe)
    BY DEF ProbeTypeOK, ChecksTypeOK, HealthTypeOK
  <2>3. ASSUME NEW p \in probe.healthy
        PROVE  /\ p \in Providers
               /\ lastUp[p] >= now - Expiration - (IF Cardinality(probe.asked) > 1 THEN HealthTimeout ELSE 0)
    <3>1. p \in DOMAIN checks /\ checks[p].at = "told" /\ checks[p].status = "healthy"
      BY <1>1, <2>3
    <3>2. p \in Providers /\ lastUp[p] >= t - Expiration
      BY <3>1 DEF CheckTrue
    <3>3. lastUp[p] \in Int /\ now \in Nat /\ t \in Nat
      BY <3>2 DEF HealthTypeOK
    <3>4. lastUp[p] >= now - Expiration \/ Cardinality(probe.asked) > 1
      BY <3>1, <3>2
    <3>5. QED
      BY <3>2, <3>3, <3>4
  <2>4. AnswerTrue(probe)
    BY <2>3 DEF AnswerTrue, HealthTypeOK
  <2> QED
    BY <2>1, <2>2, <2>4 DEF ProbeTrue
<1>2. CASE ~ \A p \in DOMAIN checks : checks[p].at = "told"
  <2>1. Concluded(checks) = [at |-> "open", checks |-> checks]
    BY <1>2 DEF Concluded
  <2>2. \E p \in DOMAIN checks : checks[p].at = "asked"
    BY <1>2 DEF ChecksTypeOK, ToldCheck, AskedCheck
  <2>3. OpenTrue(checks)
    BY <2>2 DEF OpenTrue, ChecksTypeOK
  <2> QED
    BY <2>1, <2>3 DEF ProbeTypeOK, ProbeTrue, ChecksTypeOK
<1> QED
  BY <1>1, <1>2

\* Time, the providers and the cache stay as they are, and one request changes.
LEMMA ProbeChanges ==
    ASSUME HealthInv, UNCHANGED <<now, up, lastUp>>, NEW h \in Probes, NEW probe,
           probes' = [probes EXCEPT ![h] = probe], ProbeTypeOK(probe), ProbeTrue(probe),
           healthCache' \in [Names -> [status : Statuses, lastChecked : Nat]],
           EntriesTrue'
    PROVE  HealthInv'
<1>1. DOMAIN probes' = Probes /\ \A g \in Probes : probes'[g] = IF g = h THEN probe ELSE probes[g]
  BY DEF HealthInv, HealthTypeOK
<1>2. \A g \in Probes : ProbeTypeOK(probes'[g]) /\ ProbeTrue(probes'[g])
  BY <1>1 DEF HealthInv, HealthTypeOK
<1>3. \A g \in Probes : ProbeTrue(probes[g])'
  BY <1>2 DEF ProbeTrue, OpenTrue, AnswerTrue, CheckTrue
<1>4. HealthTypeOK'
  BY <1>1, <1>2 DEF HealthInv, HealthTypeOK, ProbeTypeOK
<1>5. HistorySound'
  BY DEF HealthInv, HistorySound
<1> QED
  BY <1>3, <1>4, <1>5 DEF HealthInv

LEMMA AskedKeeps ==
    ASSUME HealthInv, NEW h \in Probes, NEW ps \in SUBSET Names, IsFiniteSet(ps),
           HealthAsked(h, ps)
    PROVE  HealthInv'
<1> USE ServiceAssumption
<1> DEFINE checks == [p \in ps |-> CheckOf(p)]
<1>1. now \in Nat /\ healthCache \in [Names -> [status : Statuses, lastChecked : Nat]]
  BY DEF HealthInv, HealthTypeOK
<1>2. ASSUME NEW p \in ps
      PROVE  /\ CheckOf(p) \in ToldCheck \cup AskedCheck
             /\ CheckTrue(p, CheckOf(p), now)
    <2>1. healthCache[p] \in [status : Statuses, lastChecked : Nat]
      BY <1>1
    <2>2. healthCache[p].status \in Statuses /\ healthCache[p].lastChecked \in Nat
      BY <2>1
    <2>3. CASE Cached(p)
      <3>1. CheckOf(p) = [at |-> "told", status |-> healthCache[p].status]
        BY <2>3 DEF CheckOf
      <3>2. healthCache[p].status = "healthy" => p \in Providers /\ lastUp[p] >= now - Expiration
        BY <1>1, <2>2, <2>3 DEF Cached, HealthInv, EntriesTrue, HealthTypeOK
      <3> QED
        BY <2>2, <3>1, <3>2 DEF CheckTrue, ToldCheck
    <2>4. CASE ~Cached(p) /\ p \notin Providers
      <3>1. CheckOf(p) = [at |-> "told", status |-> "unknown"]
        BY <2>4 DEF CheckOf
      <3> QED
        BY <3>1 DEF CheckTrue, ToldCheck, Statuses
    <2>5. CASE ~Cached(p) /\ p \in Providers
      <3>1. CheckOf(p) = [at |-> "asked", began |-> now, reply |-> "none"]
        BY <2>5 DEF CheckOf
      <3> QED
        BY <1>1, <2>5, <3>1 DEF CheckTrue, AskedCheck
    <2> QED
      BY <2>3, <2>4, <2>5
<1>3. DOMAIN checks = ps /\ \A p \in ps : checks[p] = CheckOf(p)
  OBVIOUS
<1>4. ChecksTypeOK(checks)
  BY <1>2, <1>3 DEF ChecksTypeOK
<1>5. \A p \in DOMAIN checks : CheckTrue(p, checks[p], now)
  BY <1>2, <1>3
<1>6. \A p \in DOMAIN checks :
         (p \in Providers /\ checks[p].at = "told" /\ checks[p].status = "healthy") =>
             lastUp[p] >= now - Expiration \/ Cardinality(DOMAIN checks) > 1
  BY <1>5 DEF CheckTrue
<1> HIDE DEF checks
<1>7. ProbeTypeOK(Concluded(checks)) /\ ProbeTrue(Concluded(checks))
  <2>1. HealthTypeOK /\ now \in 0 .. now /\ now <= now + HealthTimeout
    BY <1>1 DEF HealthInv
  <2> QED
    BY <1>4, <1>5, <1>6, <2>1, ConcludedTrue
<1>8. /\ UNCHANGED <<now, up, lastUp>>
      /\ probes' = [probes EXCEPT ![h] = Concluded(checks)]
      /\ healthCache' = CacheWhenAsked(ps)
  BY DEF HealthAsked, checks
<1>9. /\ healthCache' \in [Names -> [status : Statuses, lastChecked : Nat]]
      /\ \A p \in Names : \/ healthCache'[p] = healthCache[p]
                          \/ healthCache'[p].status # "healthy" /\ healthCache'[p].lastChecked <= now
  BY <1>1, <1>8 DEF CacheWhenAsked, NoEntry, Statuses
<1>10. EntriesTrue'
  BY <1>8, <1>9 DEF HealthInv, EntriesTrue
<1> QED
  BY <1>7, <1>8, <1>9, <1>10, ProbeChanges

\* A check under way, as Asking() finds it.
LEMMA AskingCheck ==
    ASSUME HealthInv, NEW h \in Probes, NEW p \in Providers, Asking(h, p)
    PROVE  /\ probes[h] = [at |-> "open", checks |-> probes[h].checks]
           /\ ChecksTypeOK(probes[h].checks)
           /\ p \in DOMAIN probes[h].checks
           /\ probes[h].checks[p] \in AskedCheck
           /\ \E t \in 0 .. now :
                 /\ now <= t + HealthTimeout
                 /\ \A q \in DOMAIN probes[h].checks : CheckTrue(q, probes[h].checks[q], t)
<1>1. ProbeTypeOK(probes[h]) /\ ProbeTrue(probes[h]) /\ probes[h].at = "open"
  BY DEF HealthInv, HealthTypeOK, Asking
<1>2. OpenTrue(probes[h].checks)
  BY <1>1 DEF ProbeTrue
<1> QED
  BY <1>1, <1>2 DEF Asking, ProbeTypeOK, ChecksTypeOK, OpenTrue, ToldCheck, AskedCheck

LEMMA ReplyKeeps ==
    ASSUME HealthInv, NEW h \in Probes, NEW p \in Providers, ProviderReplies(h, p)
    PROVE  HealthInv'
<1> DEFINE checks == probes[h].checks
<1>1. Asking(h, p)
  BY DEF ProviderReplies
<1>2. PICK reply \in {"unhealthy"} \cup {s \in {"healthy"} : up[p]} :
         probes' = [probes EXCEPT ![h].checks[p].reply = reply]
  BY DEF ProviderReplies
<1>3. PICK t \in 0 .. now : /\ now <= t + HealthTimeout
                            /\ \A q \in DOMAIN checks : CheckTrue(q, checks[q], t)
  BY <1>1, AskingCheck
<1>4. PICK new : new = [checks EXCEPT ![p] = [at |-> "asked", began |-> checks[p].began, reply |-> reply]]
  OBVIOUS
<1>5. /\ probes[h] = [at |-> "open", checks |-> checks]
      /\ ChecksTypeOK(checks) /\ p \in DOMAIN checks /\ checks[p] \in AskedCheck
  BY <1>1, AskingCheck
<1>6. checks[p] = [at |-> "asked", began |-> checks[p].began, reply |-> checks[p].reply]
      /\ checks[p].began \in Nat
  BY <1>5 DEF AskedCheck
<1>7. [checks[p] EXCEPT !.reply = reply] = [at |-> "asked", began |-> checks[p].began, reply |-> reply]
  BY <1>6
<1>8. PICK probe : probe = [at |-> "open", checks |-> new]
  OBVIOUS
<1>9. probes' = [probes EXCEPT ![h] = probe]
  <2>1. probes' = [probes EXCEPT ![h] = [probes[h] EXCEPT !.checks =
                     [probes[h].checks EXCEPT ![p] = [probes[h].checks[p] EXCEPT !.reply = reply]]]]
    BY <1>2
  <2>2. [probes[h].checks EXCEPT ![p] = [probes[h].checks[p] EXCEPT !.reply = reply]] = new
    BY <1>4, <1>7
  <2>3. [probes[h] EXCEPT !.checks = new] = probe
    BY <1>5, <1>8
  <2> QED
    BY <2>1, <2>2, <2>3
<1>10. /\ DOMAIN new = DOMAIN checks
       /\ \A q \in DOMAIN new :
             new[q] = IF q = p THEN [at |-> "asked", began |-> checks[p].began, reply |-> reply]
                      ELSE checks[q]
       /\ new = [q \in DOMAIN new |-> new[q]]
  BY <1>4, <1>5 DEF ChecksTypeOK
<1>11. \A q \in DOMAIN new : new[q] \in ToldCheck \cup AskedCheck
  BY <1>5, <1>6, <1>10, <1>2 DEF ChecksTypeOK, AskedCheck
<1>12. ProbeTypeOK(probe)
  BY <1>5, <1>8, <1>10, <1>11 DEF ProbeTypeOK, ChecksTypeOK
<1>13. CheckTrue(p, new[p], t)
  <2>1. new[p] = [at |-> "asked", began |-> checks[p].began, reply |-> reply]
    BY <1>5, <1>10
  <2>2. checks[p].began = t
    BY <1>3, <1>5, <1>6 DEF CheckTrue
  <2>3. reply = "healthy" => lastUp[p] >= t
    BY <1>2 DEF HealthInv, HealthTypeOK, HistorySound
  <2> QED
    BY <2>1, <2>2, <2>3 DEF CheckTrue
<1>14. \A q \in DOMAIN new : CheckTrue(q, new[q], t)
  BY <1>3, <1>10, <1>13
<1>15. OpenTrue(new)
  BY <1>3, <1>5, <1>10, <1>14 DEF OpenTrue, ChecksTypeOK
<1>16. ProbeTrue(probe)
  BY <1>8, <1>15 DEF ProbeTrue
<1>17. UNCHANGED <<now, up, lastUp, healthCache>>
  BY DEF ProviderReplies
<1>18. EntriesTrue' /\ healthCache' \in [Names -> [status : Statuses, lastChecked : Nat]]
  BY <1>17 DEF HealthInv, HealthTypeOK, EntriesTrue
<1> QED
  BY <1>9, <1>12, <1>16, <1>17, <1>18, ProbeChanges

\* Of a check that is told healthy the provider has said so.
LEMMA ToldKeeps ==
    ASSUME HealthInv, NEW h \in Probes, NEW p \in Providers, Asking(h, p),
           NEW status \in {"healthy", "unhealthy"},
           status = "healthy" => probes[h].checks[p].reply = "healthy",
           Told(h, p, status)
    PROVE  HealthInv'
<1> USE ServiceAssumption
<1> DEFINE checks == probes[h].checks
<1>1. /\ probes[h] = [at |-> "open", checks |-> checks]
      /\ ChecksTypeOK(checks) /\ p \in DOMAIN checks /\ checks[p] \in AskedCheck
  BY AskingCheck
<1>2. PICK t \in 0 .. now : /\ now <= t + HealthTimeout
                            /\ \A q \in DOMAIN checks : CheckTrue(q, checks[q], t)
  BY AskingCheck
<1>3. PICK new : new = [checks EXCEPT ![p] = [at |-> "told", status |-> status]]
  OBVIOUS
<1>4. /\ DOMAIN new = DOMAIN checks
      /\ \A q \in DOMAIN new :
            new[q] = IF q = p THEN [at |-> "told", status |-> status] ELSE checks[q]
      /\ new = [q \in DOMAIN new |-> new[q]]
  BY <1>1, <1>3 DEF ChecksTypeOK
<1>5. ChecksTypeOK(new)
  <2>1. [at |-> "told", status |-> status] \in ToldCheck
    BY DEF ToldCheck, Statuses
  <2> QED
    BY <1>1, <1>4, <2>1 DEF ChecksTypeOK
<1>6. /\ checks[p].began = t /\ checks[p].began \in Nat
      /\ status = "healthy" => lastUp[p] >= t
  BY <1>1, <1>2 DEF CheckTrue, AskedCheck
<1>7. now \in Nat /\ lastUp[p] \in Int
  BY DEF HealthInv, HealthTypeOK
<1>8. CheckTrue(p, new[p], t)
  <2>1. new[p] = [at |-> "told", status |-> status]
    BY <1>1, <1>4
  <2> QED
    BY <1>2, <1>6, <1>7, <2>1 DEF CheckTrue
<1>9. \A q \in DOMAIN new : CheckTrue(q, new[q], t)
  BY <1>2, <1>4, <1>8
<1>10. ASSUME NEW q \in DOMAIN new, q \in Providers, new[q].at = "told", new[q].status = "healthy"
       PROVE  lastUp[q] >= now - Expiration \/ Cardinality(DOMAIN new) > 1
  <2>1. CASE q = p
    <3>1. status = "healthy"
      BY <1>4, <1>10, <2>1
    <3> QED
      BY <1>2, <1>6, <1>7, <2>1, <3>1
  <2>2. CASE q # p
    BY <1>1, <1>4, <2>2, TwoElements DEF ChecksTypeOK
  <2> QED
    BY <2>1, <2>2
<1>11. ProbeTypeOK(Concluded(new)) /\ ProbeTrue(Concluded(new))
  BY <1>2, <1>5, <1>9, <1>10, ConcludedTrue DEF HealthInv
<1>12. /\ UNCHANGED <<now, up, lastUp>>
       /\ probes' = [probes EXCEPT ![h] = Concluded(new)]
       /\ healthCache' = [healthCache EXCEPT ![p] = [status |-> status, lastChecked |-> t]]
  BY <1>3, <1>6 DEF Told, EntryOf
<1>13. /\ healthCache' \in [Names -> [status : Statuses, lastChecked : Nat]]
       /\ \A q \in Names : healthCache'[q] = IF q = p THEN [status |-> status, lastChecked |-> t]
                                             ELSE healthCache[q]
  BY <1>7, <1>12 DEF HealthInv, HealthTypeOK, Statuses
<1>14. EntriesTrue'
  BY <1>6, <1>12, <1>13 DEF HealthInv, EntriesTrue
<1> QED
  BY <1>11, <1>12, <1>13, <1>14, ProbeChanges

\* A request stays as it is while time passes and providers turn, unless a check's time is up.
LEMMA LaterProbe ==
    ASSUME HealthInv, NEW h \in Probes, UNCHANGED probes,
           now' \in {now, now + 1}, lastUp' \in [Providers -> Int],
           \A q \in Providers : lastUp[q] <= lastUp'[q],
           \/ now' = now
           \/ \A p \in Providers : Asking(h, p) => now < probes[h].checks[p].began + HealthTimeout
    PROVE  ProbeTrue(probes[h])'
<1> USE ServiceAssumption
<1> DEFINE probe == probes[h]
<1>1. probes'[h] = probe /\ ProbeTypeOK(probe) /\ ProbeTrue(probe) /\ now \in Nat
      /\ lastUp \in [Providers -> Int]
  BY DEF HealthInv, HealthTypeOK
<1>2. CASE probe.at = "open"
  <2>1. OpenTrue(probe.checks) /\ DOMAIN probe.checks \subseteq Names
        /\ \A p \in DOMAIN probe.checks : probe.checks[p] \in ToldCheck \cup AskedCheck
    BY <1>1, <1>2 DEF ProbeTrue, ProbeTypeOK
  <2>2. PICK t \in 0 .. now : /\ now <= t + HealthTimeout
                              /\ \A p \in DOMAIN probe.checks : CheckTrue(p, probe.checks[p], t)
    BY <2>1 DEF OpenTrue
  <2>3. PICK a \in DOMAIN probe.checks : probe.checks[a].at = "asked"
    BY <2>1 DEF OpenTrue
  <2>4. a \in Providers /\ probe.checks[a].began = t /\ Asking(h, a)
    BY <1>2, <2>2, <2>3 DEF CheckTrue, Asking
  <2>5. now' <= t + HealthTimeout /\ t \in 0 .. now'
    BY <1>1, <2>2, <2>4
  <2>6. ASSUME NEW p \in DOMAIN probe.checks
        PROVE  CheckTrue(p, probes[h].checks[p], t)'
    <3>1. CheckTrue(p, probe.checks[p], t) /\ probes'[h].checks[p] = probe.checks[p]
      BY <1>1, <2>2
    <3> QED
      BY <1>1, <3>1 DEF CheckTrue
  <2>7. OpenTrue(probes[h].checks)'
    BY <1>1, <2>1, <2>3, <2>5, <2>6 DEF OpenTrue
  <2> QED
    BY <1>1, <1>2, <2>7 DEF ProbeTrue
<1>3. CASE probe.at = "answered"
  <2>1. AnswerTrue(probe) /\ probe.when \in Nat
    BY <1>1, <1>3 DEF ProbeTrue, ProbeTypeOK
  <2>2. ASSUME NEW p \in probe.healthy
        PROVE  /\ p \in Providers
               /\ lastUp'[p] >= probe.when - Expiration - (IF Cardinality(probe.asked) > 1 THEN HealthTimeout ELSE 0)
    <3>1. /\ p \in Providers
          /\ lastUp[p] >= probe.when - Expiration - (IF Cardinality(probe.asked) > 1 THEN HealthTimeout ELSE 0)
      BY <2>1 DEF AnswerTrue
    <3>2. lastUp[p] \in Int /\ lastUp'[p] \in Int /\ lastUp[p] <= lastUp'[p]
      BY <1>1, <3>1
    <3> QED
      BY <2>1, <3>1, <3>2
  <2>3. AnswerTrue(probes[h])'
    BY <1>1, <2>1, <2>2 DEF AnswerTrue
  <2> QED
    BY <1>1, <1>3, <2>3 DEF ProbeTrue
<1>4. CASE probe.at \notin {"open", "answered"}
  BY <1>1, <1>4 DEF ProbeTrue
<1> QED
  BY <1>2, <1>3, <1>4

\* A provider that turns has worked until now, or works from now on.
LEMMA TurnKeeps ==
    ASSUME HealthInv, NEW p \in Providers, ProviderTurns(p)
    PROVE  HealthInv'
<1>1. /\ UNCHANGED <<now, healthCache, probes>> /\ now \in Nat
      /\ up' \in [Providers -> BOOLEAN] /\ lastUp' \in [Providers -> Int]
      /\ \A q \in Providers : /\ lastUp[q] <= lastUp'[q] /\ lastUp'[q] <= now
                              /\ up'[q] => lastUp'[q] = now
  BY DEF HealthInv, HealthTypeOK, HistorySound, ProviderTurns
<1>2. HealthTypeOK' /\ HistorySound'
  BY <1>1 DEF HealthInv, HealthTypeOK, HistorySound, ProbeTypeOK
<1>3. EntriesTrue'
  BY <1>1 DEF HealthInv, HealthTypeOK, EntriesTrue
<1>4. ASSUME NEW h \in Probes
      PROVE  ProbeTrue(probes[h])'
  BY <1>1, LaterProbe
<1> QED
  BY <1>2, <1>3, <1>4 DEF HealthInv

LEMMA ServiceTickKeeps ==
    ASSUME HealthInv, ServiceTick
    PROVE  HealthInv'
<1>1. /\ UNCHANGED <<up, healthCache, probes>> /\ now' = now + 1 /\ now \in Nat
      /\ lastUp' \in [Providers -> Int]
      /\ \A q \in Providers : /\ lastUp[q] <= lastUp'[q] /\ lastUp'[q] <= now'
                              /\ up'[q] => lastUp'[q] = now'
  BY DEF HealthInv, HealthTypeOK, HistorySound, ServiceTick
<1>2. HealthTypeOK' /\ HistorySound'
  BY <1>1 DEF HealthInv, HealthTypeOK, HistorySound, ProbeTypeOK
<1>3. EntriesTrue'
  BY <1>1 DEF HealthInv, HealthTypeOK, EntriesTrue
<1>4. ASSUME NEW h \in Probes
      PROVE  ProbeTrue(probes[h])'
  <2>1. ASSUME NEW p \in Providers, Asking(h, p)
        PROVE  now < probes[h].checks[p].began + HealthTimeout
    <3>1. probes[h].checks[p].began \in Nat /\ HealthTimeout \in Nat
      BY <2>1, ServiceAssumption, AskingCheck DEF AskedCheck
    <3>2. ~(now >= probes[h].checks[p].began + HealthTimeout)
      BY <2>1 DEF ServiceTick, ServiceTimersAllow, TimeIsUp
    <3> QED
      BY <1>1, <3>1, <3>2
  <2> QED
    BY <1>1, <2>1, LaterProbe
<1> QED
  BY <1>2, <1>3, <1>4 DEF HealthInv

LEMMA InitHealth ==
    ASSUME ServiceInit
    PROVE  HealthInv
<1> USE ServiceAssumption
<1>1. /\ now = 0 /\ up \in [Providers -> BOOLEAN]
      /\ lastUp \in [Providers -> Int]
      /\ \A p \in Providers : lastUp[p] <= 0 /\ (up[p] => lastUp[p] = 0)
  BY DEF ServiceInit
<1>2. /\ healthCache \in [Names -> [status : Statuses, lastChecked : Nat]]
      /\ \A p \in Names : healthCache[p].lastChecked = 0 /\ healthCache[p].status = "none"
  BY DEF ServiceInit, NoEntry, Statuses
<1>3. DOMAIN probes = Probes /\ \A h \in Probes : probes[h] = [at |-> "idle"]
  BY DEF ServiceInit
<1>4. HealthTypeOK
  BY <1>1, <1>2, <1>3 DEF HealthTypeOK, ProbeTypeOK
<1>5. HistorySound /\ EntriesTrue
  BY <1>1, <1>2 DEF HistorySound, EntriesTrue
<1>6. \A h \in Probes : ProbeTrue(probes[h])
  BY <1>3 DEF ProbeTrue
<1> QED
  BY <1>4, <1>5, <1>6 DEF HealthInv

\* The steps the AI service's health checks see.
HealthStep ==
    \/ UNCHANGED <<now, healthVars>>
    \/ \E h \in Probes : \E ps \in SUBSET Names : IsFiniteSet(ps) /\ HealthAsked(h, ps)
    \/ \E h \in Probes, p \in Providers :
          ProviderReplies(h, p) \/ HealthTold(h, p) \/ HealthTimesOut(h, p)
    \/ \E p \in Providers : ProviderTurns(p)
    \/ ServiceTick

LEMMA HealthStepKeeps ==
    ASSUME HealthInv, HealthStep
    PROVE  HealthInv'
<1>1. CASE UNCHANGED <<now, healthVars>>
  <2>1. UNCHANGED <<now, up, lastUp, healthCache, probes>>
    BY <1>1 DEF healthVars
  <2> QED
    BY <2>1 DEF HealthInv, HealthTypeOK, ProbeTypeOK, HistorySound, EntriesTrue, ProbeTrue, OpenTrue,
                AnswerTrue, CheckTrue
<1>2. ASSUME NEW h \in Probes, NEW ps \in SUBSET Names, IsFiniteSet(ps), HealthAsked(h, ps)
      PROVE  HealthInv'
  BY <1>2, AskedKeeps
<1>3. ASSUME NEW h \in Probes, NEW p \in Providers, ProviderReplies(h, p)
      PROVE  HealthInv'
  BY <1>3, ReplyKeeps
<1>4. ASSUME NEW h \in Probes, NEW p \in Providers, HealthTold(h, p)
      PROVE  HealthInv'
  <2>1. Asking(h, p) /\ Told(h, p, probes[h].checks[p].reply)
    BY <1>4 DEF HealthTold
  <2>2. probes[h].checks[p].reply \in {"healthy", "unhealthy"}
    BY <1>4, <2>1, AskingCheck DEF HealthTold, AskedCheck
  <2> QED
    BY <2>1, <2>2, ToldKeeps
<1>5. ASSUME NEW h \in Probes, NEW p \in Providers, HealthTimesOut(h, p)
      PROVE  HealthInv'
  BY <1>5, ToldKeeps DEF HealthTimesOut
<1>6. ASSUME NEW p \in Providers, ProviderTurns(p)
      PROVE  HealthInv'
  BY <1>6, TurnKeeps
<1>7. CASE ServiceTick
  BY <1>7, ServiceTickKeeps
<1> QED
  BY <1>1, <1>2, <1>3, <1>4, <1>5, <1>6, <1>7 DEF HealthStep

LEMMA HealthSound ==
    ASSUME HealthInv
    PROVE  HealthIsRecent
BY DEF HealthInv, ProbeTrue, AnswerTrue, HealthIsRecent

\* Every step of the kernel is one of them.
LEMMA NextHealth ==
    ASSUME workload \in Workloads, [Next]_vars
    PROVE  HealthStep
<1> USE ServiceAssumption, KernelAssumption, WorkloadAssumption
<1>1. CASE UNCHANGED vars
  BY <1>1 DEF vars, serviceVars, HealthStep, healthVars
<1>2. CASE StartMoves
  BY <1>2 DEF StartMoves, InitAnswered, ProvidersRegistered, serviceVars, healthVars, HealthStep
<1>3. CASE ProvidersAsked
  BY <1>3 DEF ProvidersAsked, HealthStep
<1>4. ASSUME NEW r \in Requests, Arrives(r) \/ HttpAnswers(r)
      PROVE  HealthStep
  BY <1>4 DEF Arrives, HttpAnswers, serviceVars, healthVars, HealthStep
<1>5. ASSUME NEW r \in Requests, RequestMoves(r)
      PROVE  HealthStep
  BY <1>5 DEF RequestMoves, MemoryLoads, MessagesListed, ListingFails, PromptCompiles, PromptFetchEnds,
              PromptCompiled, EngineBegins, LlmBegins, LlmAnswered, LlmFails, serviceVars, healthVars,
              HealthStep
<1>6. ASSUME NEW r \in Requests, NEW n \in 1 .. LlmAttempts, LlmArrives(r, n)
      PROVE  HealthStep
  BY <1>6 DEF LlmArrives, CallArrives, healthVars, HealthStep
<1>7. ASSUME NEW d \in Direct, DirectCalled(d) \/ DirectArrives(d)
      PROVE  HealthStep
  BY <1>7 DEF DirectCalled, DirectArrives, CallArrives, healthVars, HealthStep
<1>8. ASSUME NEW c \in Calls, CallMoves(c)
      PROVE  HealthStep
  BY <1>8 DEF CallMoves, EmbedChecked, ProviderAnswers, ToolsWanted, ProviderFails, Stored, healthVars,
              HealthStep
<1>9. CASE HealthMoves
  <2>1. ASSUME NEW h \in workload.probes, HealthAsked(h, Providers)
        PROVE  HealthStep
    BY <2>1 DEF HealthStep
  <2>2. ASSUME NEW h \in workload.probes, NEW p \in workload.names, HealthAsked(h, {p})
        PROVE  HealthStep
    <3>1. IsFiniteSet({p}) /\ {p} \in SUBSET Names /\ h \in Probes
      BY FS_Singleton
    <3> QED
      BY <2>2, <3>1 DEF HealthStep
  <2>3. ASSUME NEW h \in Probes, NEW p \in Providers,
               ProviderReplies(h, p) \/ HealthTold(h, p) \/ HealthTimesOut(h, p)
        PROVE  HealthStep
    BY <2>3 DEF HealthStep
  <2>4. ASSUME NEW p \in workload.turning, ProviderTurns(p)
        PROVE  HealthStep
    BY <2>4 DEF HealthStep
  <2> QED
    BY <1>9, <2>1, <2>2, <2>3, <2>4 DEF HealthMoves
<1>10. CASE PromptsMove
  BY <1>10 DEF PromptsMove, serviceVars, healthVars, HealthStep
<1>11. CASE Tick
  BY <1>11 DEF Tick, HealthStep
<1> QED
  BY <1>1, <1>2, <1>3, <1>4, <1>5, <1>6, <1>7, <1>8, <1>9, <1>10, <1>11 DEF Next

-----------------------------------------------------------------------------
(* The cache of the prompt client.                                         *)

\* Without an entry's key the cache is the others, in their order.
LEMMA WithoutSound ==
    ASSUME NEW c \in Seq(CacheEntry), OneEntryPerKey(c), NEW key
    PROVE  /\ Without(c, key) \in Seq(CacheEntry)
           /\ Len(Without(c, key)) = IF Entries(c, key) = {} THEN Len(c) ELSE Len(c) - 1
           /\ OneEntryPerKey(Without(c, key))
           /\ \A i \in DOMAIN Without(c, key) :
                 /\ Without(c, key)[i].key # key
                 /\ \E j \in DOMAIN c : Without(c, key)[i] = c[j]
<1>1. CASE Entries(c, key) = {}
  BY <1>1 DEF Without, Entries
<1>2. CASE Entries(c, key) # {}
  <2>1. PICK p : p = Place(c, key)
    OBVIOUS
  <2>2. p \in 1 .. Len(c) /\ c[p].key = key
    BY <1>2, <2>1 DEF Place, Entries
  <2>3. PICK d : d = RemoveAt(c, p)
    OBVIOUS
  <2>4. /\ d \in Seq(CacheEntry) /\ Len(d) = Len(c) - 1
        /\ \A j \in 1 .. (Len(c) - 1) : d[j] = IF j < p THEN c[j] ELSE c[j + 1]
    BY <2>2, <2>3, RemoveAtSeq, RemoveAtElements
  <2>5. DOMAIN c = 1 .. Len(c) /\ DOMAIN d = 1 .. Len(c) - 1 /\ Len(c) \in Nat
    BY <2>4
  <2>6. ASSUME NEW i \in DOMAIN d
        PROVE  /\ d[i].key # key
               /\ \E j \in DOMAIN c : d[i] = c[j]
    <3>1. PICK j \in DOMAIN c : j = (IF i < p THEN i ELSE i + 1)
      BY <2>2, <2>5
    <3>2. d[i] = c[j] /\ j # p
      BY <2>2, <2>4, <2>5, <3>1
    <3> QED
      BY <2>2, <2>5, <3>2 DEF OneEntryPerKey
  <2>7. OneEntryPerKey(d)
    <3>1. ASSUME NEW i \in DOMAIN d, NEW k \in DOMAIN d, d[i].key = d[k].key
          PROVE  i = k
      <4>1. PICK j \in DOMAIN c : j = (IF i < p THEN i ELSE i + 1)
        BY <2>2, <2>5
      <4>2. PICK l \in DOMAIN c : l = (IF k < p THEN k ELSE k + 1)
        BY <2>2, <2>5
      <4>3. d[i] = c[j] /\ d[k] = c[l]
        BY <2>4, <2>5, <4>1, <4>2
      <4>4. j = l
        BY <3>1, <4>3 DEF OneEntryPerKey
      <4> QED
        BY <2>2, <2>5, <4>1, <4>2, <4>4
    <3> QED
      BY <3>1 DEF OneEntryPerKey
  <2>8. Without(c, key) = d
    BY <1>2, <2>1, <2>3 DEF Without
  <2> QED
    BY <1>2, <2>4, <2>6, <2>7, <2>8
<1> QED
  BY <1>1, <1>2

\* An entry of a key of its own may come last.
LEMMA AppendEntry ==
    ASSUME NEW c \in Seq(CacheEntry), OneEntryPerKey(c), Len(c) < MaxEntries,
           \A i \in DOMAIN c : EntryTrue(c[i]),
           NEW entry \in CacheEntry, EntryTrue(entry), \A i \in DOMAIN c : c[i].key # entry.key
    PROVE  CacheTrue(Append(c, entry))
<1>1. PICK d : d = Append(c, entry)
  OBVIOUS
<1>2. /\ d \in Seq(CacheEntry) /\ Len(d) = Len(c) + 1
      /\ DOMAIN d = 1 .. Len(c) + 1 /\ DOMAIN c = 1 .. Len(c) /\ Len(c) \in Nat
      /\ \A i \in DOMAIN d : d[i] = IF i = Len(c) + 1 THEN entry ELSE c[i]
  BY <1>1
<1>3. OneEntryPerKey(d)
  BY <1>2 DEF OneEntryPerKey
<1>4. \A i \in DOMAIN d : EntryTrue(d[i])
  BY <1>2
<1>5. Len(d) <= MaxEntries
  BY <1>2, ClientAssumption
<1> QED
  BY <1>1, <1>2, <1>3, <1>4, <1>5 DEF CacheTrue

\* A fresh entry is true, and it is its value that is found under its key.
LEMMA FreshEntry ==
    ASSUME NEW c, CacheTrue(c), NEW key, NEW t \in Nat, Fresh(c, key, t)
    PROVE  \E i \in DOMAIN c : /\ i = Place(c, key)
                               /\ c[i].key = key /\ c[i] \in CacheEntry /\ EntryTrue(c[i])
                               /\ t <= c[i].expiresAt
                               /\ ValueIn(c, key) = c[i].value
<1>1. PICK i \in Entries(c, key) : t <= c[i].expiresAt
  BY DEF Fresh
<1>2. i \in DOMAIN c /\ c[i].key = key
  BY <1>1 DEF Entries
<1>3. Place(c, key) \in DOMAIN c /\ c[Place(c, key)].key = key
  BY <1>1 DEF Place, Entries
<1>4. Place(c, key) = i
  BY <1>2, <1>3 DEF CacheTrue, OneEntryPerKey
<1> QED
  BY <1>1, <1>2, <1>4 DEF CacheTrue, ValueIn

\* getFromCache() keeps a true cache, and a fresh entry in it.
LEMMA AfterGetSound ==
    ASSUME NEW c, CacheTrue(c), NEW key, NEW t \in Nat
    PROVE  /\ CacheTrue(AfterGet(c, key, t))
           /\ Fresh(c, key, t) => Fresh(AfterGet(c, key, t), key, t)
<1>1. c \in Seq(CacheEntry) /\ OneEntryPerKey(c) /\ Len(c) <= MaxEntries /\ Len(c) \in Nat
      /\ \A i \in DOMAIN c : EntryTrue(c[i])
  BY DEF CacheTrue
<1>2. PICK d : d = Without(c, key)
  OBVIOUS
<1>3. /\ d \in Seq(CacheEntry) /\ Len(d) \in Nat
      /\ Len(d) = IF Entries(c, key) = {} THEN Len(c) ELSE Len(c) - 1
      /\ OneEntryPerKey(d)
      /\ \A i \in DOMAIN d : d[i].key # key /\ \E j \in DOMAIN c : d[i] = c[j]
  BY <1>1, <1>2, WithoutSound
<1>4. \A i \in DOMAIN d : EntryTrue(d[i])
  BY <1>1, <1>3
<1>5. MaxEntries \in Nat
  BY ClientAssumption
<1>6. CASE Fresh(c, key, t)
  <2>1. PICK i \in DOMAIN c : /\ i = Place(c, key)
                              /\ c[i].key = key /\ c[i] \in CacheEntry /\ EntryTrue(c[i])
                              /\ t <= c[i].expiresAt
    BY <1>6, FreshEntry
  <2>2. AfterGet(c, key, t) = Append(d, c[i])
    BY <1>2, <1>6, <2>1 DEF AfterGet
  <2>3. Entries(c, key) # {}
    BY <2>1 DEF Entries
  <2>4. Len(d) < MaxEntries
    BY <1>1, <1>3, <1>5, <2>3
  <2>5. CacheTrue(Append(d, c[i]))
    BY <1>3, <1>4, <2>1, <2>4, AppendEntry
  <2>6. /\ Len(d) + 1 \in DOMAIN Append(d, c[i])
        /\ Append(d, c[i])[Len(d) + 1] = c[i]
    BY <1>3, <2>1
  <2>7. Fresh(Append(d, c[i]), key, t)
    BY <2>1, <2>6 DEF Fresh, Entries
  <2> QED
    BY <2>2, <2>5, <2>7
<1>7. CASE ~Fresh(c, key, t)
  <2>1. AfterGet(c, key, t) = d
    BY <1>2, <1>7 DEF AfterGet
  <2>2. Len(d) <= MaxEntries
    BY <1>1, <1>3, <1>5
  <2> QED
    BY <1>3, <1>4, <1>7, <2>1, <2>2 DEF CacheTrue
<1> QED
  BY <1>6, <1>7

\* setCache() of a true entry keeps a true cache.
LEMMA AfterSetSound ==
    ASSUME NEW c, CacheTrue(c), NEW key, NEW value, NEW t \in Nat,
           [key |-> key, value |-> value, expiresAt |-> t + Ttl] \in CacheEntry,
           EntryTrue([key |-> key, value |-> value, expiresAt |-> t + Ttl])
    PROVE  CacheTrue(AfterSet(c, key, value, t))
<1>1. PICK entry : entry = [key |-> key, value |-> value, expiresAt |-> t + Ttl]
  OBVIOUS
<1>2. entry \in CacheEntry /\ EntryTrue(entry) /\ entry.key = key
  BY <1>1
<1>3. c \in Seq(CacheEntry) /\ OneEntryPerKey(c) /\ Len(c) <= MaxEntries /\ Len(c) \in Nat
      /\ \A i \in DOMAIN c : EntryTrue(c[i])
  BY DEF CacheTrue
<1>4. MaxEntries \in Nat \ {0}
  BY ClientAssumption
<1>5. PICK room : room = Evicted(c)
  OBVIOUS
<1>6. /\ room \in Seq(CacheEntry) /\ Len(room) \in Nat /\ Len(room) < MaxEntries
      /\ OneEntryPerKey(room) /\ \A i \in DOMAIN room : EntryTrue(room[i])
  <2>1. CASE Len(c) >= MaxEntries
    <3>1. room = Tail(c) /\ c # << >>
      BY <1>3, <1>4, <1>5, <2>1 DEF Evicted
    <3>2. /\ room \in Seq(CacheEntry) /\ Len(room) = Len(c) - 1
          /\ DOMAIN c = 1 .. Len(c) /\ DOMAIN room = 1 .. Len(c) - 1
          /\ \A i \in DOMAIN room : room[i] = c[i + 1]
      BY <1>3, <3>1
    <3>3. \A i \in DOMAIN room : i + 1 \in DOMAIN c
      BY <1>3, <3>2
    <3>4. OneEntryPerKey(room)
      BY <1>3, <3>2, <3>3 DEF OneEntryPerKey
    <3> QED
      BY <1>3, <1>4, <3>2, <3>3, <3>4
  <2>2. CASE ~(Len(c) >= MaxEntries)
    BY <1>3, <1>4, <1>5, <2>2 DEF Evicted
  <2> QED
    BY <2>1, <2>2
<1>7. CASE Entries(room, key) = {}
  <2>1. AfterSet(c, key, value, t) = Append(room, entry)
    BY <1>1, <1>5, <1>7 DEF AfterSet
  <2>2. \A i \in DOMAIN room : room[i].key # entry.key
    BY <1>2, <1>7 DEF Entries
  <2> QED
    BY <1>2, <1>6, <2>1, <2>2, AppendEntry
<1>8. CASE Entries(room, key) # {}
  <2>1. PICK d : d = [i \in DOMAIN room |-> IF room[i].key = key THEN entry ELSE room[i]]
    OBVIOUS
  <2>2. AfterSet(c, key, value, t) = d
    BY <1>1, <1>5, <1>8, <2>1 DEF AfterSet
  <2>3. /\ d \in Seq(CacheEntry) /\ Len(d) = Len(room) /\ DOMAIN d = DOMAIN room
    BY <1>2, <1>6, <2>1
  <2>4. \A i \in DOMAIN d : d[i].key = room[i].key /\ EntryTrue(d[i])
    BY <1>2, <1>6, <2>1
  <2> QED
    BY <1>4, <1>6, <2>2, <2>3, <2>4 DEF CacheTrue, OneEntryPerKey
<1> QED
  BY <1>7, <1>8

-----------------------------------------------------------------------------
(* The prompt client keeps its invariant, and the prompt service its own.  *)

\* What the prompts' rows say is among their facts.
LEMMA FactsThere ==
    /\ \A p \in Prompts : \A v \in prompts[p].published : <<"published", p, v>> \in FactsOf(prompts)
    /\ \A p \in Prompts : prompts[p].published = {} => <<"unpublished", p>> \in FactsOf(prompts)
    /\ \A k \in Keys : (\A p \in Prompts : prompts[p].exists => NameOf[p] # k) =>
          <<"absent", k>> \in FactsOf(prompts)
<1>1. ASSUME NEW p \in Prompts, NEW v \in prompts[p].published
      PROVE  <<"published", p, v>> \in FactsOf(prompts)
  <2>1. <<"published", p, v>> \in {<<"published", p, n>> : n \in prompts[p].published}
    OBVIOUS
  <2>2. {<<"published", p, n>> : n \in prompts[p].published} \in
           {{<<"published", q, n>> : n \in prompts[q].published} : q \in Prompts}
    OBVIOUS
  <2> QED
    BY <2>1, <2>2 DEF FactsOf
<1>2. ASSUME NEW p \in Prompts, prompts[p].published = {}
      PROVE  <<"unpublished", p>> \in FactsOf(prompts)
  <2>1. p \in {q \in Prompts : prompts[q].published = {}}
    BY <1>2
  <2>2. <<"unpublished", p>> \in
           {<<"unpublished", x>> : x \in {q \in Prompts : prompts[q].published = {}}}
    BY <2>1
  <2> QED
    BY <2>2 DEF FactsOf
<1>3. ASSUME NEW k \in Keys, \A p \in Prompts : prompts[p].exists => NameOf[p] # k
      PROVE  <<"absent", k>> \in FactsOf(prompts)
  <2>1. k \in {key \in Keys : \A p \in Prompts : prompts[p].exists => NameOf[p] # key}
    BY <1>3
  <2>2. <<"absent", k>> \in
           {<<"absent", x>> : x \in {key \in Keys :
              \A p \in Prompts : prompts[p].exists => NameOf[p] # key}}
    BY <2>1
  <2> QED
    BY <2>2 DEF FactsOf
<1> QED
  BY <1>1, <1>2, <1>3

\* What has been a fact since t has been one since before.
LEMMA SinceEarlier ==
    ASSUME PromptInv, NEW f \in Facts, NEW t \in Int, NEW s \in Int, s <= t, Since(f, t)
    PROVE  Since(f, s)
<1>1. ceased[f] \in Int
  BY DEF PromptInv, ServerTrue
<1> QED
  BY <1>1 DEF Since

\* What the facts of a prompt found or rendered are about.
LEMMA FactsAbout ==
    /\ \A p \in Prompts, v \in Versions : <<"published", p, v>> \in Facts
    /\ \A p \in Prompts : <<"unpublished", p>> \in Facts
    /\ \A k \in Keys : <<"absent", k>> \in Facts
BY DEF Facts

LEMMA FoundEarlier ==
    ASSUME PromptInv, NEW key \in Keys, NEW found, NEW t \in Int, NEW s \in Int, s <= t,
           FoundSince(key, found, t)
    PROVE  FoundSince(key, found, s)
<1>1. /\ found \in SnapshotsOfPrompts
      /\ found.prompt \in Prompts /\ found.published \subseteq Versions
  BY DEF FoundSince, SnapshotSince, SnapshotsOfPrompts
<1>2. \A f \in Facts : Since(f, t) => Since(f, s)
  BY SinceEarlier
<1>3. NameSince(key, found.prompt, s)
  BY <1>2, FactsAbout DEF FoundSince, NameSince
<1>4. SnapshotSince(key, found, s)
  <2>1. \A v \in found.published : Since(<<"published", found.prompt, v>>, s)
    BY <1>1, <1>2, FactsAbout DEF FoundSince, SnapshotSince
  <2>2. found.published = {} => Since(<<"unpublished", found.prompt>>, s)
    BY <1>1, <1>2, FactsAbout DEF FoundSince, SnapshotSince
  <2> QED
    BY <2>1, <2>2 DEF FoundSince, SnapshotSince
<1> QED
  BY <1>3, <1>4 DEF FoundSince

LEMMA RenderedEarlier ==
    ASSUME PromptInv, NEW request \in RenderRequest, NEW result, NEW t \in Int, NEW s \in Int, s <= t,
           RenderedSince(request, result, t)
    PROVE  RenderedSince(request, result, s)
<1>1. /\ result \in [outcome : {"rendered"}, prompt : Prompts, version : Versions]
      /\ result.prompt \in Prompts /\ result.version \in Versions /\ request.key \in Keys
  BY DEF RenderedSince, RenderRequest
<1>2. \A f \in Facts : Since(f, t) => Since(f, s)
  BY SinceEarlier
<1>3. NameSince(request.key, result.prompt, s)
  BY <1>1, <1>2, FactsAbout DEF RenderedSince, NameSince
<1>4. /\ Since(<<"published", result.prompt, result.version>>, t) =>
            Since(<<"published", result.prompt, result.version>>, s)
      /\ Since(<<"unpublished", result.prompt>>, t) => Since(<<"unpublished", result.prompt>>, s)
  BY <1>1, <1>2, FactsAbout
<1> QED
  BY <1>3, <1>4 DEF RenderedSince

\* The prompts lose no version, and what has been a fact since some time until now still has.
Lasting ==
    /\ \A p \in Prompts : prompts[p].versions \subseteq prompts'[p].versions
    /\ \A f \in Facts, t \in Int : t <= now /\ Since(f, t) => Since(f, t)'

LEMMA SnapshotLasts ==
    ASSUME Lasting, NEW key \in Keys, NEW s, NEW t \in Int, t <= now, SnapshotSince(key, s, t)
    PROVE  SnapshotSince(key, s, t)'
<1>1. s \in SnapshotsOfPrompts /\ s.prompt \in Prompts /\ s.published \subseteq Versions
  BY DEF SnapshotSince, SnapshotsOfPrompts
<1>2. \A f \in Facts : Since(f, t) => Since(f, t)'
  BY DEF Lasting
<1>3. \A v \in s.published : Since(<<"published", s.prompt, v>>, t)'
  BY <1>1, <1>2, FactsAbout DEF SnapshotSince
<1>4. s.published = {} => Since(<<"unpublished", s.prompt>>, t)'
  BY <1>1, <1>2, FactsAbout DEF SnapshotSince
<1>5. s.versions \subseteq prompts'[s.prompt].versions
  BY <1>1 DEF SnapshotSince, Lasting
<1> QED
  BY <1>1, <1>3, <1>4, <1>5 DEF SnapshotSince

LEMMA FoundLasts ==
    ASSUME Lasting, NEW key \in Keys, NEW found, NEW t \in Int, t <= now, FoundSince(key, found, t)
    PROVE  FoundSince(key, found, t)'
<1>1. SnapshotSince(key, found, t)'
  BY SnapshotLasts DEF FoundSince
<1>2. NameSince(key, found.prompt, t)'
  BY FactsAbout DEF FoundSince, NameSince, Lasting
<1> QED
  BY <1>1, <1>2 DEF FoundSince

LEMMA RenderedLasts ==
    ASSUME Lasting, NEW request \in RenderRequest, NEW result, NEW t \in Int, t <= now,
           RenderedSince(request, result, t)
    PROVE  RenderedSince(request, result, t)'
<1>1. /\ result \in [outcome : {"rendered"}, prompt : Prompts, version : Versions]
      /\ result.prompt \in Prompts /\ result.version \in Versions /\ request.key \in Keys
  BY DEF RenderedSince, RenderRequest
<1>2. \A f \in Facts : Since(f, t) => Since(f, t)'
  BY DEF Lasting
<1>3. NameSince(request.key, result.prompt, t)'
  BY <1>1, <1>2, FactsAbout DEF RenderedSince, NameSince
<1>4. result.version \in prompts'[result.prompt].versions
  BY <1>1 DEF RenderedSince, Lasting
<1>5. /\ Since(<<"published", result.prompt, result.version>>, t) =>
            Since(<<"published", result.prompt, result.version>>, t)'
      /\ Since(<<"unpublished", result.prompt>>, t) => Since(<<"unpublished", result.prompt>>, t)'
  BY <1>1, <1>2, FactsAbout
<1> QED
  BY <1>3, <1>4, <1>5 DEF RenderedSince

\* Prompts and time stay as they are, and one call changes with the cache.
LEMMA RenderChanges ==
    ASSUME PromptInv, UNCHANGED <<now, prompts, edits, ceased>>,
           NEW c, CacheTrue(c), cache' = c,
           NEW r \in Renders, NEW render, RenderTrue(render),
           renders' = [renders EXCEPT ![r] = render]
    PROVE  PromptInv'
<1>1. /\ DOMAIN renders' = Renders
      /\ \A q \in Renders : RenderTrue(renders'[q])
  BY DEF PromptInv
<1>2. CacheTrue(cache')
  OBVIOUS
<1>3. \A f, t : Since(f, t)' <=> Since(f, t)
  BY DEF Since
<1>4. \A key, s, t : SnapshotSince(key, s, t)' <=> SnapshotSince(key, s, t)
  BY <1>3 DEF SnapshotSince
<1>5. \A key, p, t : NameSince(key, p, t)' <=> NameSince(key, p, t)
  BY <1>3 DEF NameSince
<1>6. \A request, result, t : RenderedSince(request, result, t)' <=> RenderedSince(request, result, t)
  BY <1>3, <1>5 DEF RenderedSince
<1>7. CacheTrue(cache)'
  <2>1. /\ cache' \in Seq(CacheEntry) /\ Len(cache') <= MaxEntries
        /\ OneEntryPerKey(cache')
        /\ \A i \in DOMAIN cache' : EntryTrue(cache'[i])
    BY <1>2 DEF CacheTrue
  <2>2. ASSUME NEW entry, EntryTrue(entry)
        PROVE  EntryTrue(entry)'
    BY <1>4, <1>5, <1>6, <2>2 DEF EntryTrue, FoundSince
  <2> QED
    BY <2>1, <2>2 DEF CacheTrue, OneEntryPerKey
<1>8. ASSUME NEW q \in Renders
      PROVE  RenderTrue(renders[q])'
  <2>1. PICK x : x = renders'[q]
    OBVIOUS
  <2>2. RenderTrue(x)
    BY <1>1, <2>1
  <2>3. FetchTrue(x)' <=> FetchTrue(x)
    BY <1>3, <1>4 DEF FetchTrue
  <2>4. RenderTrue(x)'
    BY <1>6, <2>2, <2>3 DEF RenderTrue
  <2> QED
    BY <2>1, <2>4
<1>9. ServerTrue'
  BY DEF PromptInv, ServerTrue, EditTrue
<1> QED
  BY <1>1, <1>7, <1>8, <1>9 DEF PromptInv

\* A call ends with a result that is true enough.
LEMMA EndsKeeps ==
    ASSUME PromptInv, UNCHANGED <<now, prompts, edits, ceased>>,
           NEW c, CacheTrue(c), cache' = c,
           NEW r \in Renders, NEW request \in RenderRequest, NEW result,
           \/ result \in {NotFound, Failed}
           \/ RenderedSince(request, result, now - 2 * Ttl - RequestTimeout),
           RenderEnds(r, request, result, now)
    PROVE  PromptInv'
<1>1. PICK render : render = [at |-> "done", request |-> request, result |-> result, when |-> now]
  OBVIOUS
<1>2. RenderTrue(render)
  BY <1>1 DEF RenderTrue, PromptInv
<1>3. renders' = [renders EXCEPT ![r] = render]
  BY <1>1 DEF RenderEnds
<1> QED
  BY <1>2, <1>3, RenderChanges

\* A version of a prompt found may be rendered.
LEMMA VersionRendered ==
    ASSUME PromptInv, NEW request \in RenderRequest, NEW found, NEW t \in Int,
           FoundSince(request.key, found, t), NEW v \in VersionsFor(request, found)
    PROVE  RenderedSince(request, Rendered(found.prompt, v), t)
<1>1. /\ found \in SnapshotsOfPrompts
      /\ found.prompt \in Prompts /\ found.versions \subseteq Versions
      /\ found.versions \subseteq prompts[found.prompt].versions
      /\ \A n \in found.published : n \in found.versions /\ Since(<<"published", found.prompt, n>>, t)
  BY DEF FoundSince, SnapshotSince, SnapshotsOfPrompts
<1>2. v \in found.versions
  BY <1>1 DEF VersionsFor
<1>3. PICK result : result = Rendered(found.prompt, v)
  OBVIOUS
<1>4. /\ result \in [outcome : {"rendered"}, prompt : Prompts, version : Versions]
      /\ result.prompt = found.prompt /\ result.version = v
  BY <1>1, <1>2, <1>3 DEF Rendered
<1>5. IF request.version # Published THEN v = request.version
      ELSE \/ Since(<<"published", found.prompt, v>>, t)
           \/ Since(<<"unpublished", found.prompt>>, t)
  BY <1>1 DEF VersionsFor, FoundSince, SnapshotSince
<1>6. /\ found.prompt \in Matches[request.key] /\ NameSince(request.key, found.prompt, t)
      /\ v \in prompts[found.prompt].versions
  BY <1>1, <1>2 DEF FoundSince, SnapshotSince
<1>7. RenderedSince(request, result, t)
  BY <1>4, <1>5, <1>6 DEF RenderedSince
<1> QED
  BY <1>3, <1>7

\* What is rendered from a prompt found is no older than a found one may be.
LEMMA FinishKeeps ==
    ASSUME PromptInv, UNCHANGED <<now, prompts, edits, ceased>>,
           NEW c, CacheTrue(c), NEW r \in Renders, NEW request \in RenderRequest, NEW found,
           FoundSince(request.key, found, now - Ttl - RequestTimeout),
           Finish(r, request, found, c, now)
    PROVE  PromptInv'
<1> USE ClientAssumption
<1>0. now \in Nat /\ Ttl \in Nat /\ RequestTimeout \in Nat
  BY DEF PromptInv
<1>1. now - 2 * Ttl - RequestTimeout \in Int
      /\ now - 2 * Ttl - RequestTimeout <= now - Ttl - RequestTimeout
      /\ now + Ttl - 2 * Ttl - RequestTimeout = now - Ttl - RequestTimeout
      /\ now - Ttl - RequestTimeout \in Int
  BY <1>0
<1>2. ASSUME NEW v \in VersionsFor(request, found),
             cache' = AfterSet(c, RenderKey(request), Rendered(found.prompt, v), now),
             RenderEnds(r, request, Rendered(found.prompt, v), now)
      PROVE  PromptInv'
  <2>1. PICK result : result = Rendered(found.prompt, v)
    OBVIOUS
  <2>2. RenderedSince(request, result, now - Ttl - RequestTimeout)
    BY <1>1, <2>1, VersionRendered
  <2>3. RenderedSince(request, result, now - 2 * Ttl - RequestTimeout)
        /\ RenderedSince(request, result, now + Ttl - 2 * Ttl - RequestTimeout)
    BY <1>1, <2>2, RenderedEarlier
  <2>4. PICK entry : entry = [key |-> RenderKey(request), value |-> result, expiresAt |-> now + Ttl]
    OBVIOUS
  <2>5. entry \in CacheEntry
    BY <1>0, <2>2, <2>4 DEF CacheEntry, RenderedSince
  <2>6. EntryTrue(entry)
    BY <1>0, <2>3, <2>4 DEF EntryTrue
  <2>7. CacheTrue(AfterSet(c, RenderKey(request), result, now))
    BY <1>0, <2>4, <2>5, <2>6, AfterSetSound
  <2> QED
    BY <1>2, <2>1, <2>3, <2>7, EndsKeeps
<1>3. CASE cache' = c /\ RenderEnds(r, request, NotFound, now)
  BY <1>3, EndsKeeps
<1> QED
  BY <1>2, <1>3 DEF Finish

\* What is found in the cache under the key of request.
LEMMA MetEntry ==
    ASSUME PromptInv, NEW c, CacheTrue(c), NEW request \in RenderRequest
    PROVE  /\ Fresh(c, RenderKey(request), now) =>
                 RenderedSince(request, ValueIn(c, RenderKey(request)), now - 2 * Ttl - RequestTimeout)
           /\ Fresh(c, MetaKey(request), now) =>
                 FoundSince(request.key, ValueIn(c, MetaKey(request)), now - Ttl - RequestTimeout)
<1> USE ClientAssumption
<1>1. now \in Nat /\ Ttl \in Nat /\ RequestTimeout \in Nat
  BY DEF PromptInv
<1>2. ASSUME Fresh(c, RenderKey(request), now)
      PROVE  RenderedSince(request, ValueIn(c, RenderKey(request)), now - 2 * Ttl - RequestTimeout)
  <2>1. PICK i \in DOMAIN c : /\ c[i].key = RenderKey(request) /\ EntryTrue(c[i])
                              /\ now <= c[i].expiresAt
                              /\ ValueIn(c, RenderKey(request)) = c[i].value
    BY <1>1, <1>2, FreshEntry
  <2>2. PICK value : value = c[i].value
    OBVIOUS
  <2>3. PICK t : t = c[i].expiresAt - 2 * Ttl - RequestTimeout
    OBVIOUS
  <2>4. RenderedSince(request, value, t)
    BY <2>1, <2>2, <2>3 DEF EntryTrue, MetaKey, RenderKey
  <2>5. t \in Int /\ now - 2 * Ttl - RequestTimeout \in Int /\ now - 2 * Ttl - RequestTimeout <= t
    BY <1>1, <2>1, <2>3 DEF EntryTrue
  <2>6. RenderedSince(request, value, now - 2 * Ttl - RequestTimeout)
    BY <2>4, <2>5, RenderedEarlier
  <2> QED
    BY <2>1, <2>2, <2>6
<1>3. ASSUME Fresh(c, MetaKey(request), now)
      PROVE  FoundSince(request.key, ValueIn(c, MetaKey(request)), now - Ttl - RequestTimeout)
  <2>1. PICK i \in DOMAIN c : /\ c[i].key = MetaKey(request) /\ EntryTrue(c[i])
                              /\ now <= c[i].expiresAt
                              /\ ValueIn(c, MetaKey(request)) = c[i].value
    BY <1>1, <1>3, FreshEntry
  <2>2. PICK value : value = c[i].value
    OBVIOUS
  <2>3. PICK t : t = c[i].expiresAt - Ttl - RequestTimeout
    OBVIOUS
  <2>4. FoundSince(request.key, value, t)
    BY <2>1, <2>2, <2>3 DEF EntryTrue, MetaKey, RenderKey
  <2>5. t \in Int /\ now - Ttl - RequestTimeout \in Int /\ now - Ttl - RequestTimeout <= t
    BY <1>1, <2>1, <2>3 DEF EntryTrue
  <2>6. FoundSince(request.key, value, now - Ttl - RequestTimeout)
    BY <2>4, <2>5, FoundEarlier DEF RenderRequest
  <2> QED
    BY <2>1, <2>2, <2>6
<1> QED
  BY <1>2, <1>3

LEMMA BeginsKeeps ==
    ASSUME PromptInv, UNCHANGED now, NEW r \in Renders, NEW request \in RenderRequest,
           RenderBegins(r, request, now)
    PROVE  PromptInv'
<1> USE ClientAssumption
<1>1. now \in Nat /\ CacheTrue(cache) /\ UNCHANGED <<now, prompts, edits, ceased>>
  BY DEF PromptInv, RenderBegins, serverVars
<1>2. PICK met : met = AfterGet(cache, RenderKey(request), now)
  OBVIOUS
<1>3. PICK found : found = AfterGet(met, MetaKey(request), now)
  OBVIOUS
<1>4. /\ CacheTrue(met)
      /\ Fresh(cache, RenderKey(request), now) => Fresh(met, RenderKey(request), now)
  BY <1>1, <1>2, AfterGetSound
<1>5. /\ CacheTrue(found)
      /\ Fresh(met, MetaKey(request), now) => Fresh(found, MetaKey(request), now)
  BY <1>1, <1>3, <1>4, AfterGetSound
<1>6. CASE Fresh(cache, RenderKey(request), now)
  <2>1. cache' = met /\ RenderEnds(r, request, ValueIn(met, RenderKey(request)), now)
    BY <1>2, <1>6 DEF RenderBegins
  <2>2. RenderedSince(request, ValueIn(met, RenderKey(request)), now - 2 * Ttl - RequestTimeout)
    BY <1>4, <1>6, MetEntry
  <2> QED
    BY <1>1, <1>4, <2>1, <2>2, EndsKeeps
<1>7. CASE ~Fresh(cache, RenderKey(request), now) /\ Fresh(met, MetaKey(request), now)
  <2>1. Finish(r, request, ValueIn(found, MetaKey(request)), found, now)
    BY <1>2, <1>3, <1>7 DEF RenderBegins
  <2>2. FoundSince(request.key, ValueIn(found, MetaKey(request)), now - Ttl - RequestTimeout)
    BY <1>5, <1>7, MetEntry
  <2> QED
    BY <1>1, <1>5, <2>1, <2>2, FinishKeeps
<1>8. CASE ~Fresh(cache, RenderKey(request), now) /\ ~Fresh(met, MetaKey(request), now)
  <2>1. cache' = found /\ renders' = [renders EXCEPT ![r] = Fetching(request, 1, now)]
    BY <1>2, <1>3, <1>8 DEF RenderBegins
  <2>2. RenderTrue(Fetching(request, 1, now))
    BY <1>1 DEF RenderTrue, FetchTrue, Fetching
  <2> QED
    BY <1>1, <1>5, <2>1, <2>2, RenderChanges
<1> QED
  BY <1>6, <1>7, <1>8

\* A call under way.
LEMMA FetchingRender ==
    ASSUME PromptInv, NEW r \in Renders, renders[r].at = "fetching"
    PROVE  /\ renders[r].request \in RenderRequest /\ renders[r].answered \in BOOLEAN
           /\ FetchTrue(renders[r])
BY DEF PromptInv, RenderTrue

LEMMA ReadKeeps ==
    ASSUME PromptInv, UNCHANGED now, NEW r \in Renders, PromptsRead(r)
    PROVE  PromptInv'
<1>1. /\ renders[r].at = "fetching" /\ UNCHANGED <<now, prompts, edits, ceased, cache>>
      /\ CacheTrue(cache) /\ now \in Nat /\ ServerTrue
  BY DEF PromptsRead, serverVars, PromptInv
<1>2. renders[r].request \in RenderRequest /\ FetchTrue(renders[r])
  BY <1>1, FetchingRender
<1>3. PICK key \in Keys : key = renders[r].request.key
  BY <1>2 DEF RenderRequest
<1>4. PICK list : list = {Snapshot(p) : p \in {q \in Matches[key] : prompts[q].exists}}
  OBVIOUS
<1>5. PICK render : render = [at |-> "fetching", request |-> renders[r].request,
                              attempt |-> renders[r].attempt, sent |-> renders[r].sent,
                              answered |-> TRUE, list |-> list]
  OBVIOUS
<1>6. renders' = [renders EXCEPT ![r] = render]
  BY <1>3, <1>4, <1>5 DEF PromptsRead
<1>7. /\ render.request.key = key /\ render.list = list /\ render.sent = renders[r].sent
  BY <1>3, <1>5
<1>8. \A q \in Matches[key] : q \in Prompts
  BY SearchAssumption
<1>9. ASSUME NEW q \in Matches[key]
      PROVE  SnapshotSince(key, Snapshot(q), render.sent)
  <2>1. q \in Prompts /\ prompts[q] \in PromptRow /\ prompts[q].published \subseteq prompts[q].versions
    BY <1>1, <1>8 DEF ServerTrue
  <2>2. /\ Snapshot(q) \in SnapshotsOfPrompts /\ Snapshot(q).prompt = q
        /\ Snapshot(q).versions = prompts[q].versions /\ Snapshot(q).published = prompts[q].published
    BY <2>1 DEF Snapshot, SnapshotsOfPrompts, PromptRow
  <2> QED
    BY <2>1, <2>2, FactsThere DEF SnapshotSince, Since
<1>10. \/ \E s \in list : NameOf[s.prompt] = key
       \/ Since(<<"absent", key>>, render.sent)
  <2>1. CASE \E q \in Prompts : prompts[q].exists /\ NameOf[q] = key
    <3>1. PICK q \in Prompts : prompts[q].exists /\ NameOf[q] = key
      BY <2>1
    <3>2. Snapshot(q) \in list
      BY <1>4, <3>1, SearchAssumption
    <3>3. Snapshot(q).prompt = q
      BY DEF Snapshot
    <3> QED
      BY <3>1, <3>2, <3>3
  <2>2. CASE ~ \E q \in Prompts : prompts[q].exists /\ NameOf[q] = key
    BY <2>2, FactsThere DEF Since
  <2> QED
    BY <2>1, <2>2
<1>11. FetchTrue(render)
  BY <1>2, <1>4, <1>7, <1>9, <1>10 DEF FetchTrue
<1>12. RenderTrue(render)
  BY <1>2, <1>5, <1>11 DEF RenderTrue
<1> QED
  BY <1>1, <1>6, <1>12, RenderChanges

LEMMA FetchedKeeps ==
    ASSUME PromptInv, UNCHANGED now, NEW r \in Renders, PromptsFetched(r, now)
    PROVE  PromptInv'
<1> USE ClientAssumption
<1>1. PICK request, list, candidates, inWorkspace :
         /\ request = renders[r].request /\ list = renders[r].list
         /\ candidates = {s \in list : NameOf[s.prompt] = request.key}
         /\ inWorkspace = {s \in candidates : WorkspaceOf[s.prompt] = request.workspace}
  OBVIOUS
<1>2. /\ renders[r].at = "fetching" /\ renders[r].answered
      /\ UNCHANGED <<now, prompts, edits, ceased>>
      /\ \/ RenderEnds(r, request, NotFound, now) /\ cache' = cache
         \/ \E found \in Picked(IF inWorkspace # {} THEN inWorkspace
                                ELSE IF candidates # {} THEN candidates ELSE list) :
               Finish(r, request, found, AfterSet(cache, MetaKey(request), found, now), now)
  BY <1>1 DEF PromptsFetched, serverVars
<1>3. CacheTrue(cache) /\ now \in Nat /\ Ttl \in Nat /\ RequestTimeout \in Nat
  BY DEF PromptInv
<1>4. request \in RenderRequest /\ request.key \in Keys /\ FetchTrue(renders[r])
  BY <1>1, <1>2, FetchingRender DEF RenderRequest
<1>5. PICK sent \in Nat : /\ sent = renders[r].sent /\ now <= sent + RequestTimeout
                          /\ \A s \in list : SnapshotSince(request.key, s, sent)
                          /\ candidates # {} \/ Since(<<"absent", request.key>>, sent)
  BY <1>1, <1>2, <1>4 DEF FetchTrue
<1>6. ASSUME NEW found \in Picked(IF inWorkspace # {} THEN inWorkspace
                                  ELSE IF candidates # {} THEN candidates ELSE list),
             Finish(r, request, found, AfterSet(cache, MetaKey(request), found, now), now)
      PROVE  PromptInv'
  <2>1. found \in list /\ (candidates # {} => NameOf[found.prompt] = request.key)
    BY <1>1, <1>6 DEF Picked
  <2>2. FoundSince(request.key, found, sent)
    BY <1>5, <2>1 DEF FoundSince, NameSince
  <2>3. now - RequestTimeout <= sent /\ now - RequestTimeout \in Int
        /\ now - Ttl - RequestTimeout <= sent /\ now - Ttl - RequestTimeout \in Int
        /\ now + Ttl - Ttl - RequestTimeout = now - RequestTimeout
    BY <1>3, <1>5
  <2>4. /\ FoundSince(request.key, found, now + Ttl - Ttl - RequestTimeout)
        /\ FoundSince(request.key, found, now - Ttl - RequestTimeout)
    BY <1>4, <2>2, <2>3, FoundEarlier
  <2>5. PICK entry : entry = [key |-> MetaKey(request), value |-> found, expiresAt |-> now + Ttl]
    OBVIOUS
  <2>6. entry \in CacheEntry
    BY <1>3, <1>4, <2>2, <2>5 DEF CacheEntry, FoundSince, SnapshotSince
  <2>7. EntryTrue(entry)
    BY <1>3, <1>4, <2>4, <2>5 DEF EntryTrue
  <2>8. CacheTrue(AfterSet(cache, MetaKey(request), found, now))
    BY <1>3, <2>5, <2>6, <2>7, AfterSetSound
  <2> QED
    BY <1>2, <1>4, <1>6, <2>4, <2>8, FinishKeeps
<1>7. CASE RenderEnds(r, request, NotFound, now) /\ cache' = cache
  BY <1>2, <1>3, <1>4, <1>7, EndsKeeps
<1> QED
  BY <1>2, <1>6, <1>7

LEMMA FailsKeeps ==
    ASSUME PromptInv, UNCHANGED now, NEW r \in Renders, FetchFails(r, now) \/ FetchRefused(r, now)
    PROVE  PromptInv'
<1>1. /\ renders[r].at = "fetching" /\ UNCHANGED <<now, prompts, edits, ceased, cache>>
      /\ CacheTrue(cache) /\ now \in Nat /\ RequestTimeout \in Nat
  BY ClientAssumption DEF FetchFails, FetchRefused, serverVars, PromptInv
<1>2. renders[r].request \in RenderRequest
  BY <1>1, FetchingRender
<1>3. CASE RenderEnds(r, renders[r].request, NotFound, now) \/ RenderEnds(r, renders[r].request, Failed, now)
  BY <1>1, <1>2, <1>3, EndsKeeps
<1>4. CASE renders' = [renders EXCEPT ![r] =
                        Fetching(renders[r].request, NextAttempt(renders[r].attempt), now)]
  <2>1. PICK n : n = NextAttempt(renders[r].attempt)
    OBVIOUS
  <2>2. RenderTrue(Fetching(renders[r].request, n, now))
    BY <1>1, <1>2 DEF RenderTrue, FetchTrue, Fetching
  <2> QED
    BY <1>1, <1>4, <2>1, <2>2, RenderChanges
<1> QED
  BY <1>3, <1>4 DEF FetchFails, FetchRefused

LEMMA ForgottenKeeps ==
    ASSUME PromptInv, UNCHANGED now, NEW r \in Renders, RenderForgotten(r)
    PROVE  PromptInv'
<1>1. UNCHANGED <<now, prompts, edits, ceased, cache>> /\ CacheTrue(cache)
  BY DEF RenderForgotten, serverVars, PromptInv
<1>2. RenderTrue([at |-> "over"])
  BY DEF RenderTrue
<1> QED
  BY <1>1, <1>2, RenderChanges DEF RenderForgotten

\* What an entry of the cache says of its date, before and after the clock has moved.
LEMMA EntryDates ==
    ASSUME NEW m \in Nat, NEW n \in {m, m + 1}, NEW e \in Nat, e <= m + Ttl
    PROVE  /\ e - Ttl - RequestTimeout \in Int
           /\ e - Ttl - RequestTimeout <= m
           /\ e - 2 * Ttl - RequestTimeout \in Int
           /\ e - 2 * Ttl - RequestTimeout <= m
           /\ e <= n + Ttl
BY ClientAssumption

\* Prompts and their history may change, and time pass, when what was read until now lasts.
LEMMA PromptsChange ==
    ASSUME PromptInv, UNCHANGED <<cache, renders>>, now' \in {now, now + 1},
           ServerTrue', Lasting,
           now' = now \/ ClientTimersAllow(now)
    PROVE  PromptInv'
<1> USE ClientAssumption
<1>1. now \in Nat /\ Ttl \in Nat /\ RequestTimeout \in Nat
  BY DEF PromptInv
<1>2. ASSUME NEW entry, EntryTrue(entry)
      PROVE  EntryTrue(entry)'
  <2>1. entry.expiresAt \in Nat /\ entry.expiresAt <= now + Ttl
    BY <1>2 DEF EntryTrue
  <2>2. /\ entry.expiresAt - Ttl - RequestTimeout \in Int
        /\ entry.expiresAt - Ttl - RequestTimeout <= now
        /\ entry.expiresAt - 2 * Ttl - RequestTimeout \in Int
        /\ entry.expiresAt - 2 * Ttl - RequestTimeout <= now
        /\ entry.expiresAt <= now' + Ttl
    BY <1>1, <2>1, EntryDates, Zenon
  <2>3. PICK q \in RenderRequest :
           \/ /\ entry.key = MetaKey(q)
              /\ FoundSince(q.key, entry.value, entry.expiresAt - Ttl - RequestTimeout)
           \/ /\ entry.key = RenderKey(q)
              /\ RenderedSince(q, entry.value, entry.expiresAt - 2 * Ttl - RequestTimeout)
    BY <1>2 DEF EntryTrue
  <2>4. q.key \in Keys
    BY DEF RenderRequest
  <2>5. \/ /\ entry.key = MetaKey(q)
           /\ FoundSince(q.key, entry.value, entry.expiresAt - Ttl - RequestTimeout)'
        \/ /\ entry.key = RenderKey(q)
           /\ RenderedSince(q, entry.value, entry.expiresAt - 2 * Ttl - RequestTimeout)'
    BY <2>2, <2>3, <2>4, FoundLasts, RenderedLasts
  <2> QED
    BY <2>1, <2>2, <2>5 DEF EntryTrue
<1>3. CacheTrue(cache)'
  <2>1. CacheTrue(cache)
    BY DEF PromptInv
  <2> QED
    BY <1>2, <2>1 DEF CacheTrue
<1>4. ASSUME NEW r \in Renders
      PROVE  RenderTrue(renders[r])'
  <2>1. PICK render : render = renders[r]
    OBVIOUS
  <2>2. RenderTrue(render) /\ renders'[r] = render
    BY <2>1 DEF PromptInv
  <2>3. CASE render = [at |-> "idle"] \/ render = [at |-> "over"]
    BY <2>2, <2>3 DEF RenderTrue
  <2>4. CASE /\ render.at = "fetching" /\ render.request \in RenderRequest
             /\ render.answered \in BOOLEAN
             /\ FetchTrue(render)
    <3>1. render.sent \in Nat /\ render.sent <= now /\ now <= render.sent + RequestTimeout
      BY <2>4 DEF FetchTrue
    <3>2. render.sent <= now' /\ now' <= render.sent + RequestTimeout
      BY <1>1, <2>1, <2>4, <3>1 DEF ClientTimersAllow
    <3>3. render.request.key \in Keys /\ render.sent \in Int
      BY <2>4, <3>1 DEF RenderRequest
    <3>4. ASSUME render.answered, NEW s \in render.list
          PROVE  SnapshotSince(render.request.key, s, render.sent)'
      <4>1. SnapshotSince(render.request.key, s, render.sent)
        BY <2>4, <3>4 DEF FetchTrue
      <4> QED
        BY <3>1, <3>3, <4>1, SnapshotLasts
    <3>5. Since(<<"absent", render.request.key>>, render.sent) =>
             Since(<<"absent", render.request.key>>, render.sent)'
      BY <3>1, <3>3, FactsAbout DEF Lasting
    <3>6. FetchTrue(render)'
      BY <2>4, <3>1, <3>2, <3>4, <3>5 DEF FetchTrue
    <3> QED
      BY <2>2, <2>4, <3>6 DEF RenderTrue
  <2>5. CASE /\ render.at = "done" /\ render.request \in RenderRequest
             /\ render.when \in Nat /\ render.when <= now
             /\ \/ render.result \in {NotFound, Failed}
                \/ RenderedSince(render.request, render.result, render.when - 2 * Ttl - RequestTimeout)
    <3>1. /\ render.when <= now' /\ render.when - 2 * Ttl - RequestTimeout \in Int
          /\ render.when - 2 * Ttl - RequestTimeout <= now
      BY <1>1, <2>5
    <3>2. \/ render.result \in {NotFound, Failed}
          \/ RenderedSince(render.request, render.result, render.when - 2 * Ttl - RequestTimeout)'
      BY <2>5, <3>1, RenderedLasts
    <3> QED
      BY <2>2, <2>5, <3>1, <3>2 DEF RenderTrue
  <2> QED
    BY <2>2, <2>3, <2>4, <2>5 DEF RenderTrue
<1> QED
  BY <1>1, <1>3, <1>4 DEF PromptInv

\* A change of one prompt that leaves it its versions, as far as a change under way goes.
LEMMA EditedKeeps ==
    ASSUME PromptInv, UNCHANGED now, NEW p \in Prompts, NEW row \in PromptRow,
           Edited(p, row, now),
           prompts[p].versions \subseteq row.versions, row.published \subseteq row.versions,
           NEW e \in Editors, NEW edit, EditGoesTo(e, edit),
           edit = Done \/ \E at \in {"rollback", "publish"}, v \in prompts[p].versions : edit = About(at, p, v)
    PROVE  PromptInv'
<1>1. /\ now \in Nat /\ ServerTrue /\ UNCHANGED <<cache, renders>>
  BY DEF PromptInv, Edited
<1>2. /\ prompts' \in [Prompts -> PromptRow]
      /\ \A q \in Prompts : prompts'[q] = IF q = p THEN row ELSE prompts[q]
  BY <1>1 DEF ServerTrue, Edited
<1>3. PICK gone : gone = FactsOf(prompts) \ FactsOf(prompts')
  OBVIOUS
<1>4. ceased' = [f \in Facts |-> IF f \in gone THEN now ELSE ceased[f]]
  BY <1>3 DEF Edited
<1>5. ceased' \in [Facts -> Int]
  BY <1>1, <1>4 DEF ServerTrue
<1>6. \A q \in Prompts : prompts[q].versions \subseteq prompts'[q].versions
  BY <1>2
<1>7. \A q \in Prompts : prompts'[q].published \subseteq prompts'[q].versions
  BY <1>1, <1>2 DEF ServerTrue
<1>8. DOMAIN edits' = Editors /\ \A f \in Editors : edits'[f] = IF f = e THEN edit ELSE edits[f]
  BY <1>1 DEF ServerTrue, EditGoesTo
<1>9. ASSUME NEW f \in Editors
      PROVE  EditTrue(edits[f])'
  <2>1. PICK x : x = edits'[f]
    OBVIOUS
  <2>2. CASE f = e
    <3>1. x = edit
      BY <1>8, <2>1, <2>2
    <3>2. EditTrue(x)'
      BY <1>6, <3>1 DEF EditTrue, Done, About
    <3> QED
      BY <2>1, <3>2
  <2>3. CASE f # e
    <3>1. EditTrue(x)
      BY <1>1, <1>8, <2>1, <2>3 DEF ServerTrue
    <3>2. EditTrue(x)'
      BY <1>6, <3>1 DEF EditTrue
    <3> QED
      BY <2>1, <3>2
  <2> QED
    BY <2>2, <2>3
<1>10. ServerTrue'
  BY <1>2, <1>5, <1>7, <1>8, <1>9 DEF ServerTrue
<1>11. ASSUME NEW f \in Facts, NEW t \in Int, t <= now, Since(f, t)
       PROVE  Since(f, t)'
  <2>1. ceased'[f] = IF f \in gone THEN now ELSE ceased[f]
    BY <1>4
  <2>2. CASE f \in gone
    BY <1>1, <1>11, <2>1, <2>2 DEF Since
  <2>3. CASE f \notin gone
    BY <1>3, <1>11, <2>1, <2>3 DEF Since
  <2> QED
    BY <2>2, <2>3
<1>12. Lasting
  BY <1>6, <1>11 DEF Lasting
<1> QED
  BY <1>1, <1>10, <1>12, PromptsChange

LEMMA PromptEditedKeeps ==
    ASSUME PromptInv, UNCHANGED now, NEW e \in Editors, NEW p \in Prompts, PromptEdited(e, p)
    PROVE  PromptInv'
<1>1. /\ prompts[p] \in PromptRow /\ prompts[p].published \subseteq prompts[p].versions
      /\ prompts[p].versions \subseteq Versions
  BY DEF PromptInv, ServerTrue, PromptRow
<1>2. CASE CreatePrompt(e, p, now)
  <2>1. PICK row : row = [prompts[p] EXCEPT !.exists = TRUE]
    OBVIOUS
  <2>2. row \in PromptRow /\ row.versions = prompts[p].versions /\ row.published = prompts[p].published
    BY <1>1, <2>1 DEF PromptRow
  <2> QED
    BY <1>1, <1>2, <2>1, <2>2, EditedKeeps DEF CreatePrompt
<1>3. CASE DeletePrompt(e, p, now)
  <2>1. PICK row : row = [prompts[p] EXCEPT !.exists = FALSE]
    OBVIOUS
  <2>2. row \in PromptRow /\ row.versions = prompts[p].versions /\ row.published = prompts[p].published
    BY <1>1, <2>1 DEF PromptRow
  <2> QED
    BY <1>1, <1>3, <2>1, <2>2, EditedKeeps DEF DeletePrompt
<1>4. ASSUME NEW v \in Versions, NEW isPublished \in BOOLEAN, CreateVersion(e, p, v, isPublished, now)
      PROVE  PromptInv'
  <2>1. PICK versions, published :
           /\ versions = prompts[p].versions \cup {v}
           /\ published = IF isPublished THEN prompts[p].published \cup {v} ELSE prompts[p].published
    OBVIOUS
  <2>2. PICK row : row = [prompts[p] EXCEPT !.versions = versions, !.published = published]
    OBVIOUS
  <2>3. Edited(p, row, now) /\ EditGoesTo(e, Done)
    BY <1>4, <2>1, <2>2 DEF CreateVersion
  <2>4. row \in PromptRow /\ row.versions = versions /\ row.published = published
    BY <1>1, <2>1, <2>2 DEF PromptRow
  <2> QED
    BY <1>1, <2>1, <2>3, <2>4, EditedKeeps
<1>5. ASSUME NEW v \in Versions, NEW at \in {"rollback", "publish"}, v \in prompts[p].versions,
             UnpublishAll(p, now), EditGoesTo(e, About(at, p, v))
      PROVE  PromptInv'
  <2>1. PICK row : row = [prompts[p] EXCEPT !.published = {}]
    OBVIOUS
  <2>2. row \in PromptRow /\ row.versions = prompts[p].versions /\ row.published = {}
    BY <1>1, <2>1 DEF PromptRow
  <2> QED
    BY <1>5, <2>1, <2>2, EditedKeeps DEF UnpublishAll
<1> QED
  BY <1>2, <1>3, <1>4, <1>5 DEF PromptEdited, Rollback, PublishBegins

LEMMA PublishEndsKeeps ==
    ASSUME PromptInv, UNCHANGED now, NEW e \in Editors, PublishEnds(e, now)
    PROVE  PromptInv'
<1>1. PICK p, v : p = edits[e].prompt /\ v = edits[e].version
  OBVIOUS
<1>2. p \in Prompts /\ v \in prompts[p].versions
  BY <1>1 DEF PublishEnds, PromptInv, ServerTrue, EditTrue
<1>3. /\ prompts[p] \in PromptRow /\ prompts[p].published \subseteq prompts[p].versions
      /\ prompts[p].versions \subseteq Versions
  BY <1>2 DEF PromptInv, ServerTrue, PromptRow
<1>4. PICK published : published = prompts[p].published \cup {v}
  OBVIOUS
<1>5. PICK row : row = [prompts[p] EXCEPT !.published = published]
  OBVIOUS
<1>6. row \in PromptRow /\ row.versions = prompts[p].versions /\ row.published = published
  BY <1>2, <1>3, <1>4, <1>5 DEF PromptRow
<1>7. Edited(p, row, now) /\ EditGoesTo(e, Done)
  BY <1>1, <1>4, <1>5 DEF PublishEnds
<1> QED
  BY <1>2, <1>3, <1>4, <1>6, <1>7, EditedKeeps

\* The steps the prompt client and the prompt service see.
PromptStep ==
    \/ UNCHANGED <<now, promptVars>>
    \/ now' = now + 1 /\ ClientTimersAllow(now) /\ UNCHANGED promptVars
    \/ /\ UNCHANGED now
       /\ \/ \E r \in Renders, q \in RenderRequest : RenderBegins(r, q, now)
          \/ \E r \in Renders : PromptsRead(r) \/ FetchEnds(r) \/ RenderForgotten(r)
          \/ \E e \in Editors, p \in Prompts : PromptEdited(e, p)
          \/ \E e \in Editors : PublishEnds(e, now)

LEMMA PromptStepKeeps ==
    ASSUME PromptInv, PromptStep
    PROVE  PromptInv'
<1>1. ASSUME now' \in {now, now + 1}, UNCHANGED promptVars, now' = now \/ ClientTimersAllow(now)
      PROVE  PromptInv'
  <2>1. UNCHANGED <<prompts, edits, ceased, cache, renders>>
    BY <1>1 DEF promptVars
  <2>2. Lasting
    BY <2>1 DEF Lasting, Since
  <2>3. ServerTrue'
    BY <2>1 DEF PromptInv, ServerTrue, EditTrue
  <2> QED
    BY <1>1, <2>1, <2>2, <2>3, PromptsChange
<1>2. CASE UNCHANGED <<now, promptVars>>
  BY <1>1, <1>2
<1>3. CASE now' = now + 1 /\ ClientTimersAllow(now) /\ UNCHANGED promptVars
  BY <1>1, <1>3
<1>4. ASSUME UNCHANGED now, NEW r \in Renders, NEW q \in RenderRequest, RenderBegins(r, q, now)
      PROVE  PromptInv'
  BY <1>4, BeginsKeeps
<1>5. ASSUME UNCHANGED now, NEW r \in Renders, PromptsRead(r) \/ FetchEnds(r) \/ RenderForgotten(r)
      PROVE  PromptInv'
  BY <1>5, ReadKeeps, FetchedKeeps, FailsKeeps, ForgottenKeeps DEF FetchEnds
<1>6. ASSUME UNCHANGED now, NEW e \in Editors, NEW p \in Prompts, PromptEdited(e, p)
      PROVE  PromptInv'
  BY <1>6, PromptEditedKeeps
<1>7. ASSUME UNCHANGED now, NEW e \in Editors, PublishEnds(e, now)
      PROVE  PromptInv'
  BY <1>7, PublishEndsKeeps
<1> QED
  BY <1>2, <1>3, <1>4, <1>5, <1>6, <1>7 DEF PromptStep

LEMMA InitPrompts ==
    ASSUME now = 0, ClientInit
    PROVE  PromptInv
<1> USE ClientAssumption
<1>1. ServerTrue
  <2>1. ceased \in [Facts -> Int]
    BY DEF ClientInit, Never
  <2> QED
    BY <2>1 DEF ClientInit, ServerTrue, EditTrue
<1>2. CacheTrue(cache)
  BY DEF ClientInit, CacheTrue, OneEntryPerKey
<1>3. DOMAIN renders = Renders /\ \A r \in Renders : RenderTrue(renders[r])
  BY DEF ClientInit, RenderTrue
<1> QED
  BY <1>1, <1>2, <1>3 DEF PromptInv

LEMMA PromptsSound ==
    ASSUME PromptInv
    PROVE  ClientTypeOK /\ CacheSound /\ PromptIsRecent
<1>1. CacheTrue(cache)
  BY DEF PromptInv
<1>2. ClientTypeOK
  <2>1. \A r \in Renders : renders[r].at \in {"idle", "fetching", "done", "over"}
    BY DEF PromptInv, RenderTrue
  <2>2. \A e \in Editors : edits[e].at \in {"idle", "rollback", "publish", "done"}
    BY DEF PromptInv, ServerTrue, EditTrue
  <2> QED
    BY <1>1, <2>1, <2>2 DEF ClientTypeOK, PromptInv, ServerTrue, CacheTrue, CacheEntry
<1>3. CacheSound
  BY <1>1 DEF CacheSound, CacheTrue, OneEntryPerKey
<1>4. ASSUME NEW r \in Renders, renders[r].at = "done", renders[r].result.outcome = "rendered"
      PROVE  RenderedSince(renders[r].request, renders[r].result,
                           renders[r].when - 2 * Ttl - RequestTimeout)
  <2>1. RenderTrue(renders[r])
    BY DEF PromptInv
  <2> QED
    BY <1>4, <2>1 DEF RenderTrue, NotFound, Failed
<1>5. PromptIsRecent
  BY <1>4 DEF PromptIsRecent, RenderedSince, NameSince
<1> QED
  BY <1>2, <1>3, <1>5

\* Every step of the kernel is one of them: only a request of the workload renders a prompt.
LEMMA NextPrompts ==
    ASSUME workload \in Workloads, now \in Nat,
           \A r \in Requests : requests[r].at = "prompt" => r \in DOMAIN workload.requests,
           [Next]_vars
    PROVE  PromptStep
<1> USE KernelAssumption, WorkloadAssumption
<1>1. CASE UNCHANGED vars
  BY <1>1 DEF vars, serviceVars, PromptStep
<1>2. CASE StartMoves
  BY <1>2 DEF StartMoves, InitAnswered, ProvidersRegistered, serviceVars, PromptStep
<1>3. CASE ProvidersAsked
  BY <1>3 DEF ProvidersAsked, HealthAsked, PromptStep
<1>4. ASSUME NEW r \in Requests, Arrives(r) \/ HttpAnswers(r)
      PROVE  PromptStep
  BY <1>4 DEF Arrives, HttpAnswers, serviceVars, PromptStep
<1>5. ASSUME NEW r \in Requests, RequestMoves(r)
      PROVE  PromptStep
  <2>1. CASE PromptCompiles(r)
    <3>1. ASSUME NEW q \in Profile(r).render, RenderBegins(r, q, now)
          PROVE  PromptStep
      <4>1. r \in DOMAIN workload.requests
        BY <2>1 DEF PromptCompiles
      <4>2. q \in RenderRequest
        BY <3>1, <4>1 DEF Profile
      <4>3. r \in Renders /\ UNCHANGED now
        BY <2>1 DEF PromptCompiles, serviceVars
      <4> QED
        BY <3>1, <4>2, <4>3 DEF PromptStep
    <3>2. UNCHANGED now
      BY <2>1 DEF PromptCompiles, serviceVars
    <3> QED
      BY <2>1, <3>1, <3>2 DEF PromptCompiles, PromptStep
  <2>2. CASE PromptFetchEnds(r)
    BY <2>2 DEF PromptFetchEnds, serviceVars, PromptStep
  <2>3. CASE PromptCompiled(r)
    BY <2>3 DEF PromptCompiled, serviceVars, PromptStep
  <2> QED
    BY <1>5, <2>1, <2>2, <2>3
       DEF RequestMoves, MemoryLoads, MessagesListed, ListingFails, EngineBegins, LlmBegins, LlmAnswered,
           LlmFails, serviceVars, PromptStep
<1>6. ASSUME NEW r \in Requests, NEW n \in 1 .. LlmAttempts, LlmArrives(r, n)
      PROVE  PromptStep
  BY <1>6 DEF LlmArrives, CallArrives, PromptStep
<1>7. ASSUME NEW d \in Direct, DirectCalled(d) \/ DirectArrives(d)
      PROVE  PromptStep
  BY <1>7 DEF DirectCalled, DirectArrives, CallArrives, Unmoved, PromptStep
<1>8. ASSUME NEW c \in Calls, CallMoves(c)
      PROVE  PromptStep
  BY <1>8 DEF CallMoves, EmbedChecked, ProviderAnswers, ToolsWanted, ProviderFails, Stored, Unmoved, PromptStep
<1>9. CASE HealthMoves
  BY <1>9 DEF HealthMoves, HealthAsked, ProviderReplies, HealthTold, HealthTimesOut, Told, ProviderTurns,
              Unmoved, PromptStep
<1>10. CASE PromptsMove
  <2>1. UNCHANGED now
    BY <1>10 DEF PromptsMove, serviceVars
  <2> QED
    BY <1>10, <2>1 DEF PromptsMove, PromptStep
<1>11. CASE Tick
  BY <1>11 DEF Tick, ServiceTick, Unmoved, PromptStep
<1> QED
  BY <1>1, <1>2, <1>3, <1>4, <1>5, <1>6, <1>7, <1>8, <1>9, <1>10, <1>11 DEF Next

-----------------------------------------------------------------------------
(* The calls of the AI service keep their invariant.                       *)

LEMMA RoundsCount ==
    ASSUME NEW m \in Nat, NEW n \in Nat, NEW k \in Nat, m <= n
    PROVE  m * k \in Nat /\ m * k <= n * k /\ (m + 1) * k = m * k + k
<1>1. PICK d \in Nat : n = m + d
  <2>1. n - m \in Nat /\ n = m + (n - m)
    OBVIOUS
  <2> QED
    BY <2>1
<1>2. n * k = m * k + d * k /\ d * k \in Nat /\ m * k \in Nat
  BY <1>1
<1>3. (m + 1) * k = m * k + k
  OBVIOUS
<1> QED
  BY <1>2, <1>3

LEMMA AttemptsRange ==
    ASSUME NEW provider, NEW kind
    PROVE  /\ AttemptsOf(provider, kind) \in 1 .. RetryAttempts /\ RetryAttempts \in Nat \ {0}
           /\ AttemptsOf(provider, kind) \in Nat \ {0}
BY ServiceAssumption DEF AttemptsOf

\* A call that ends after n executions, within the attempts of its rounds.
LEMMA RoundsBound ==
    ASSUME NEW call, call.at \in Underway, CallTypeOK(call), Counted(call)
    PROVE  /\ call.executions \in Nat
           /\ call.executions <= (MaxToolExecutions + 1) * RetryAttempts
           /\ call.kind = "execute" => call.executions <= AttemptsOf(call.provider, "execute")
<1>1. /\ call.attempt \in Nat /\ call.rounds \in Nat /\ call.executions \in Nat
  BY DEF CallTypeOK, Underway
<1>2. /\ call.attempt \in 1 .. AttemptsOf(call.provider, call.kind)
      /\ call.rounds <= MaxToolExecutions
      /\ call.executions <= call.rounds * RetryAttempts + call.attempt
      /\ call.kind # "tools" => call.rounds = 0
  BY DEF Counted
<1>3. /\ AttemptsOf(call.provider, call.kind) \in 1 .. RetryAttempts /\ RetryAttempts \in Nat
      /\ MaxToolExecutions \in Nat
  BY AttemptsRange, ServiceAssumption
<1>4. /\ call.rounds * RetryAttempts \in Nat
      /\ call.rounds * RetryAttempts <= MaxToolExecutions * RetryAttempts
  BY <1>1, <1>2, <1>3, RoundsCount
<1>5. MaxToolExecutions * RetryAttempts \in Nat
      /\ (MaxToolExecutions + 1) * RetryAttempts = MaxToolExecutions * RetryAttempts + RetryAttempts
  BY <1>3, RoundsCount
<1>6. (MaxToolExecutions + 1) * RetryAttempts \in Nat
  BY <1>3, <1>5
<1>7. call.executions <= (MaxToolExecutions + 1) * RetryAttempts
  <2>1. PICK a \in Nat : a = call.rounds * RetryAttempts
    BY <1>4
  <2>2. PICK b \in Nat : b = MaxToolExecutions * RetryAttempts
    BY <1>5
  <2>3. PICK d \in Nat : d = (MaxToolExecutions + 1) * RetryAttempts
    BY <1>6
  <2>4. a <= b /\ d = b + RetryAttempts /\ call.executions <= a + call.attempt
    BY <1>2, <1>4, <1>5, <2>1, <2>2, <2>3
  <2>5. call.executions <= d
    BY <1>1, <1>2, <1>3, <2>4
  <2> QED
    BY <2>3, <2>5
<1>8. ASSUME call.kind = "execute"
      PROVE  call.executions <= AttemptsOf(call.provider, "execute")
  <2>1. call.rounds = 0
    BY <1>2, <1>8
  <2>2. call.rounds * RetryAttempts = 0
    BY <1>3, <2>1
  <2>3. call.executions <= 0 + call.attempt
    BY <1>2, <2>2
  <2>4. call.attempt <= AttemptsOf(call.provider, "execute") /\ AttemptsOf(call.provider, "execute") \in Nat
    BY <1>2, <1>3, <1>8
  <2> QED
    BY <1>1, <2>3, <2>4
<1> QED
  BY <1>1, <1>7, <1>8

LEMMA CallChanges ==
    ASSUME CallsInv, NEW c \in Calls, NEW call, calls' = [calls EXCEPT ![c] = call],
           CallTrue(call, rows'[c]), rows' \in [Calls -> Nat],
           \A d \in Calls \ {c} : rows'[d] = rows[d]
    PROVE  CallsInv'
<1>1. /\ DOMAIN calls' = Calls
      /\ \A d \in Calls : calls'[d] = IF d = c THEN call ELSE calls[d]
  BY DEF CallsInv
<1>2. \A d \in Calls : CallTrue(calls'[d], rows'[d])
  BY <1>1 DEF CallsInv
<1>3. \A d \in Calls : CallTrue(calls[d], rows[d])'
  BY <1>2 DEF CallTrue, CallTypeOK, Counted
<1> QED
  BY <1>1, <1>3 DEF CallsInv

\* A call's shape where it is.
LEMMA CallShape ==
    ASSUME NEW call, CallTypeOK(call)
    PROVE  /\ call.at \in {"idle", "sent"} => call = [at |-> call.at, executions |-> 0]
           /\ call.at \in Underway =>
                 /\ call = [at |-> call.at, kind |-> call.kind, provider |-> call.provider,
                            attempt |-> call.attempt, rounds |-> call.rounds,
                            executions |-> call.executions]
                 /\ call.kind \in CallKinds /\ call.provider \in Names
                 /\ call.attempt \in Nat /\ call.rounds \in Nat /\ call.executions \in Nat
           /\ call.at = "answered" =>
                 /\ call = [at |-> "answered", ok |-> call.ok, executions |-> call.executions]
                 /\ call.ok \in BOOLEAN /\ call.executions \in Nat
           /\ call.at \in {"idle", "sent", "answered"} \cup Underway
BY DEF CallTypeOK, Underway

LEMMA SentKeeps ==
    ASSUME CallsInv, NEW c \in Calls, calls[c].at = "idle", calls' = CallSent(c), UNCHANGED rows
    PROVE  CallsInv' /\ calls' = [calls EXCEPT ![c] = [at |-> "sent", executions |-> 0]]
<1>1. CallTrue(calls[c], rows[c])
  BY DEF CallsInv
<1>2. calls[c] = [at |-> "idle", executions |-> 0]
  BY <1>1, CallShape DEF CallTrue
<1>3. PICK call : call = [at |-> "sent", executions |-> 0]
  OBVIOUS
<1>4. [calls[c] EXCEPT !.at = "sent"] = call
  BY <1>2, <1>3
<1>5. calls' = [calls EXCEPT ![c] = call]
  <2>1. calls' = [calls EXCEPT ![c] = [calls[c] EXCEPT !.at = "sent"]]
    BY DEF CallSent
  <2> QED
    BY <1>4, <2>1
<1>6. CallTrue(call, rows[c])
  BY <1>1, <1>2, <1>3 DEF CallTrue, CallTypeOK, Underway
<1>7. CallsInv'
  BY <1>5, <1>6, CallChanges DEF CallsInv
<1> QED
  BY <1>3, <1>5, <1>7

\* What a call that arrives is next.
Arrived(kind, provider, call) ==
    \/ call.at \in Underway /\ call.kind = kind /\ call.provider = provider
    \/ call.at = "answered" /\ ~call.ok /\ call.executions = 0

LEMMA ArrivesKeeps ==
    ASSUME CallsInv, NEW c \in Calls, NEW kind \in CallKinds, NEW provider \in Names, NEW hasModel,
           CallArrives(c, kind, provider, hasModel)
    PROVE  /\ CallsInv' /\ calls[c].at = "sent"
           /\ \E call : calls' = [calls EXCEPT ![c] = call] /\ Arrived(kind, provider, call)
<1> USE ServiceAssumption
<1>1. /\ CallTrue(calls[c], rows[c]) /\ rows' = rows /\ calls[c].at = "sent"
      /\ rows \in [Calls -> Nat]
  BY DEF CallsInv, CallArrives
<1>2. calls[c] = [at |-> "sent", executions |-> 0] /\ rows[c] = 0
  BY <1>1, CallShape DEF CallTrue
<1>3. SUFFICES ASSUME NEW call, calls' = [calls EXCEPT ![c] = call], CallTrue(call, 0),
                      Arrived(kind, provider, call)
               PROVE  CallsInv'
  <2>1. PICK n : n = (MaxToolExecutions + 1) * RetryAttempts
    OBVIOUS
  <2>2. n \in Nat
    BY <2>1
  <2>3. CASE Refused(kind, provider, hasModel)
    <3>1. PICK call : call = [at |-> "answered", ok |-> FALSE, executions |-> 0]
      OBVIOUS
    <3>2. calls' = [calls EXCEPT ![c] = call]
      BY <1>2, <2>3, <3>1 DEF CallArrives, CallEnds
    <3>3. CallTrue(call, 0)
      BY <2>1, <2>2, <3>1 DEF CallTrue, CallTypeOK, Underway
    <3>4. Arrived(kind, provider, call)
      BY <3>1 DEF Arrived
    <3> QED
      BY <1>1, <1>3, <3>2, <3>3, <3>4
  <2>4. CASE ~Refused(kind, provider, hasModel)
    <3>1. /\ AttemptsOf(provider, kind) \in Nat /\ 1 <= AttemptsOf(provider, kind)
      BY AttemptsRange
    <3>2. CASE kind = "embed"
      <4>1. PICK call : call = [at |-> "checked", kind |-> kind, provider |-> provider, attempt |-> 1,
                                rounds |-> 0, executions |-> 0]
        OBVIOUS
      <4>2. calls' = [calls EXCEPT ![c] = call]
        BY <1>2, <2>4, <3>2, <4>1 DEF CallArrives
      <4>3. 0 * RetryAttempts = 0
        OBVIOUS
      <4>4. CallTrue(call, 0)
        BY <3>1, <4>1, <4>3 DEF CallTrue, CallTypeOK, Counted, Underway
      <4>5. Arrived(kind, provider, call)
        BY <4>1 DEF Arrived, Underway
      <4> QED
        BY <1>1, <1>3, <4>2, <4>4, <4>5
    <3>3. CASE kind # "embed"
      <4>1. PICK call : call = [at |-> "asked", kind |-> kind, provider |-> provider, attempt |-> 1,
                                rounds |-> 0, executions |-> 1]
        OBVIOUS
      <4>2. calls' = [calls EXCEPT ![c] = call]
        BY <1>2, <2>4, <3>3, <4>1 DEF CallArrives, ExecutionBegins
      <4>3. 0 * RetryAttempts = 0
        OBVIOUS
      <4>4. CallTrue(call, 0)
        BY <3>1, <4>1, <4>3 DEF CallTrue, CallTypeOK, Counted, Underway
      <4>5. Arrived(kind, provider, call)
        BY <4>1 DEF Arrived, Underway
      <4> QED
        BY <1>1, <1>3, <4>2, <4>4, <4>5
    <3> QED
      BY <3>2, <3>3
  <2> QED
    BY <2>3, <2>4
<1> QED
  BY <1>1, <1>2, <1>3, CallChanges

\* What a call under way is next: under way for the same provider, or answered.
Moved(call, next) ==
    /\ call.at \in Underway
    /\ \/ next.at \in Underway /\ next.kind = call.kind /\ next.provider = call.provider
       \/ next.at = "answered" /\ next.executions = call.executions

\* A call under way is answered, with success only when a provider has been asked.
LEMMA EndKeeps ==
    ASSUME CallsInv, NEW c \in Calls, calls[c].at \in Underway, NEW ok \in BOOLEAN,
           ok => calls[c].at # "checked", CallEnds(c, ok),
           rows' \in [Calls -> Nat], \A d \in Calls \ {c} : rows'[d] = rows[d],
           rows'[c] \in 0 .. 1, rows'[c] > 0 => ok
    PROVE  CallsInv' /\ \E call : calls' = [calls EXCEPT ![c] = call] /\ Moved(calls[c], call)
<1>1. CallTypeOK(calls[c]) /\ Counted(calls[c])
  BY DEF CallsInv, CallTrue
<1>2. PICK call : call = [at |-> "answered", ok |-> ok, executions |-> calls[c].executions]
  OBVIOUS
<1>3. calls' = [calls EXCEPT ![c] = call]
  BY <1>2 DEF CallEnds
<1>4. /\ calls[c].executions \in Nat
      /\ calls[c].executions <= (MaxToolExecutions + 1) * RetryAttempts
  BY <1>1, RoundsBound
<1>5. ok => calls[c].executions > 0
  BY <1>1 DEF Counted
<1>6. PICK n : n = (MaxToolExecutions + 1) * RetryAttempts
  OBVIOUS
<1>7. CallTrue(call, rows'[c])
  <2>1. call \in [at : {"answered"}, ok : BOOLEAN, executions : Nat]
    BY <1>2, <1>4
  <2>2. call.executions <= (MaxToolExecutions + 1) * RetryAttempts
    BY <1>2, <1>4
  <2>3. call.at = "answered" /\ call.ok = ok /\ (ok => call.executions > 0)
    BY <1>2, <1>5
  <2> QED
    BY <2>1, <2>2, <2>3 DEF CallTrue, CallTypeOK, Underway
<1>8. Moved(calls[c], call)
  BY <1>2 DEF Moved
<1> QED
  BY <1>3, <1>7, <1>8, CallChanges

\* A call under way stays under way.
LEMMA GoesOnKeeps ==
    ASSUME CallsInv, NEW c \in Calls, calls[c].at \in Underway, UNCHANGED rows,
           NEW at \in Underway, NEW attempt \in Nat, NEW rounds \in Nat, NEW executions \in Nat,
           NEW next, next = [calls[c] EXCEPT !.at = at, !.attempt = attempt, !.rounds = rounds,
                                             !.executions = executions],
           calls' = [calls EXCEPT ![c] = next],
           attempt \in 1 .. AttemptsOf(calls[c].provider, calls[c].kind),
           rounds <= MaxToolExecutions, calls[c].kind # "tools" => rounds = 0,
           executions <= rounds * RetryAttempts + attempt,
           at # "checked", executions > 0
    PROVE  CallsInv' /\ \E call : calls' = [calls EXCEPT ![c] = call] /\ Moved(calls[c], call)
<1>1. CallTypeOK(calls[c]) /\ CallTrue(calls[c], rows[c])
  BY DEF CallsInv, CallTrue
<1>2. /\ calls[c] = [at |-> calls[c].at, kind |-> calls[c].kind, provider |-> calls[c].provider,
                     attempt |-> calls[c].attempt, rounds |-> calls[c].rounds,
                     executions |-> calls[c].executions]
      /\ calls[c].kind \in CallKinds /\ calls[c].provider \in Names
  BY <1>1, CallShape
<1>3. next = [at |-> at, kind |-> calls[c].kind, provider |-> calls[c].provider,
              attempt |-> attempt, rounds |-> rounds, executions |-> executions]
  BY <1>2
<1>4. CallTypeOK(next)
  BY <1>2, <1>3 DEF CallTypeOK
<1>5. Counted(next)
  <2>1. /\ next.attempt = attempt /\ next.rounds = rounds /\ next.executions = executions
        /\ next.provider = calls[c].provider /\ next.kind = calls[c].kind /\ next.at = at
    BY <1>3
  <2>2. next.executions <= next.rounds * RetryAttempts + next.attempt
    BY <2>1
  <2> QED
    BY <2>1, <2>2 DEF Counted
<1>6. rows[c] = 0 /\ rows' \in [Calls -> Nat] /\ \A d \in Calls \ {c} : rows'[d] = rows[d]
  BY <1>1 DEF CallTrue, CallsInv, Underway
<1>7. CallTrue(next, rows'[c])
  BY <1>3, <1>4, <1>5, <1>6 DEF CallTrue, Underway
<1>8. Moved(calls[c], next)
  BY <1>3 DEF Moved
<1> QED
  BY <1>6, <1>7, <1>8, CallChanges

LEMMA MoveKeeps ==
    ASSUME CallsInv, NEW c \in Calls,
           EmbedChecked(c) \/ ProviderAnswers(c) \/ ToolsWanted(c) \/ ProviderFails(c) \/ Stored(c)
    PROVE  CallsInv' /\ \E call : calls' = [calls EXCEPT ![c] = call] /\ Moved(calls[c], call)
<1> DEFINE Goal == CallsInv' /\ \E call : calls' = [calls EXCEPT ![c] = call] /\ Moved(calls[c], call)
<1>1. calls[c].at \in Underway /\ CallTrue(calls[c], rows[c])
  BY DEF EmbedChecked, ProviderAnswers, ToolsWanted, ProviderFails, Stored, Underway, CallsInv
<1>2. CallTypeOK(calls[c]) /\ Counted(calls[c])
  BY <1>1 DEF CallTrue
<1>3. /\ calls[c] = [at |-> calls[c].at, kind |-> calls[c].kind, provider |-> calls[c].provider,
                     attempt |-> calls[c].attempt, rounds |-> calls[c].rounds,
                     executions |-> calls[c].executions]
      /\ calls[c].attempt \in Nat /\ calls[c].rounds \in Nat /\ calls[c].executions \in Nat
  BY <1>1, <1>2, CallShape
<1>4. /\ rows[c] = 0 /\ rows \in [Calls -> Nat]
      /\ calls[c].attempt \in 1 .. AttemptsOf(calls[c].provider, calls[c].kind)
      /\ calls[c].rounds <= MaxToolExecutions
      /\ calls[c].kind # "tools" => calls[c].rounds = 0
      /\ calls[c].executions <= calls[c].rounds * RetryAttempts + calls[c].attempt
      /\ calls[c].at = "checked" => calls[c].executions = 0
      /\ calls[c].at # "checked" => calls[c].executions > 0
  BY <1>1, <1>2 DEF CallTrue, Counted, CallsInv, Underway
<1>5. /\ AttemptsOf(calls[c].provider, calls[c].kind) \in 1 .. RetryAttempts
      /\ RetryAttempts \in Nat /\ MaxToolExecutions \in Nat
      /\ AttemptsOf(calls[c].provider, calls[c].kind) \in Nat
  BY AttemptsRange, ServiceAssumption
<1>6. ASSUME NEW ok \in BOOLEAN, ok => calls[c].at # "checked", CallEnds(c, ok), UNCHANGED rows
      PROVE  Goal
  BY <1>1, <1>4, <1>6, EndKeeps
<1>7. CASE EmbedChecked(c)
  <2>1. calls[c].at = "checked" /\ UNCHANGED rows
    BY <1>7 DEF EmbedChecked
  <2>2. CASE CallEnds(c, FALSE)
    BY <1>6, <2>1, <2>2
  <2>3. CASE ExecutionBegins(c, [calls[c] EXCEPT !.at = "asked"])
    <3>1. PICK next : next = [calls[c] EXCEPT !.at = "asked", !.attempt = calls[c].attempt,
                                              !.rounds = calls[c].rounds,
                                              !.executions = calls[c].executions + 1]
      OBVIOUS
    <3>2. [[calls[c] EXCEPT !.at = "asked"] EXCEPT !.executions = @ + 1] = next
      BY <1>3, <3>1
    <3>3. calls' = [calls EXCEPT ![c] = next]
      BY <2>3, <3>2 DEF ExecutionBegins
    <3>4. calls[c].executions = 0 /\ calls[c].rounds * RetryAttempts \in Nat
      BY <1>3, <1>4, <1>5, <2>1, RoundsCount
    <3>5. calls[c].executions + 1 <= calls[c].rounds * RetryAttempts + calls[c].attempt
      <4>1. PICK a \in Nat : a = calls[c].rounds * RetryAttempts
        BY <3>4
      <4>2. calls[c].executions + 1 <= a + calls[c].attempt
        BY <1>4, <1>5, <3>4
      <4> QED
        BY <4>1, <4>2
    <3>6. calls[c].executions + 1 \in Nat /\ calls[c].executions + 1 > 0 /\ "asked" \in Underway
      BY <3>4 DEF Underway
    <3> QED
      BY <1>1, <1>3, <1>4, <2>1, <3>1, <3>3, <3>5, <3>6, GoesOnKeeps
  <2> QED
    BY <1>7, <2>2, <2>3 DEF EmbedChecked
<1>8. CASE ProviderAnswers(c)
  <2>1. calls[c].at = "asked" /\ UNCHANGED rows
    BY <1>8 DEF ProviderAnswers
  <2>2. CASE calls[c].kind = "execute"
    <3>1. PICK next : next = [calls[c] EXCEPT !.at = "storing", !.attempt = calls[c].attempt,
                                              !.rounds = calls[c].rounds,
                                              !.executions = calls[c].executions]
      OBVIOUS
    <3>2. [calls[c] EXCEPT !.at = "storing"] = next
      BY <1>3, <3>1
    <3>3. calls' = [calls EXCEPT ![c] = next]
      <4>1. calls' = [calls EXCEPT ![c] = [calls[c] EXCEPT !.at = "storing"]]
        BY <1>8, <2>2 DEF ProviderAnswers
      <4> QED
        BY <3>2, <4>1
    <3>4. "storing" \in Underway
      BY DEF Underway
    <3> QED
      BY <1>1, <1>3, <1>4, <2>1, <3>1, <3>3, <3>4, GoesOnKeeps
  <2>3. CASE calls[c].kind # "execute"
    BY <1>6, <1>8, <2>1, <2>3 DEF ProviderAnswers
  <2> QED
    BY <2>2, <2>3
<1>9. CASE ToolsWanted(c)
  <2>1. /\ calls[c].at = "asked" /\ calls[c].kind = "tools" /\ UNCHANGED rows
        /\ calls[c].rounds < MaxToolExecutions
    BY <1>9 DEF ToolsWanted
  <2>2. PICK next : next = [calls[c] EXCEPT !.at = "asked", !.attempt = 1,
                                            !.rounds = calls[c].rounds + 1,
                                            !.executions = calls[c].executions + 1]
    OBVIOUS
  <2>3. [[calls[c] EXCEPT !.rounds = @ + 1, !.attempt = 1] EXCEPT !.executions = @ + 1] = next
    BY <1>3, <2>1, <2>2
  <2>4. calls' = [calls EXCEPT ![c] = next]
    BY <1>9, <2>3 DEF ToolsWanted, ExecutionBegins
  <2>5. /\ calls[c].rounds * RetryAttempts \in Nat
        /\ (calls[c].rounds + 1) * RetryAttempts = calls[c].rounds * RetryAttempts + RetryAttempts
    BY <1>3, <1>4, <1>5, RoundsCount
  <2>6. calls[c].executions + 1 <= (calls[c].rounds + 1) * RetryAttempts + 1
    <3>1. PICK a \in Nat : a = calls[c].rounds * RetryAttempts
      BY <2>5
    <3>2. calls[c].executions + 1 <= a + RetryAttempts + 1
      BY <1>3, <1>4, <1>5, <3>1
    <3> QED
      BY <2>5, <3>1, <3>2
  <2>7. /\ calls[c].rounds + 1 \in Nat /\ calls[c].executions + 1 \in Nat
        /\ calls[c].rounds + 1 <= MaxToolExecutions /\ calls[c].executions + 1 > 0
        /\ 1 \in 1 .. AttemptsOf(calls[c].provider, calls[c].kind) /\ "asked" \in Underway
    BY <1>3, <1>5, <2>1 DEF Underway
  <2> QED
    BY <1>1, <2>1, <2>2, <2>4, <2>6, <2>7, GoesOnKeeps
<1>10. CASE ProviderFails(c)
  <2>1. calls[c].at = "asked" /\ UNCHANGED rows
    BY <1>10 DEF ProviderFails
  <2>2. CASE calls[c].attempt < AttemptsOf(calls[c].provider, calls[c].kind)
    <3>1. PICK next : next = [calls[c] EXCEPT !.at = "asked", !.attempt = calls[c].attempt + 1,
                                              !.rounds = calls[c].rounds,
                                              !.executions = calls[c].executions + 1]
      OBVIOUS
    <3>2. [[calls[c] EXCEPT !.attempt = @ + 1] EXCEPT !.executions = @ + 1] = next
      BY <1>3, <2>1, <3>1
    <3>3. calls' = [calls EXCEPT ![c] = next]
      BY <1>10, <2>2, <3>2 DEF ProviderFails, ExecutionBegins
    <3>4. calls[c].rounds * RetryAttempts \in Nat
      BY <1>3, <1>4, <1>5, RoundsCount
    <3>5. calls[c].executions + 1 <= calls[c].rounds * RetryAttempts + (calls[c].attempt + 1)
      <4>1. PICK a \in Nat : a = calls[c].rounds * RetryAttempts
        BY <3>4
      <4>2. calls[c].executions <= a + calls[c].attempt
        BY <1>4, <4>1
      <4>3. calls[c].executions + 1 <= a + (calls[c].attempt + 1)
        BY <1>3, <4>2
      <4> QED
        BY <4>1, <4>3
    <3>6. /\ calls[c].attempt + 1 \in Nat /\ calls[c].executions + 1 \in Nat
          /\ calls[c].attempt + 1 \in 1 .. AttemptsOf(calls[c].provider, calls[c].kind)
          /\ calls[c].executions + 1 > 0 /\ "asked" \in Underway
      BY <1>3, <1>5, <2>2 DEF Underway
    <3>7. /\ calls[c].at \in Underway /\ calls[c].rounds \in Nat
          /\ calls[c].rounds <= MaxToolExecutions
          /\ calls[c].kind # "tools" => calls[c].rounds = 0
      BY <1>3, <1>4, <2>1 DEF Underway
    <3> QED
      BY <1>1, <2>1, <3>1, <3>3, <3>5, <3>6, <3>7, GoesOnKeeps
  <2>3. CASE ~(calls[c].attempt < AttemptsOf(calls[c].provider, calls[c].kind))
    BY <1>6, <1>10, <2>1, <2>3 DEF ProviderFails
  <2> QED
    BY <2>2, <2>3
<1>11. CASE Stored(c)
  <2>1. /\ calls[c].at = "storing" /\ CallEnds(c, TRUE)
        /\ rows' \in {rows, [rows EXCEPT ![c] = @ + 1]}
    BY <1>11 DEF Stored
  <2>2. /\ rows' \in [Calls -> Nat] /\ \A d \in Calls \ {c} : rows'[d] = rows[d]
        /\ rows'[c] \in 0 .. 1
    BY <1>4, <2>1
  <2> QED
    BY <1>1, <2>1, <2>2, EndKeeps
<1> QED
  BY <1>7, <1>8, <1>9, <1>10, <1>11

LEMMA CallsSound ==
    ASSUME CallsInv
    PROVE  CallsAreBounded
<1>1. ASSUME NEW c \in Calls
      PROVE  /\ calls[c].executions <= (MaxToolExecutions + 1) * RetryAttempts
             /\ rows[c] <= 1
             /\ rows[c] > 0 => calls[c].at = "answered" /\ calls[c].ok /\ calls[c].executions > 0
  <2>1. CallTrue(calls[c], rows[c]) /\ rows[c] \in Nat
    BY DEF CallsInv
  <2>2. calls[c].at \in {"idle", "sent", "answered"} \cup Underway
    BY <2>1, CallShape DEF CallTrue
  <2>3. calls[c].executions <= (MaxToolExecutions + 1) * RetryAttempts
    <3>1. CASE calls[c].at \in {"idle", "sent"}
      <4>1. calls[c].executions = 0
        <5>1. calls[c] = [at |-> calls[c].at, executions |-> 0]
          BY <2>1, <3>1, CallShape DEF CallTrue
        <5> QED
          BY <5>1
      <4>2. (MaxToolExecutions + 1) * RetryAttempts \in Nat
        BY ServiceAssumption
      <4> QED
        BY <4>1, <4>2
    <3>2. CASE calls[c].at = "answered"
      BY <2>1, <3>2 DEF CallTrue
    <3>3. CASE calls[c].at \in Underway
      BY <2>1, <3>3, RoundsBound DEF CallTrue
    <3> QED
      BY <2>2, <3>1, <3>2, <3>3
  <2> QED
    BY <2>1, <2>3 DEF CallTrue
<1> QED
  BY <1>1 DEF CallsAreBounded

-----------------------------------------------------------------------------
(* The kernel and its requests keep their invariant.                       *)

LEMMA AwaitedModules ==
    ASSUME NEW i \in 1 .. Len(Awaited)
    PROVE  /\ Len(Awaited) \in Nat \ {0}
           /\ Awaited[i] = "Provider" => i + 1 \in 1 .. Len(Awaited)
BY DEF Awaited

\* Steps that leave a request and its calls alone: the kernel may make progress, and what
\* is registered may change as long as it has not started.
LEMMA RequestKept ==
    ASSUME RequestsInv, NEW r \in Requests, requests'[r] = requests[r],
           \A n \in 1 .. LlmAttempts : calls'[<<r, n>>] = calls[<<r, n>>],
           UNCHANGED workload,
           kernel.at = "started" => kernel'.at = "started" /\ UNCHANGED registered,
           r \in starter' /\ kernel'.at = "starting" => r \in starter /\ kernel.at = "starting"
    PROVE  RequestSound(r)' /\ CallsOfSound(r)'
<1>1. RequestSound(r) /\ CallsOfSound(r)
  BY DEF RequestsInv
<1>2. UNCHANGED Profile(r)
  BY DEF Profile
<1>3. CallsOfSound(r)'
  BY <1>1, <1>2 DEF CallsOfSound
<1>4. (requests[r].at = "answered" /\ requests[r].success) =>
         \E c \in CallsOf(r) : calls'[c].at = "answered" /\ calls'[c].ok
  BY <1>1 DEF RequestSound, CallsOf
<1>5. RequestSound(r)'
  BY <1>1, <1>2, <1>4 DEF RequestSound, RequestTypeOK, CallsOf
<1> QED
  BY <1>3, <1>5

\* A request goes from one place to the next while it has made no calls yet.
LEMMA RequestGoes ==
    ASSUME RequestsInv, UNCHANGED <<kernelOnly, calls>>, NEW r \in Requests, NEW request,
           requests' = [requests EXCEPT ![r] = request],
           requests[r].at \notin {"idle", "starting", "waiting", "answered"},
           \/ request \in [at : Places \ {"waiting"}, attempt : Nat]
           \/ request \in [at : {"answered"}, attempt : Nat, success : {FALSE}],
           request.at \in {"tool", "llm"} => kernel.at = "started"
    PROVE  RequestsInv'
<1>1. /\ UNCHANGED <<kernel, starter, registered, workload, calls>>
      /\ DOMAIN requests' = Requests
      /\ \A q \in Requests : requests'[q] = IF q = r THEN request ELSE requests[q]
  BY DEF kernelOnly, RequestsInv
<1>2. StartSound'
  BY <1>1 DEF RequestsInv, StartSound, Awaited
<1>3. RequestSound(r) /\ CallsOfSound(r)
  BY DEF RequestsInv
<1>4. request.at # "waiting" /\ RequestTypeOK(request)
      /\ (request.at = "answered" => request.success = FALSE)
  BY DEF RequestTypeOK, Places
<1>5. \A n \in 1 .. LlmAttempts : calls[<<r, n>>].at = "idle"
  BY <1>3 DEF CallsOfSound
<1>6. RequestSound(r)'
  BY <1>1, <1>3, <1>4 DEF RequestSound, RequestTypeOK
<1>7. CallsOfSound(r)'
  BY <1>1, <1>4, <1>5 DEF CallsOfSound, Underway
<1>8. ASSUME NEW q \in Requests, q # r
      PROVE  RequestSound(q)' /\ CallsOfSound(q)'
  BY <1>1, <1>8, RequestKept
<1> QED
  BY <1>1, <1>2, <1>6, <1>7, <1>8 DEF RequestsInv

\* Of the calls of the requests one changes, which had been made and not answered.
LEMMA RequestsKept ==
    ASSUME RequestsInv, UNCHANGED kernelVars, NEW c \in Calls, NEW call,
           DOMAIN calls = Calls, calls' = [calls EXCEPT ![c] = call],
           calls[c].at \notin {"idle", "answered"},
           \A r \in Requests : \A n \in 1 .. LlmAttempts : c = <<r, n>> =>
              \/ call.at \in Underway /\ call.kind = "execute" /\ call.provider = Profile(r).provider
              \/ call.at = "answered" /\ call.executions <= AttemptsOf(Profile(r).provider, "execute")
    PROVE  RequestsInv'
<1>1. /\ UNCHANGED <<kernel, starter, registered, workload, requests>>
      /\ \A d \in Calls : calls'[d] = IF d = c THEN call ELSE calls[d]
  BY DEF kernelVars
<1>2. StartSound'
  BY <1>1 DEF RequestsInv, StartSound, Awaited
<1>3. ASSUME NEW r \in Requests
      PROVE  RequestSound(r)' /\ CallsOfSound(r)'
  <2>1. RequestSound(r) /\ CallsOfSound(r) /\ UNCHANGED Profile(r)
    BY <1>1 DEF RequestsInv, Profile
  <2>2. \A n \in 1 .. LlmAttempts : <<r, n>> \in Calls
    BY KernelAssumption
  <2>3. ASSUME requests[r].at = "answered" /\ requests[r].success
        PROVE  \E d \in CallsOf(r) : calls'[d].at = "answered" /\ calls'[d].ok
    <3>1. PICK d \in CallsOf(r) : calls[d].at = "answered" /\ calls[d].ok
      BY <2>1, <2>3 DEF RequestSound
    <3>2. d # c /\ d \in Calls
      BY <2>2, <3>1 DEF CallsOf
    <3>3. calls'[d] = calls[d]
      BY <1>1, <3>2
    <3> QED
      BY <3>1, <3>3
  <2>4. RequestSound(r)'
    BY <1>1, <2>1, <2>3 DEF RequestSound, RequestTypeOK, CallsOf
  <2>5. ASSUME NEW n \in 1 .. LlmAttempts
        PROVE  LET new == calls'[<<r, n>>]
               IN  /\ requests[r].at \notin {"waiting", "answered"} => new.at = "idle"
                   /\ requests[r].at = "waiting" /\ n > requests[r].attempt => new.at = "idle"
                   /\ new.at # "idle" => kernel.at = "started" /\ Profile(r).provider \in registered
                   /\ new.at \in Underway => new.kind = "execute" /\ new.provider = Profile(r).provider
                   /\ new.at = "answered" => new.executions <= AttemptsOf(Profile(r).provider, "execute")
    <3>1. CASE <<r, n>> # c
      <4>1. calls'[<<r, n>>] = calls[<<r, n>>]
        BY <1>1, <2>2, <3>1
      <4> QED
        BY <2>1, <4>1 DEF CallsOfSound
    <3>2. CASE <<r, n>> = c
      <4>1. /\ calls'[<<r, n>>] = call /\ calls[<<r, n>>].at # "idle"
            /\ \/ call.at \in Underway /\ call.kind = "execute" /\ call.provider = Profile(r).provider
               \/ call.at = "answered" /\ call.executions <= AttemptsOf(Profile(r).provider, "execute")
        BY <1>1, <3>2
      <4> QED
        BY <2>1, <4>1 DEF CallsOfSound, Underway
    <3> QED
      BY <3>1, <3>2
  <2>6. CallsOfSound(r)'
    BY <1>1, <2>1, <2>5 DEF CallsOfSound
  <2> QED
    BY <2>4, <2>6
<1> QED
  BY <1>1, <1>2, <1>3 DEF RequestsInv

\* A request waits for its next call, which is sent.
LEMMA RequestSends ==
    ASSUME RequestsInv, CallsInv, UNCHANGED kernelOnly, NEW r \in Requests, NEW k \in 1 .. LlmAttempts,
           \/ k = 1 /\ requests[r].at = "llm" /\ Profile(r).provider \in registered
           \/ requests[r].at = "waiting" /\ k = requests[r].attempt + 1,
           Attempts(r, "waiting", k), calls' = CallSent(<<r, k>>), UNCHANGED rows
    PROVE  RequestsInv' /\ CallsInv'
<1>1. RequestSound(r) /\ CallsOfSound(r)
  BY DEF RequestsInv
<1>2. /\ requests[r].at = "waiting" => requests[r].attempt \in 1 .. LlmAttempts
      /\ kernel.at = "started" /\ Profile(r).provider \in registered
      /\ LlmAttempts \in Nat
  BY <1>1, KernelAssumption DEF RequestSound
<1>3. <<r, k>> \in Calls /\ calls[<<r, k>>].at = "idle"
  <2>1. k > requests[r].attempt \/ requests[r].at = "llm"
    BY <1>2
  <2> QED
    BY <1>1, <2>1, KernelAssumption DEF CallsOfSound
<1>4. /\ CallsInv'
      /\ calls' = [calls EXCEPT ![<<r, k>>] = [at |-> "sent", executions |-> 0]]
  BY <1>3, SentKeeps
<1>5. \A d \in Calls : calls'[d] = IF d = <<r, k>> THEN [at |-> "sent", executions |-> 0] ELSE calls[d]
  BY <1>3, <1>4 DEF CallsInv
<1>6. /\ UNCHANGED <<kernel, starter, registered, workload>> /\ UNCHANGED Profile(r)
      /\ DOMAIN requests' = Requests
      /\ \A q \in Requests : requests'[q] = IF q = r THEN [at |-> "waiting", attempt |-> k]
                                            ELSE requests[q]
  BY DEF kernelOnly, RequestsInv, Attempts, Profile
<1>7. StartSound'
  BY <1>6 DEF RequestsInv, StartSound, Awaited
<1>8. \A q \in Requests : \A n \in 1 .. LlmAttempts : <<q, n>> \in Calls
  BY KernelAssumption
<1>9. RequestSound(r)'
  BY <1>1, <1>2, <1>6 DEF RequestSound, RequestTypeOK, Places
<1>10. ASSUME NEW n \in 1 .. LlmAttempts
       PROVE  LET new == calls'[<<r, n>>]
              IN  /\ n > k => new.at = "idle"
                  /\ new.at \in Underway => new.kind = "execute" /\ new.provider = Profile(r).provider
                  /\ new.at = "answered" => new.executions <= AttemptsOf(Profile(r).provider, "execute")
  <2>1. CASE n = k
    BY <1>5, <1>8, <2>1 DEF Underway
  <2>2. CASE n # k
    <3>1. calls'[<<r, n>>] = calls[<<r, n>>]
      BY <1>5, <1>8, <2>2
    <3>2. n > k => calls[<<r, n>>].at = "idle"
      BY <1>1, <1>2 DEF CallsOfSound
    <3> QED
      BY <1>1, <3>1, <3>2 DEF CallsOfSound
  <2> QED
    BY <2>1, <2>2
<1>11. CallsOfSound(r)'
  BY <1>2, <1>6, <1>10 DEF CallsOfSound
<1>12. ASSUME NEW q \in Requests, q # r
       PROVE  RequestSound(q)' /\ CallsOfSound(q)'
  <2>1. \A n \in 1 .. LlmAttempts : calls'[<<q, n>>] = calls[<<q, n>>]
    BY <1>5, <1>8, <1>12
  <2> QED
    BY <1>6, <1>12, <2>1, RequestKept
<1> QED
  BY <1>4, <1>6, <1>7, <1>9, <1>11, <1>12 DEF RequestsInv

\* Nothing of the kernel or of its requests changes.
LEMMA RequestsStay ==
    ASSUME RequestsInv, UNCHANGED <<kernelVars, calls>>
    PROVE  RequestsInv'
<1>1. UNCHANGED <<kernel, starter, registered, workload, requests, calls>>
  BY DEF kernelVars
<1>2. StartSound' /\ DOMAIN requests' = Requests
  BY <1>1 DEF RequestsInv, StartSound, Awaited
<1>3. ASSUME NEW r \in Requests
      PROVE  RequestSound(r)' /\ CallsOfSound(r)'
  BY <1>1, RequestKept
<1> QED
  BY <1>2, <1>3 DEF RequestsInv

LEMMA CallsStay ==
    ASSUME CallsInv, UNCHANGED <<calls, rows>>
    PROVE  CallsInv'
BY DEF CallsInv, CallTrue, CallTypeOK, Counted

LEMMA ArrivalKeeps ==
    ASSUME RequestsInv, NEW r \in Requests, Arrives(r)
    PROVE  RequestsInv'
<1>1. /\ requests[r].at = "idle" /\ r \in DOMAIN workload.requests
      /\ UNCHANGED <<workload, calls>>
      /\ RequestSound(r) /\ CallsOfSound(r) /\ StartSound
  BY DEF Arrives, RequestsInv, serviceVars
<1>2. requests[r].attempt \in Nat /\ requests[r] = [at |-> "idle", attempt |-> requests[r].attempt]
  BY <1>1 DEF RequestSound, RequestTypeOK
<1>3. \A n \in 1 .. LlmAttempts : calls[<<r, n>>].at = "idle"
  BY <1>1 DEF CallsOfSound
<1>4. ASSUME NEW at \in {"starting", "memory"}, Moves(r, at)
      PROVE  /\ DOMAIN requests' = Requests
             /\ \A q \in Requests :
                   requests'[q] = IF q = r THEN [at |-> at, attempt |-> requests[r].attempt]
                                  ELSE requests[q]
  <2>1. [requests[r] EXCEPT !.at = at] = [at |-> at, attempt |-> requests[r].attempt]
    BY <1>2
  <2>2. requests' = [requests EXCEPT ![r] = [requests[r] EXCEPT !.at = at]]
    BY <1>4 DEF Moves
  <2> QED
    BY <2>1, <2>2 DEF RequestsInv
<1>5. CASE kernel.at = "none"
  <2>1. /\ kernel' = [at |-> "starting", init |-> 1] /\ starter' = {r}
        /\ registered' \subseteq {"ollama"} /\ Moves(r, "starting")
    BY <1>5 DEF Arrives
  <2>2. StartSound'
    <3>1. 1 \in 0 .. Len(Awaited) /\ Len(Awaited)' = Len(Awaited)
      BY <1>1 DEF Awaited
    <3> QED
      BY <1>1, <2>1, <3>1 DEF StartSound
  <2>3. requests'[r] = [at |-> "starting", attempt |-> requests[r].attempt]
    BY <1>4, <2>1
  <2>4. RequestSound(r)'
    BY <1>1, <1>2, <2>1, <2>3 DEF RequestSound, RequestTypeOK, Places
  <2>5. CallsOfSound(r)'
    BY <1>1, <1>3, <2>3 DEF CallsOfSound, Underway
  <2>6. ASSUME NEW q \in Requests, q # r
        PROVE  RequestSound(q)' /\ CallsOfSound(q)'
    <3>1. requests'[q] = requests[q]
      BY <1>4, <2>1, <2>6
    <3> QED
      BY <1>1, <1>5, <2>1, <2>6, <3>1, RequestKept
  <2> QED
    BY <1>4, <2>1, <2>2, <2>4, <2>5, <2>6 DEF RequestsInv
<1>6. CASE kernel.at # "none"
  <2>1. UNCHANGED <<kernel, starter, registered>> /\ Moves(r, "memory")
    BY <1>6 DEF Arrives
  <2>2. StartSound'
    BY <1>1, <2>1 DEF StartSound, Awaited
  <2>3. requests'[r] = [at |-> "memory", attempt |-> requests[r].attempt]
    BY <1>4, <2>1
  <2>4. RequestSound(r)'
    BY <1>1, <1>2, <2>1, <2>3 DEF RequestSound, RequestTypeOK, Places
  <2>5. CallsOfSound(r)'
    BY <1>1, <1>3, <2>3 DEF CallsOfSound, Underway
  <2>6. ASSUME NEW q \in Requests, q # r
        PROVE  RequestSound(q)' /\ CallsOfSound(q)'
    <3>1. requests'[q] = requests[q]
      BY <1>4, <2>1, <2>6
    <3> QED
      BY <1>1, <2>1, <3>1, RequestKept
  <2> QED
    BY <1>4, <2>1, <2>2, <2>4, <2>5, <2>6 DEF RequestsInv
<1> QED
  BY <1>5, <1>6

\* The start goes on to the next module, with what it registers until then.
LEMMA InitGoesOn ==
    ASSUME RequestsInv, kernel.at = "starting", kernel.init < Len(Awaited),
           kernel' = [kernel EXCEPT !.init = @ + 1], registered' \subseteq Providers \cup {"ollama"},
           UNCHANGED <<starter, requests, workload, calls>>
    PROVE  RequestsInv'
<1>1. /\ kernel'.at = "starting" /\ kernel'.init \in 1 .. Len(Awaited)
      /\ kernel' \in [at : {"none", "starting", "started", "dead"}, init : 0 .. Len(Awaited)]
  <2>1. kernel.init \in Nat /\ Len(Awaited) \in Nat
        /\ kernel = [at |-> kernel.at, init |-> kernel.init]
    BY DEF RequestsInv, StartSound, Awaited
  <2> QED
    BY <2>1
<1>2. StartSound'
  BY <1>1 DEF RequestsInv, StartSound, Awaited
<1>3. ASSUME NEW r \in Requests
      PROVE  RequestSound(r)' /\ CallsOfSound(r)'
  BY RequestKept
<1> QED
  BY <1>2, <1>3 DEF RequestsInv

\* The start ends: those that waited for it go on or are answered.
LEMMA LastInitKeeps ==
    ASSUME RequestsInv, kernel.at = "starting", LastInit, UNCHANGED <<starter, workload, calls>>
    PROVE  RequestsInv'
<1>1. StartSound /\ kernel.init \in 0 .. Len(Awaited) /\ kernel = [at |-> kernel.at, init |-> kernel.init]
  BY DEF RequestsInv, StartSound
<1>2. /\ DOMAIN requests' = Requests
      /\ kernel'.at \in {"started", "dead"}
      /\ kernel' = [at |-> kernel'.at, init |-> kernel.init]
      /\ registered' \subseteq registered /\ (kernel'.at = "dead" => registered' = {})
      /\ \A r \in Requests \ starter : requests'[r] = requests[r]
      /\ \A r \in starter : \/ requests'[r] = [requests[r] EXCEPT !.at = "memory"]
                            \/ requests'[r] = [at |-> "answered", attempt |-> 0, success |-> FALSE]
  <2>1. starter \subseteq Requests
    BY <1>1 DEF StartSound
  <2>2. CASE workload.ai
    BY <1>1, <2>1, <2>2 DEF LastInit
  <2>3. CASE ~workload.ai
    BY <1>1, <2>1, <2>3 DEF LastInit
  <2> QED
    BY <2>2, <2>3
<1>3. StartSound'
  BY <1>1, <1>2 DEF StartSound, Awaited
<1>4. ASSUME NEW r \in Requests
      PROVE  RequestSound(r)' /\ CallsOfSound(r)'
  <2>1. RequestSound(r) /\ CallsOfSound(r)
    BY DEF RequestsInv
  <2>2. CASE r \notin starter
    <3>1. requests'[r] = requests[r]
      BY <1>2, <2>2
    <3> QED
      BY <1>2, <3>1, RequestKept
  <2>3. CASE r \in starter
    <3>1. requests[r].at = "starting"
      BY <2>1, <2>3 DEF RequestSound
    <3>2. /\ requests[r] = [at |-> "starting", attempt |-> requests[r].attempt]
          /\ requests[r].attempt \in Nat
      BY <2>1, <3>1 DEF RequestSound, RequestTypeOK
    <3>3. \/ requests'[r] = [at |-> "memory", attempt |-> requests[r].attempt]
          \/ requests'[r] = [at |-> "answered", attempt |-> 0, success |-> FALSE]
      BY <1>2, <2>3, <3>2
    <3>4. \A n \in 1 .. LlmAttempts : calls'[<<r, n>>].at = "idle"
      BY <2>1, <3>1 DEF CallsOfSound
    <3>5. r \in DOMAIN workload.requests
      BY <2>1, <3>1 DEF RequestSound
    <3>6. RequestSound(r)'
      <4>1. \/ requests'[r] \in [at : Places, attempt : Nat]
            \/ requests'[r] \in [at : {"answered"}, attempt : Nat, success : BOOLEAN]
        <5>1. CASE requests'[r] = [at |-> "memory", attempt |-> requests[r].attempt]
          <6>1. requests[r].attempt \in Nat /\ "memory" \in Places
            BY <3>2 DEF Places
          <6>2. PICK n \in Nat : n = requests[r].attempt
            BY <6>1
          <6>3. [at |-> "memory", attempt |-> n] \in [at : Places, attempt : Nat]
            BY <6>1
          <6> QED
            BY <5>1, <6>2, <6>3
        <5>2. CASE requests'[r] = [at |-> "answered", attempt |-> 0, success |-> FALSE]
          BY <5>2
        <5> QED
          BY <3>3, <5>1, <5>2
      <4>2. \/ requests'[r].at = "memory"
            \/ requests'[r].at = "answered" /\ ~requests'[r].success
        BY <3>3
      <4>3. RequestTypeOK(requests[r])'
        BY <4>1 DEF RequestTypeOK
      <4> QED
        BY <1>2, <3>5, <4>2, <4>3 DEF RequestSound
    <3>7. CallsOfSound(r)'
      BY <3>3, <3>4 DEF CallsOfSound, Underway
    <3> QED
      BY <3>6, <3>7
  <2> QED
    BY <2>2, <2>3
<1> QED
  BY <1>2, <1>3, <1>4 DEF RequestsInv

LEMMA StartKeeps ==
    ASSUME RequestsInv, HealthInv, StartMoves \/ ProvidersAsked
    PROVE  RequestsInv'
<1>1. CASE InitAnswered
  <2>1. kernel.at = "starting" /\ NextInit /\ UNCHANGED <<starter, workload, calls>>
    BY <1>1 DEF InitAnswered, serviceVars
  <2>2. CASE kernel.init < Len(Awaited)
    <3>1. kernel' = [kernel EXCEPT !.init = @ + 1] /\ UNCHANGED <<registered, requests>>
      BY <2>1, <2>2 DEF NextInit
    <3>2. registered' \subseteq Providers \cup {"ollama"}
      BY <3>1 DEF RequestsInv, StartSound
    <3> QED
      BY <2>1, <2>2, <3>1, <3>2, InitGoesOn
  <2>3. CASE ~(kernel.init < Len(Awaited))
    BY <2>1, <2>3, LastInitKeeps DEF NextInit
  <2> QED
    BY <2>2, <2>3
<1>2. CASE ProvidersRegistered
  <2>1. /\ kernel.at = "starting" /\ Awaited[kernel.init] = "Provider"
        /\ kernel' = [kernel EXCEPT !.init = @ + 1]
        /\ UNCHANGED <<starter, requests, workload, calls>>
        /\ \/ probes[BootProbe].at = "answered" /\ registered' = probes[BootProbe].healthy
           \/ registered' = {}
    BY <1>2 DEF ProvidersRegistered, serviceVars
  <2>2. kernel.init < Len(Awaited)
    <3>1. kernel.init \in 1 .. Len(Awaited)
      BY <2>1, AwaitedModules DEF RequestsInv, StartSound, Awaited
    <3> QED
      BY <2>1, <3>1, AwaitedModules
  <2>3. registered' \subseteq Providers
    BY <2>1, KernelAssumption DEF HealthInv, ProbeTrue, AnswerTrue
  <2> QED
    BY <2>1, <2>2, <2>3, InitGoesOn
<1>3. CASE ProvidersAsked
  BY <1>3, RequestsStay DEF ProvidersAsked, HealthAsked, callVars
<1> QED
  BY <1>1, <1>2, <1>3 DEF StartMoves

\* A request's steps without a call.
LEMMA PipelineKeeps ==
    ASSUME RequestsInv, NEW r \in Requests,
           \/ MemoryLoads(r) \/ MessagesListed(r) \/ ListingFails(r)
           \/ PromptCompiles(r) \/ PromptCompiled(r) \/ EngineBegins(r) \/ HttpAnswers(r)
    PROVE  RequestsInv'
<1>1. /\ requests[r].at \in {"memory", "loading", "prompt", "rendering", "engine", "tool"}
      /\ UNCHANGED <<kernelOnly, calls>>
  BY DEF MemoryLoads, MessagesListed, ListingFails, PromptCompiles, PromptCompiled, EngineBegins,
         HttpAnswers, serviceVars
<1>2. /\ RequestSound(r)
      /\ requests[r].attempt \in Nat
      /\ requests[r] = [at |-> requests[r].at, attempt |-> requests[r].attempt]
  BY <1>1 DEF RequestsInv, RequestSound, RequestTypeOK
<1>3. ASSUME NEW at \in {"prompt", "engine", "rendering", "tool", "llm"}, Moves(r, at),
             at \in {"tool", "llm"} => kernel.at = "started"
      PROVE  RequestsInv'
  <2>1. PICK request : request = [at |-> at, attempt |-> requests[r].attempt]
    OBVIOUS
  <2>2. [requests[r] EXCEPT !.at = at] = request
    BY <1>2, <2>1
  <2>3. requests' = [requests EXCEPT ![r] = [requests[r] EXCEPT !.at = at]]
    BY <1>3 DEF Moves
  <2>4. requests' = [requests EXCEPT ![r] = request]
    BY <2>2, <2>3
  <2>5. request \in [at : Places \ {"waiting"}, attempt : Nat] /\ request.at = at
    BY <1>2, <2>1 DEF Places
  <2> QED
    BY <1>1, <1>3, <2>4, <2>5, RequestGoes
<1>4. ASSUME NEW n \in Nat, Attempts(r, "loading", n)
      PROVE  RequestsInv'
  <2>1. PICK request : request = [at |-> "loading", attempt |-> n]
    OBVIOUS
  <2>2. requests' = [requests EXCEPT ![r] = request]
    BY <1>4, <2>1 DEF Attempts
  <2>3. request \in [at : Places \ {"waiting"}, attempt : Nat] /\ request.at = "loading"
    BY <2>1 DEF Places
  <2> QED
    BY <1>1, <2>2, <2>3, RequestGoes
<1>5. ASSUME Answers(r, FALSE)
      PROVE  RequestsInv'
  <2>1. PICK request : request = [at |-> "answered", attempt |-> requests[r].attempt, success |-> FALSE]
    OBVIOUS
  <2>2. requests' = [requests EXCEPT ![r] = request]
    BY <1>5, <2>1 DEF Answers
  <2>3. request \in [at : {"answered"}, attempt : Nat, success : {FALSE}] /\ request.at = "answered"
    BY <1>2, <2>1
  <2> QED
    BY <1>1, <2>2, <2>3, RequestGoes
<1>6. CASE MemoryLoads(r)
  BY <1>3, <1>4, <1>6 DEF MemoryLoads
<1>7. CASE MessagesListed(r)
  BY <1>3, <1>7 DEF MessagesListed
<1>8. CASE ListingFails(r)
  <2>1. requests[r].attempt + 1 \in Nat
    BY <1>2
  <2> QED
    BY <1>3, <1>4, <1>8, <2>1 DEF ListingFails
<1>9. CASE PromptCompiles(r)
  BY <1>3, <1>5, <1>9 DEF PromptCompiles
<1>10. CASE PromptCompiled(r)
  BY <1>3, <1>5, <1>10 DEF PromptCompiled
<1>11. CASE EngineBegins(r)
  BY <1>3, <1>5, <1>11 DEF EngineBegins, EngineReady
<1>12. CASE HttpAnswers(r)
  <2>1. kernel.at = "started" /\ Moves(r, "llm")
    BY <1>2, <1>12 DEF HttpAnswers, RequestSound
  <2> QED
    BY <1>3, <2>1
<1> QED
  BY <1>6, <1>7, <1>8, <1>9, <1>10, <1>11, <1>12

\* The answer of a request that waits.
LEMMA AnswerKeeps ==
    ASSUME RequestsInv, UNCHANGED <<kernelOnly, calls>>, NEW r \in Requests, NEW success \in BOOLEAN,
           requests[r].at = "waiting", Answers(r, success),
           success => calls[Attempt(r)].at = "answered" /\ calls[Attempt(r)].ok
    PROVE  RequestsInv'
<1>1. RequestSound(r) /\ CallsOfSound(r)
  BY DEF RequestsInv
<1>2. /\ requests[r].attempt \in 1 .. LlmAttempts /\ requests[r].attempt \in Nat
      /\ r \in DOMAIN workload.requests /\ kernel.at = "started"
  BY <1>1, KernelAssumption DEF RequestSound
<1>3. /\ UNCHANGED <<kernel, starter, registered, workload, calls>> /\ UNCHANGED Profile(r)
      /\ DOMAIN requests' = Requests
      /\ \A q \in Requests :
            requests'[q] = IF q = r THEN [at |-> "answered", attempt |-> requests[r].attempt,
                                          success |-> success]
                           ELSE requests[q]
  BY DEF kernelOnly, RequestsInv, Answers, Profile
<1>4. StartSound'
  BY <1>3 DEF RequestsInv, StartSound, Awaited
<1>5. success => \E c \in CallsOf(r) : calls'[c].at = "answered" /\ calls'[c].ok
  BY <1>2, <1>3 DEF CallsOf, Attempt
<1>6. /\ requests'[r] = [at |-> "answered", attempt |-> requests[r].attempt, success |-> success]
      /\ requests'[r].at = "answered" /\ requests'[r].success = success
  BY <1>3
<1>7. RequestTypeOK(requests[r])'
  BY <1>2, <1>6 DEF RequestTypeOK
<1>8. RequestSound(r)'
  BY <1>2, <1>3, <1>5, <1>6, <1>7 DEF RequestSound, CallsOf
<1>9. CallsOfSound(r)'
  BY <1>1, <1>3, <1>6 DEF CallsOfSound
<1>10. ASSUME NEW q \in Requests, q # r
       PROVE  RequestSound(q)' /\ CallsOfSound(q)'
  BY <1>3, <1>10, RequestKept
<1> QED
  BY <1>3, <1>4, <1>8, <1>9, <1>10 DEF RequestsInv

LEMMA LlmKeeps ==
    ASSUME RequestsInv, CallsInv, NEW r \in Requests, LlmBegins(r) \/ LlmAnswered(r) \/ LlmFails(r)
    PROVE  RequestsInv' /\ CallsInv'
<1>1. RequestSound(r) /\ LlmAttempts \in Nat /\ 1 \in 1 .. LlmAttempts
  BY KernelAssumption DEF RequestsInv
<1>2. CASE LlmBegins(r)
  <2>1. UNCHANGED kernelOnly /\ UNCHANGED rows /\ requests[r].at = "llm"
    BY <1>2 DEF LlmBegins
  <2>2. CASE Profile(r).provider \in registered
    <3>1. Attempts(r, "waiting", 1) /\ calls' = CallSent(<<r, 1>>)
      BY <1>2, <2>2 DEF LlmBegins
    <3> QED
      BY <1>1, <2>1, <2>2, <3>1, RequestSends
  <2>3. CASE Profile(r).provider \notin registered
    <3>1. Answers(r, FALSE) /\ calls' = calls
      BY <1>2, <2>3 DEF LlmBegins
    <3>2. PICK request : request = [at |-> "answered", attempt |-> requests[r].attempt, success |-> FALSE]
      OBVIOUS
    <3>3. requests' = [requests EXCEPT ![r] = request]
      BY <3>1, <3>2 DEF Answers
    <3>4. request \in [at : {"answered"}, attempt : Nat, success : {FALSE}] /\ request.at = "answered"
      BY <1>1, <2>1, <3>2 DEF RequestSound, RequestTypeOK
    <3> QED
      BY <2>1, <3>1, <3>3, <3>4, RequestGoes, CallsStay
  <2> QED
    BY <2>2, <2>3
<1>3. CASE LlmAnswered(r)
  <2>1. /\ UNCHANGED <<kernelOnly, calls, rows>> /\ requests[r].at = "waiting" /\ Answers(r, TRUE)
        /\ calls[Attempt(r)].at = "answered" /\ calls[Attempt(r)].ok
    BY <1>3 DEF LlmAnswered, serviceVars
  <2> QED
    BY <2>1, AnswerKeeps, CallsStay
<1>4. CASE LlmFails(r)
  <2>1. UNCHANGED kernelOnly /\ UNCHANGED rows /\ requests[r].at = "waiting"
    BY <1>4 DEF LlmFails
  <2>2. CASE requests[r].attempt < LlmAttempts
    <3>1. requests[r].attempt + 1 \in 1 .. LlmAttempts
      BY <1>1, <2>1, <2>2 DEF RequestSound
    <3>2. /\ Attempts(r, "waiting", requests[r].attempt + 1)
          /\ calls' = CallSent(<<r, requests[r].attempt + 1>>)
      BY <1>4, <2>2 DEF LlmFails
    <3> QED
      BY <2>1, <3>1, <3>2, RequestSends
  <2>3. CASE ~(requests[r].attempt < LlmAttempts)
    <3>1. Answers(r, FALSE) /\ calls' = calls
      BY <1>4, <2>3 DEF LlmFails
    <3> QED
      BY <2>1, <3>1, AnswerKeeps, CallsStay
  <2> QED
    BY <2>2, <2>3
<1> QED
  BY <1>2, <1>3, <1>4

LEMMA LlmArrivesKeeps ==
    ASSUME RequestsInv, CallsInv, NEW r \in Requests, NEW n \in 1 .. LlmAttempts, LlmArrives(r, n)
    PROVE  RequestsInv' /\ CallsInv'
<1>1. /\ CallArrives(<<r, n>>, "execute", Profile(r).provider, TRUE)
      /\ UNCHANGED kernelVars /\ <<r, n>> \in Calls /\ calls[<<r, n>>].at = "sent"
  BY KernelAssumption DEF LlmArrives, CallArrives
<1>2. RequestSound(r) /\ CallsOfSound(r) /\ workload \in Workloads
  BY DEF RequestsInv, StartSound
<1>3. r \in DOMAIN workload.requests
  BY <1>1, <1>2 DEF RequestSound, CallsOfSound
<1>4. Profile(r).provider \in Names /\ "execute" \in CallKinds
  BY <1>2, <1>3, WorkloadAssumption DEF Profile, CallKinds
<1>5. /\ CallsInv'
      /\ \E call : /\ calls' = [calls EXCEPT ![<<r, n>>] = call]
                   /\ Arrived("execute", Profile(r).provider, call)
  BY <1>1, <1>4, ArrivesKeeps
<1>6. PICK call : /\ calls' = [calls EXCEPT ![<<r, n>>] = call]
                  /\ Arrived("execute", Profile(r).provider, call)
  BY <1>5
<1>7. \/ call.at \in Underway /\ call.kind = "execute" /\ call.provider = Profile(r).provider
      \/ call.at = "answered" /\ call.executions <= AttemptsOf(Profile(r).provider, "execute")
  <2>1. 0 <= AttemptsOf(Profile(r).provider, "execute")
    BY AttemptsRange
  <2> QED
    BY <1>6, <2>1 DEF Arrived
<1>8. \A q \in Requests : \A m \in 1 .. LlmAttempts : <<r, n>> = <<q, m>> => q = r
  OBVIOUS
<1>9. RequestsInv'
  BY <1>1, <1>6, <1>7, <1>8, RequestsKept DEF CallsInv
<1> QED
  BY <1>5, <1>9

LEMMA DirectKeeps ==
    ASSUME RequestsInv, CallsInv, NEW d \in Direct, DirectCalled(d) \/ DirectArrives(d)
    PROVE  RequestsInv' /\ CallsInv'
<1>1. /\ UNCHANGED kernelVars /\ <<d, 0>> \in Calls /\ d \in DOMAIN workload.direct
      /\ workload \in Workloads
      /\ \A r \in Requests : \A n \in 1 .. LlmAttempts : <<r, n>> # <<d, 0>> /\ <<r, n>> \in Calls
  BY KernelAssumption DEF DirectCalled, DirectArrives, Unmoved, RequestsInv, StartSound
<1>2. /\ CallsInv'
      /\ \E call : calls' = [calls EXCEPT ![<<d, 0>>] = call]
  <2>1. CASE DirectCalled(d)
    BY <1>1, <2>1, SentKeeps DEF DirectCalled
  <2>2. CASE DirectArrives(d)
    <3>1. PICK call : call = workload.direct[d]
      OBVIOUS
    <3>2. CallArrives(<<d, 0>>, call.kind, call.provider, call.hasModel)
      BY <2>2, <3>1 DEF DirectArrives
    <3>3. call.kind \in CallKinds /\ call.provider \in Names
      BY <1>1, <3>1, WorkloadAssumption
    <3> QED
      BY <1>1, <3>2, <3>3, ArrivesKeeps
  <2> QED
    BY <2>1, <2>2
<1>3. \A r \in Requests : \A n \in 1 .. LlmAttempts : calls'[<<r, n>>] = calls[<<r, n>>]
  BY <1>1, <1>2 DEF CallsInv
<1>4. UNCHANGED <<kernel, starter, registered, workload, requests>>
  BY <1>1 DEF kernelVars
<1>5. StartSound' /\ DOMAIN requests' = Requests
  BY <1>4 DEF RequestsInv, StartSound, Awaited
<1>6. ASSUME NEW r \in Requests
      PROVE  RequestSound(r)' /\ CallsOfSound(r)'
  BY <1>3, <1>4, RequestKept
<1> QED
  BY <1>2, <1>5, <1>6 DEF RequestsInv

LEMMA CallMovesKeeps ==
    ASSUME RequestsInv, CallsInv, NEW c \in Calls, CallMoves(c)
    PROVE  RequestsInv' /\ CallsInv'
<1>1. /\ CallsInv' /\ UNCHANGED kernelVars
      /\ \E call : calls' = [calls EXCEPT ![c] = call] /\ Moved(calls[c], call)
  BY MoveKeeps DEF CallMoves, Unmoved
<1>2. PICK call : calls' = [calls EXCEPT ![c] = call] /\ Moved(calls[c], call)
  BY <1>1
<1>3. calls[c].at \in Underway /\ CallTypeOK(calls[c]) /\ Counted(calls[c])
  BY <1>2 DEF Moved, CallsInv, CallTrue
<1>4. calls[c].at \notin {"idle", "answered"}
  BY <1>3 DEF Underway
<1>5. ASSUME NEW r \in Requests, NEW n \in 1 .. LlmAttempts, c = <<r, n>>
      PROVE  \/ call.at \in Underway /\ call.kind = "execute" /\ call.provider = Profile(r).provider
             \/ call.at = "answered" /\ call.executions <= AttemptsOf(Profile(r).provider, "execute")
  <2>1. calls[c].kind = "execute" /\ calls[c].provider = Profile(r).provider
    BY <1>3, <1>5 DEF RequestsInv, CallsOfSound
  <2>2. calls[c].executions <= AttemptsOf(calls[c].provider, "execute")
    BY <1>3, <2>1, RoundsBound
  <2> QED
    BY <1>2, <2>1, <2>2 DEF Moved
<1>6. RequestsInv'
  BY <1>1, <1>2, <1>4, <1>5, RequestsKept DEF CallsInv
<1> QED
  BY <1>1, <1>6

-----------------------------------------------------------------------------
(* The whole.                                                              *)

\* An invariant of each part; together they are inductive.
KernelInv == HealthInv /\ PromptInv /\ CallsInv /\ RequestsInv

LEMMA InitKernel ==
    ASSUME Init
    PROVE  KernelInv
<1> USE ServiceAssumption, KernelAssumption
<1>1. ServiceInit /\ ClientInit /\ now = 0
  BY DEF Init, ServiceInit
<1>2. HealthInv /\ PromptInv
  BY <1>1, InitHealth, InitPrompts
<1>3. /\ DOMAIN calls = Calls /\ rows \in [Calls -> Nat]
      /\ \A c \in Calls : calls[c] = [at |-> "idle", executions |-> 0] /\ rows[c] = 0
  BY <1>1 DEF ServiceInit
<1>4. CallsInv
  <2>1. \A c \in Calls : CallTrue(calls[c], rows[c])
    BY <1>3 DEF CallTrue, CallTypeOK, Underway
  <2> QED
    BY <1>3, <2>1 DEF CallsInv
<1>5. StartSound
  BY DEF Init, StartSound, Awaited
<1>6. ASSUME NEW r \in Requests
      PROVE  RequestSound(r) /\ CallsOfSound(r)
  <2>1. requests[r] = [at |-> "idle", attempt |-> 0] /\ starter = {} /\ kernel.at = "none"
    BY DEF Init
  <2>2. \A n \in 1 .. LlmAttempts : calls[<<r, n>>] = [at |-> "idle", executions |-> 0]
    BY <1>3
  <2>3. RequestSound(r)
    BY <2>1 DEF RequestSound, RequestTypeOK, Places
  <2>4. CallsOfSound(r)
    BY <2>1, <2>2 DEF CallsOfSound, Underway
  <2> QED
    BY <2>3, <2>4
<1>7. RequestsInv
  BY <1>5, <1>6 DEF RequestsInv, Init
<1> QED
  BY <1>2, <1>4, <1>7 DEF KernelInv

LEMMA NextRequests ==
    ASSUME KernelInv, [Next]_vars
    PROVE  RequestsInv' /\ CallsInv'
<1> USE DEF KernelInv
<1>1. CASE UNCHANGED vars
  BY <1>1, RequestsStay, CallsStay DEF vars, kernelVars, serviceVars
<1>2. CASE StartMoves \/ ProvidersAsked
  <2>1. UNCHANGED <<calls, rows>>
    BY <1>2 DEF StartMoves, InitAnswered, ProvidersRegistered, ProvidersAsked, HealthAsked, serviceVars,
                callVars
  <2> QED
    BY <1>2, <2>1, StartKeeps, CallsStay
<1>3. ASSUME NEW r \in Requests, Arrives(r)
      PROVE  RequestsInv' /\ CallsInv'
  BY <1>3, ArrivalKeeps, CallsStay DEF Arrives, serviceVars
<1>4. ASSUME NEW r \in Requests, RequestMoves(r) \/ HttpAnswers(r)
      PROVE  RequestsInv' /\ CallsInv'
  <2>1. CASE \/ MemoryLoads(r) \/ MessagesListed(r) \/ ListingFails(r)
             \/ PromptCompiles(r) \/ PromptCompiled(r) \/ EngineBegins(r) \/ HttpAnswers(r)
    <3>1. UNCHANGED <<calls, rows>>
      BY <2>1 DEF MemoryLoads, MessagesListed, ListingFails, PromptCompiles, PromptCompiled, EngineBegins,
                  HttpAnswers, serviceVars
    <3> QED
      BY <2>1, <3>1, PipelineKeeps, CallsStay
  <2>2. CASE PromptFetchEnds(r)
    BY <2>2, RequestsStay, CallsStay DEF PromptFetchEnds, serviceVars
  <2>3. CASE LlmBegins(r) \/ LlmAnswered(r) \/ LlmFails(r)
    BY <2>3, LlmKeeps
  <2> QED
    BY <1>4, <2>1, <2>2, <2>3 DEF RequestMoves
<1>5. ASSUME NEW r \in Requests, NEW n \in 1 .. LlmAttempts, LlmArrives(r, n)
      PROVE  RequestsInv' /\ CallsInv'
  BY <1>5, LlmArrivesKeeps
<1>6. ASSUME NEW d \in Direct, DirectCalled(d) \/ DirectArrives(d)
      PROVE  RequestsInv' /\ CallsInv'
  BY <1>6, DirectKeeps
<1>7. ASSUME NEW c \in Calls, CallMoves(c)
      PROVE  RequestsInv' /\ CallsInv'
  BY <1>7, CallMovesKeeps
<1>8. CASE HealthMoves \/ PromptsMove \/ Tick
  <2>1. UNCHANGED kernelVars /\ UNCHANGED <<calls, rows>>
    BY <1>8 DEF HealthMoves, HealthAsked, ProviderReplies, HealthTold, HealthTimesOut, Told, ProviderTurns,
                PromptsMove, Tick, ServiceTick, Unmoved, serviceVars, callVars
  <2> QED
    BY <2>1, RequestsStay, CallsStay
<1> QED
  BY <1>1, <1>2, <1>3, <1>4, <1>5, <1>6, <1>7, <1>8 DEF Next

LEMMA NextKernel ==
    ASSUME KernelInv, [Next]_vars
    PROVE  KernelInv'
<1>1. workload \in Workloads /\ now \in Nat
  BY DEF KernelInv, RequestsInv, StartSound, PromptInv
<1>2. HealthInv'
  BY <1>1, NextHealth, HealthStepKeeps DEF KernelInv
<1>3. \A r \in Requests : requests[r].at = "prompt" => r \in DOMAIN workload.requests
  BY DEF KernelInv, RequestsInv, RequestSound
<1>4. PromptInv'
  BY <1>1, <1>3, NextPrompts, PromptStepKeeps DEF KernelInv
<1>5. RequestsInv' /\ CallsInv'
  BY NextRequests
<1> QED
  BY <1>2, <1>4, <1>5 DEF KernelInv

\* What a request's calls have executed between them.
LEMMA ExecutionsBounded ==
    ASSUME KernelInv, NEW r \in DOMAIN workload.requests
    PROVE  SumFunctionOnSet([n \in 1 .. LlmAttempts |-> calls[<<r, n>>].executions], 1 .. LlmAttempts)
              <= LlmAttempts * AttemptsOf(Profile(r).provider, "execute")
<1> USE KernelAssumption
<1>1. PICK m \in Nat : m = AttemptsOf(Profile(r).provider, "execute")
  BY AttemptsRange
<1>2. PICK executions : executions = [n \in 1 .. LlmAttempts |-> calls[<<r, n>>].executions]
  OBVIOUS
<1>3. r \in Requests
  BY WorkloadAssumption DEF KernelInv, RequestsInv, StartSound
<1>4. ASSUME NEW n \in 1 .. LlmAttempts
      PROVE  executions[n] \in Nat /\ executions[n] <= m
  <2>1. /\ CallTrue(calls[<<r, n>>], rows[<<r, n>>]) /\ CallsOfSound(r)
        /\ executions[n] = calls[<<r, n>>].executions
    BY <1>2, <1>3 DEF KernelInv, CallsInv, RequestsInv
  <2>2. CallTypeOK(calls[<<r, n>>])
    BY <2>1 DEF CallTrue
  <2>3. CASE calls[<<r, n>>].at \in {"idle", "sent"}
    <3>1. calls[<<r, n>>] = [at |-> calls[<<r, n>>].at, executions |-> 0]
      BY <2>2, <2>3, CallShape
    <3>2. calls[<<r, n>>].executions = 0
      BY <3>1
    <3> QED
      BY <1>1, <2>1, <3>2
  <2>4. CASE calls[<<r, n>>].at \in Underway
    <3>1. Counted(calls[<<r, n>>])
      BY <2>1, <2>4 DEF CallTrue
    <3>2. calls[<<r, n>>].kind = "execute" /\ calls[<<r, n>>].provider = Profile(r).provider
      BY <2>1, <2>4 DEF CallsOfSound
    <3> QED
      BY <1>1, <2>1, <2>2, <2>4, <3>1, <3>2, RoundsBound
  <2>5. CASE calls[<<r, n>>].at = "answered"
    <3>1. calls[<<r, n>>].executions \in Nat
      BY <2>2, <2>5, CallShape
    <3>2. calls[<<r, n>>].executions <= m
      BY <1>1, <2>1, <2>5 DEF CallsOfSound
    <3> QED
      BY <2>1, <3>1, <3>2
  <2> QED
    BY <2>2, <2>3, <2>4, <2>5, CallShape
<1>5. IsFiniteSet(1 .. LlmAttempts) /\ Cardinality(1 .. LlmAttempts) = LlmAttempts
  BY FS_Interval
<1>6. SumFunctionOnSet(executions, 1 .. LlmAttempts) <= Cardinality(1 .. LlmAttempts) * m
  BY <1>4, <1>5, SumBounded
<1>7. SumFunctionOnSet(executions, 1 .. LlmAttempts) <= LlmAttempts * m
  BY <1>5, <1>6, Zenon
<1> QED
  BY <1>1, <1>2, <1>7, Zenon

LEMMA KernelInvSound ==
    ASSUME KernelInv
    PROVE  KernelSound
<1>1. ServiceTypeOK
  <2>1. \A h \in Probes : probes[h].at \in {"idle", "open", "answered"}
    <3> SUFFICES ASSUME NEW h \in Probes
                 PROVE  probes[h].at \in {"idle", "open", "answered"}
      OBVIOUS
    <3>1. ProbeTypeOK(probes[h])
      BY DEF KernelInv, HealthInv, HealthTypeOK
    <3>2. PICK probe : probe = probes[h]
      OBVIOUS
    <3>3. ProbeTypeOK(probe)
      BY <3>1, <3>2
    <3>4. probe.at \in {"idle", "open", "answered"}
      BY <3>3 DEF ProbeTypeOK
    <3> QED
      BY <3>2, <3>4
  <2>2. \A c \in Calls : calls[c].at \in {"idle", "sent", "checked", "asked", "storing", "answered"}
    BY CallShape DEF KernelInv, CallsInv, CallTrue, Underway
  <2> QED
    BY <2>1, <2>2 DEF ServiceTypeOK, KernelInv, HealthInv, HealthTypeOK, CallsInv, Statuses
<1>2. HealthIsRecent /\ CallsAreBounded /\ ClientTypeOK /\ CacheSound /\ PromptIsRecent
  BY HealthSound, CallsSound, PromptsSound DEF KernelInv
<1>3. KernelTypeOK
  <2>1. \A r \in Requests :
           /\ requests[r].at \in {"idle", "starting", "memory", "loading", "prompt", "rendering",
                                  "engine", "tool", "llm", "waiting", "answered"}
           /\ requests[r].attempt \in Nat
    BY DEF KernelInv, RequestsInv, RequestSound, RequestTypeOK, Places
  <2> QED
    BY <2>1 DEF KernelTypeOK, KernelInv, RequestsInv, StartSound
<1>4. ASSUME NEW r \in DOMAIN workload.requests
      PROVE  /\ (\E c \in CallsOf(r) : calls[c].at # "idle") =>
                   kernel.at = "started" /\ Profile(r).provider \in registered
             /\ (requests[r].at = "answered" /\ requests[r].success) =>
                   \E c \in CallsOf(r) :
                      calls[c].at = "answered" /\ calls[c].ok /\ calls[c].executions > 0
  <2>1. r \in Requests
    BY WorkloadAssumption DEF KernelInv, RequestsInv, StartSound
  <2>2. RequestSound(r) /\ CallsOfSound(r) /\ CallsInv /\ CallsOf(r) \subseteq Calls
    BY <2>1, KernelAssumption DEF KernelInv, RequestsInv, CallsOf
  <2>3. (\E c \in CallsOf(r) : calls[c].at # "idle") =>
           kernel.at = "started" /\ Profile(r).provider \in registered
    BY <2>2 DEF CallsOf, CallsOfSound
  <2>4. \A c \in CallsOf(r) :
           calls[c].at = "answered" /\ calls[c].ok => calls[c].executions > 0
    BY <2>2 DEF CallsInv, CallTrue
  <2> QED
    BY <2>2, <2>3, <2>4 DEF RequestSound
<1>5. AnswersAreEarned
  BY <1>4, ExecutionsBounded DEF AnswersAreEarned
<1>6. DeadAnswersNothing
  BY DEF DeadAnswersNothing, KernelInv, RequestsInv, StartSound, RequestSound, RequestTypeOK
<1> QED
  BY <1>1, <1>2, <1>3, <1>5, <1>6 DEF KernelSound

\* The kernel and what it calls are sound, whatever providers fail and recover, prompts are
\* published and requests overlap: getKernel() and the pipeline, the health checks and
\* retries of the AI service, and the prompt client's cache.
THEOREM KernelStaysSound == Spec => []KernelSound
<1>1. Init => KernelInv
  BY InitKernel
<1>2. KernelInv /\ [Next]_vars => KernelInv'
  BY NextKernel
<1>3. KernelInv => KernelSound
  BY KernelInvSound
<1> QED
  BY <1>1, <1>2, <1>3, PTL DEF Spec
=============================================================================
