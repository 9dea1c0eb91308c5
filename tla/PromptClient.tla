----------------------------- MODULE PromptClient -----------------------------
(***************************************************************************)
(* The kernel's client of the prompt service                               *)
(* (integrations/prompt/prompt-service.client.ts), prompts found by key    *)
(* and prompts rendered, both in one cache that evicts its oldest entry;   *)
(* and of the prompt service (prompt-service/src) what changes the answers *)
(* the client gets: its prompts and their versions, each statement of the  *)
(* database a step.  A search is one moment.  Versions are their numbers:  *)
(* rows that share one are not told apart.  Keys are names, never ids.     *)
(* The steps take the time as an argument.                                 *)
(***************************************************************************)
EXTENDS Integers, SequencesExt

CONSTANTS
    Renders,            \* calls of renderPrompt()
    Editors,            \* calls of the prompt service that change its prompts
    Prompts,            \* of the prompt service, those to be created included
    NameOf, WorkspaceOf,    \* [prompt -> key], [prompt -> workspace]
    Matches,            \* [key -> prompts whose name or description contains it]
    Keys,
    Workspaces,         \* asked for; one without prompts stands for none being asked for
    MaxVersion,         \* bound on the numbers of versions
    MaxEntries, Ttl,    \* of the cache; ticks
    RequestTimeout,     \* of one HTTP request, in ticks
    RequestAttempts,    \* of requestWithRetry()
    Published           \* no promptVersion is asked for

ASSUME ClientAssumption ==
    /\ {MaxVersion, MaxEntries, Ttl, RequestTimeout, RequestAttempts} \subseteq Nat \ {0}
    /\ Published \notin Nat

\* A name contains itself.
ASSUME SearchAssumption ==
    /\ NameOf \in [Prompts -> Keys] /\ WorkspaceOf \in [Prompts -> Workspaces]
    /\ Matches \in [Keys -> SUBSET Prompts]
    /\ \A p \in Prompts : p \in Matches[NameOf[p]]

VARIABLES
    prompts,        \* of the prompt service: is a prompt there, its versions, those published
    edits,          \* how far each change is
    ceased,         \* history: when a fact last ceased to be one
    cache,
    renders

promptVars == <<prompts, edits, ceased, cache, renders>>
serverVars == <<prompts, edits, ceased>>

Versions == 1 .. MaxVersion
PromptRow == [exists : BOOLEAN, versions : SUBSET Versions, published : SUBSET Versions]

\* What may be true of the prompts: a version of a prompt is published, none of a prompt
\* is, no prompt bears a name.
Facts == ({"published"} \X Prompts \X Versions) \cup ({"unpublished"} \X Prompts)
            \cup ({"absent"} \X Keys)
FactsOf(rows) ==
    (UNION {{<<"published", p, v>> : v \in rows[p].published} : p \in Prompts})
        \cup {<<"unpublished", p>> : p \in {q \in Prompts : rows[q].published = {}}}
        \cup {<<"absent", k>> : k \in {key \in Keys :
                \A p \in Prompts : rows[p].exists => NameOf[p] # key}}

\* Longer ago than any property asks for.
Never == -1 - 2 * Ttl - RequestTimeout

ClientInit ==
    /\ prompts \in [Prompts -> PromptRow]
    /\ \A p \in Prompts : /\ prompts[p].published \subseteq prompts[p].versions
                          /\ prompts[p].versions # {} => prompts[p].exists
    /\ edits = [e \in Editors |-> [at |-> "idle"]]
    /\ ceased = [f \in Facts |-> Never]
    /\ cache = << >>
    /\ renders = [r \in Renders |-> [at |-> "idle"]]

-----------------------------------------------------------------------------
(* The prompt service                                                      *)

Edited(p, row, t) ==
    /\ prompts' = [prompts EXCEPT ![p] = row]
    /\ ceased' = [f \in Facts |-> IF f \in FactsOf(prompts) \ FactsOf(prompts') THEN t
                                  ELSE ceased[f]]
    /\ UNCHANGED <<cache, renders>>

EditGoesTo(e, state) == edits' = [edits EXCEPT ![e] = state]
NotEdited(e) == edits[e].at = "idle"
Done == [at |-> "done"]

CreatePrompt(e, p, t) ==
    /\ NotEdited(e) /\ EditGoesTo(e, Done)
    /\ ~prompts[p].exists
    /\ Edited(p, [prompts[p] EXCEPT !.exists = TRUE], t)

\* The number is the caller's, and so is whether the version is published, as nothing is
\* looked at in what is entered.
CreateVersion(e, p, v, isPublished, t) ==
    /\ NotEdited(e) /\ EditGoesTo(e, Done)
    /\ prompts[p].exists
    /\ Edited(p, [prompts[p] EXCEPT !.versions = @ \cup {v},
                                    !.published = IF isPublished THEN @ \cup {v} ELSE @], t)

\* A prompt that has versions is kept by their reference to it.
DeletePrompt(e, p, t) ==
    /\ NotEdited(e) /\ EditGoesTo(e, Done)
    /\ prompts[p].exists
    /\ prompts[p].versions = {}
    /\ Edited(p, [prompts[p] EXCEPT !.exists = FALSE], t)

UnpublishAll(p, t) == Edited(p, [prompts[p] EXCEPT !.published = {}], t)
About(at, p, v) == [at |-> at, prompt |-> p, version |-> v]

\* rollback() unpublishes all and then publishes a version there is, ...
Rollback(e, p, v, t) ==
    /\ NotEdited(e) /\ EditGoesTo(e, About("rollback", p, v))
    /\ v \in prompts[p].versions
    /\ UnpublishAll(p, t)

\* ... and publish() unpublishes all, itself, ...
PublishBegins(e, p, v, t) ==
    /\ NotEdited(e) \/ edits[e] = About("rollback", p, v)
    /\ v \in prompts[p].versions
    /\ UnpublishAll(p, t)
    /\ EditGoesTo(e, About("publish", p, v))

\* ... before it publishes the one: until then none is, or what overlaps has published.
PublishEnds(e, t) ==
    /\ edits[e].at = "publish"
    /\ LET p == edits[e].prompt
       IN  Edited(p, [prompts[p] EXCEPT !.published = @ \cup {edits[e].version}], t)
    /\ EditGoesTo(e, Done)

-----------------------------------------------------------------------------
\* The cache, oldest entry first

Entries(c, key) == {i \in DOMAIN c : c[i].key = key}
Place(c, key) == CHOOSE i \in Entries(c, key) : TRUE
Without(c, key) == IF Entries(c, key) = {} THEN c ELSE RemoveAt(c, Place(c, key))
Fresh(c, key, t) == \E i \in Entries(c, key) : t <= c[i].expiresAt
ValueIn(c, key) == c[Place(c, key)].value

\* getFromCache(): an entry found moves to the end and still expires when it would have.
AfterGet(c, key, t) ==
    IF Fresh(c, key, t) THEN Append(Without(c, key), c[Place(c, key)])
    ELSE Without(c, key)

\* Mutant: the oldest entry goes one entry too late.
Evicted_Late(c) == IF Len(c) > MaxEntries THEN Tail(c) ELSE c
\* setCache() makes room first, even for a key that is there; a key that stays keeps its place.
Evicted(c) == IF Len(c) >= MaxEntries THEN Tail(c) ELSE c
AfterSet(c, key, value, t) ==
    LET room == Evicted(c)
        entry == [key |-> key, value |-> value, expiresAt |-> t + Ttl]
    IN  IF Entries(room, key) = {} THEN Append(room, entry)
        ELSE [i \in DOMAIN room |-> IF room[i].key = key THEN entry ELSE room[i]]

\* What renderPrompt() is asked for.
RenderRequest == [key : Keys, workspace : Workspaces, version : {Published} \cup Versions]

\* prompt_meta:key, without the workspace, and the hash of what is rendered.
MetaKey(request) == <<"prompt_meta", request.key>>
RenderKey(request) == <<"render", request>>

-----------------------------------------------------------------------------
\* renderPrompt()

NotFound == [outcome |-> "not_found"]
Failed == [outcome |-> "failed"]
Rendered(prompt, version) ==
    [outcome |-> "rendered", prompt |-> prompt, version |-> version]

RenderEnds(r, request, result, t) == renders' = [renders EXCEPT ![r] =
    [at |-> "done", request |-> request, result |-> result, when |-> t]]

\* The version asked for; or a published one, or the last of those there are when none is
\* published, in an order nobody has asked for.
VersionsFor(request, found) ==
    IF request.version # Published THEN found.versions \cap {request.version}
    ELSE IF found.published # {} THEN found.published
    ELSE found.versions

\* A version of the prompt found is rendered and cached; c is the cache by then.
Finish(r, request, found, c, t) ==
    LET versions == VersionsFor(request, found)
    IN  IF versions = {}
        THEN cache' = c /\ RenderEnds(r, request, NotFound, t)
        ELSE \E v \in versions :
                LET result == Rendered(found.prompt, v)
                IN  /\ cache' = AfterSet(c, RenderKey(request), result, t)
                    /\ RenderEnds(r, request, result, t)

Fetching(request, attempt, t) ==
    [at |-> "fetching", request |-> request, attempt |-> attempt, sent |-> t, answered |-> FALSE]

\* renderPrompt() up to its first await: what is rendered or found already needs none.
RenderBegins(r, request, t) ==
    LET met == AfterGet(cache, RenderKey(request), t)
        found == AfterGet(met, MetaKey(request), t)
    IN  /\ renders[r].at = "idle"
        /\ IF Fresh(cache, RenderKey(request), t)
           THEN /\ cache' = met
                /\ RenderEnds(r, request, ValueIn(met, RenderKey(request)), t)
           ELSE IF Fresh(met, MetaKey(request), t)
           THEN Finish(r, request, ValueIn(found, MetaKey(request)), found, t)
           ELSE /\ cache' = found
                /\ renders' = [renders EXCEPT ![r] = Fetching(request, 1, t)]
        /\ UNCHANGED serverVars

\* findAll(): the prompts whose name or description contains the key, with their versions.
Snapshot(p) ==
    [prompt |-> p, versions |-> prompts[p].versions, published |-> prompts[p].published]
PromptsRead(r) ==
    /\ renders[r].at = "fetching" /\ ~renders[r].answered
    /\ renders' = [renders EXCEPT ![r] =
          [at |-> "fetching", request |-> @.request, attempt |-> @.attempt, sent |-> @.sent,
           answered |-> TRUE,
           list |-> {Snapshot(p) : p \in {q \in Matches[@.request.key] : prompts[q].exists}}]]
    /\ UNCHANGED <<serverVars, cache>>

\* Of some prompts, in no order, the first that has a published version or a text, or else
\* the first: which of the unpublished have texts is left open.
Picked(list) ==
    {s \in list : s.versions # {} \/ \A other \in list : other.published = {}}

\* getPromptByKey() after its await: one of that name in the workspace asked for comes
\* first, then any of that name, then whatever was found.
PromptsFetched(r, t) ==
    LET request == renders[r].request
        list == renders[r].list
        candidates == {s \in list : NameOf[s.prompt] = request.key}
        inWorkspace == {s \in candidates : WorkspaceOf[s.prompt] = request.workspace}
    IN  /\ renders[r].at = "fetching" /\ renders[r].answered
        /\ IF list = {} THEN RenderEnds(r, request, NotFound, t) /\ cache' = cache
           ELSE \E found \in Picked(IF inWorkspace # {} THEN inWorkspace
                                    ELSE IF candidates # {} THEN candidates ELSE list) :
                   Finish(r, request, found, AfterSet(cache, MetaKey(request), found, t), t)
        /\ UNCHANGED serverVars

\* Mutant: an attempt that fails is not counted.
NextAttempt_Uncounted(n) == n
NextAttempt(n) == n + 1

\* requestWithRetry(): the request fails or its timeout ends it, and is sent again at once.
FetchFails(r, t) ==
    LET render == renders[r]
    IN  /\ render.at = "fetching"
        /\ IF render.attempt < RequestAttempts
           THEN renders' = [renders EXCEPT ![r] =
                               Fetching(render.request, NextAttempt(render.attempt), t)]
           ELSE RenderEnds(r, render.request, Failed, t)
        /\ UNCHANGED <<serverVars, cache>>

\* A 404 is not tried again.
FetchRefused(r, t) ==
    /\ renders[r].at = "fetching"
    /\ RenderEnds(r, renders[r].request, NotFound, t)
    /\ UNCHANGED <<serverVars, cache>>

\* The caller takes what was rendered.
RenderForgotten(r) ==
    /\ renders' = [renders EXCEPT ![r] = [at |-> "over"]]
    /\ UNCHANGED <<serverVars, cache>>

ClientTimersAllow(t) ==
    \A r \in Renders : renders[r].at = "fetching" => t < renders[r].sent + RequestTimeout

-----------------------------------------------------------------------------
SnapshotsOfPrompts ==
    [prompt : Prompts, versions : SUBSET Versions, published : SUBSET Versions]
ClientTypeOK ==
    /\ prompts \in [Prompts -> PromptRow]
    /\ \A e \in Editors : edits[e].at \in {"idle", "rollback", "publish", "done"}
    /\ cache \in Seq([key : {MetaKey(q) : q \in RenderRequest} \cup {RenderKey(q) : q \in RenderRequest},
                      value : SnapshotsOfPrompts
                        \cup [outcome : {"rendered"}, prompt : Prompts, version : Versions],
                      expiresAt : Nat])
    /\ \A r \in Renders : renders[r].at \in {"idle", "fetching", "done", "over"}

\* The cache holds one entry per key and no more than it may.
CacheSound ==
    /\ Len(cache) <= MaxEntries
    /\ \A i, j \in DOMAIN cache : cache[i].key = cache[j].key => i = j

\* A fact now, or one that has been since then.
Since(fact, t) == fact \in FactsOf(prompts) \/ ceased[fact] >= t

\* What is rendered was so not longer ago than two lives of a cache entry, of the prompt
\* found and then of what was rendered from it, and one request account for: the prompt
\* bears the name asked for, or no prompt did; the version is the one asked for, or if
\* none was, it was published, or no version of that prompt was, as it is before a first
\* publication and in the middle of any.  That the prompt is of the workspace asked for is
\* not said: it is cached under its key alone.
PromptIsRecent ==
    \A r \in Renders :
       (renders[r].at = "done" /\ renders[r].result.outcome = "rendered") =>
          LET request == renders[r].request
              prompt == renders[r].result.prompt
              version == renders[r].result.version
              since == renders[r].when - 2 * Ttl - RequestTimeout
          IN  /\ prompt \in Matches[request.key]
              /\ NameOf[prompt] = request.key \/ Since(<<"absent", request.key>>, since)
              /\ version \in prompts[prompt].versions
              /\ IF request.version # Published THEN version = request.version
                 ELSE \/ Since(<<"published", prompt, version>>, since)
                      \/ Since(<<"unpublished", prompt>>, since)
=============================================================================
