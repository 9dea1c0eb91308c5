-------------------------------- MODULE Kernel --------------------------------
(***************************************************************************)
(* The AI kernel (ai-kernel/src/kernel, pipeline, execution, tools,        *)
(* providers, memory, integrations): its start by the first request and    *)
(* the pipeline every request goes through, together with the AI service   *)
(* and the prompt client they call.  A stage of the pipeline, or an attempt *)
(* of a call it makes, is an action; other services answer, fail or do not  *)
(* answer before a timeout as they will.                                   *)
(***************************************************************************)
EXTENDS AIService, PromptClient, FiniteSetsExt

CONSTANTS
    Requests,           \* POST /execute
    Direct,             \* calls of the AI service by others than the kernel
    BootProbe,          \* ProviderModule's GET /providers
    LlmAttempts,        \* of AIServiceClient.execute()
    ChatAttempts,       \* of ChatServiceClient.withRetries()
    Workloads           \* bounds: what the environment does

ASSUME KernelAssumption ==
    /\ {LlmAttempts, ChatAttempts} \subseteq Nat \ {0}
    /\ (Direct \X {0}) \cup (Requests \X (1 .. LlmAttempts)) \subseteq Calls
    /\ Requests \subseteq Renders
    /\ BootProbe \in Probes

\* What the requests of a workload, and other callers, ask for.
ASSUME WorkloadAssumption == \A load \in Workloads :
    /\ DOMAIN load.requests \subseteq Requests
    /\ \A r \in DOMAIN load.requests : /\ load.requests[r].provider \in Names
                                      /\ load.requests[r].render \subseteq RenderRequest
    /\ load.order \subseteq (Requests \X Requests)
    /\ DOMAIN load.direct \subseteq Direct
    /\ \A d \in DOMAIN load.direct : load.direct[d].kind \in CallKinds /\ load.direct[d].provider \in Names
    /\ load.probes \subseteq Probes /\ load.names \subseteq Names
    /\ load.turning \subseteq Providers
    /\ DOMAIN load.edits \subseteq Editors /\ load.prompts \in [Prompts -> PromptRow]

VARIABLES
    kernel,         \* the kernel of kernel.factory.ts, if there is one, and the init awaited
    starter,        \* whose getKernel() starts it
    registered,     \* the provider module's providers
    requests,
    workload

kernelVars == <<kernel, starter, registered, requests, workload>>
kernelOnly == <<kernel, starter, registered, workload>>

\* The modules whose init awaits an answer, in the order of their init. Without an URL the
\* AI service has no client, and neither its module nor the providers' awaits anything.
Awaited == IF workload.ai THEN <<"AIService", "Provider", "Prompt", "Chat", "Workspace">>
           ELSE <<"Prompt", "Chat", "Workspace">>

Init ==
    /\ ServiceInit /\ ClientInit
    /\ workload \in Workloads
    /\ \A p \in Providers \ workload.turning : up[p]
    /\ prompts = workload.prompts
    /\ kernel = [at |-> "none", init |-> 0]
    /\ starter = {}
    /\ registered = {}
    /\ requests = [r \in Requests |-> [at |-> "idle", attempt |-> 0]]

Moves(r, at) == requests' = [requests EXCEPT ![r].at = at]
Attempts(r, at, n) == requests' = [requests EXCEPT ![r] = [at |-> at, attempt |-> n]]
Answers(r, success) ==
    requests' = [requests EXCEPT ![r] = [at |-> "answered", attempt |-> @.attempt,
                                         success |-> success]]

\* The client of a module is there once its init has begun.
HasClient(m) ==
    \/ kernel.at \in {"started", "dead"} /\ m \in {Awaited[i] : i \in DOMAIN Awaited}
    \/ kernel.at = "starting" /\ \E i \in 1 .. kernel.init : Awaited[i] = m

-----------------------------------------------------------------------------
\* getKernel() and Kernel.start()

\* The first request makes the kernel and awaits its start; those that come while it is
\* starting find the kernel made and go on with it. Without an AI service the provider
\* module falls back to one provider that throws.
Arrives(r) ==
    /\ requests[r].at = "idle" /\ r \in DOMAIN workload.requests
    /\ \A before \in workload.order : before[2] = r => requests[before[1]].at = "answered"
    /\ IF kernel.at = "none"
       THEN /\ kernel' = [at |-> "starting", init |-> 1]
            /\ starter' = {r}
            /\ registered' = {p \in {"ollama"} : ~workload.ai}
            /\ Moves(r, "starting")
       ELSE /\ UNCHANGED <<kernel, starter, registered>>
            /\ Moves(r, "memory")
    /\ UNCHANGED <<workload, serviceVars, promptVars>>

\* The execution module's init throws without a client of the AI service: the modules are
\* disposed of, the start fails, and the kernel stays what it is.
LastInit ==
    IF workload.ai
    THEN /\ kernel' = [kernel EXCEPT !.at = "started"]
         /\ registered' = registered
         /\ requests' = [r \in Requests |-> IF r \in starter THEN [requests[r] EXCEPT !.at = "memory"]
                                            ELSE requests[r]]
    ELSE /\ kernel' = [kernel EXCEPT !.at = "dead"]
         /\ registered' = {}
         /\ requests' = [r \in Requests |->
                            IF r \in starter
                            THEN [at |-> "answered", attempt |-> 0, success |-> FALSE]
                            ELSE requests[r]]

NextInit ==
    IF kernel.init < Len(Awaited)
    THEN /\ kernel' = [kernel EXCEPT !.init = @ + 1]
         /\ UNCHANGED <<registered, requests>>
    ELSE LastInit

\* The health check of a module's init is answered or fails, which it does not mind.
InitAnswered ==
    /\ kernel.at = "starting" /\ Awaited[kernel.init] # "Provider"
    /\ NextInit
    /\ UNCHANGED <<starter, workload, serviceVars, promptVars>>

\* getAvailableProviders(): GET /providers reaches the AI service, ...
ProvidersAsked ==
    /\ kernel.at = "starting" /\ Awaited[kernel.init] = "Provider" /\ workload.reachable
    /\ HealthAsked(BootProbe, Providers)
    /\ UNCHANGED <<kernelVars, promptVars>>

\* ... and what it says is registered, for good; or it is not reached, or the answer is late.
ProvidersRegistered ==
    /\ kernel.at = "starting" /\ Awaited[kernel.init] = "Provider"
    /\ kernel' = [kernel EXCEPT !.init = @ + 1]
    /\ \/ probes[BootProbe].at = "answered" /\ registered' = probes[BootProbe].healthy
       \/ registered' = {}
    /\ UNCHANGED <<starter, requests, workload, serviceVars, promptVars>>

-----------------------------------------------------------------------------
\* The pipeline: memory, plan and prompt, execution, output, persistence

Profile(r) == workload.requests[r]

\* MemoryLoaderStage: any trouble with the conversation is no conversation.
MemoryLoads(r) ==
    /\ requests[r].at = "memory"
    /\ IF HasClient("Chat") THEN Attempts(r, "loading", 1) ELSE Moves(r, "prompt")
    /\ UNCHANGED <<kernelOnly, serviceVars, promptVars>>

MessagesListed(r) ==
    /\ requests[r].at = "loading"
    /\ Moves(r, "prompt")
    /\ UNCHANGED <<kernelOnly, serviceVars, promptVars>>

ListingFails(r) ==
    /\ requests[r].at = "loading" /\ workload.chatFails
    /\ IF requests[r].attempt < ChatAttempts THEN Attempts(r, "loading", requests[r].attempt + 1)
       ELSE Moves(r, "prompt")
    /\ UNCHANGED <<kernelOnly, serviceVars, promptVars>>

\* PlannerExecutorStage and PromptCompilerStage: a prompt key needs the prompt client.
PromptCompiles(r) ==
    LET request == Profile(r).render
    IN  /\ requests[r].at = "prompt"
        /\ IF request = {} THEN Moves(r, "engine") /\ UNCHANGED promptVars
           ELSE IF ~HasClient("Prompt") THEN Answers(r, FALSE) /\ UNCHANGED promptVars
           ELSE /\ \E q \in request : RenderBegins(r, q, now)
                /\ Moves(r, "rendering")
        /\ UNCHANGED <<kernelOnly, serviceVars>>

\* A prompt that is not found may be replaced by the request's own, a failure may not.
PromptCompiled(r) ==
    /\ requests[r].at = "rendering" /\ renders[r].at = "done"
    /\ IF \/ renders[r].result.outcome = "rendered"
          \/ renders[r].result.outcome = "not_found" /\ Profile(r).hasPrompt
       THEN Moves(r, "engine") ELSE Answers(r, FALSE)
    /\ RenderForgotten(r)
    /\ UNCHANGED <<kernelOnly, serviceVars>>

\* Mutant: the engine is not asked for.
EngineReady_Always == TRUE
\* getExecutionEngine() throws before the execution module's init.
EngineReady == kernel.at = "started"

\* ExecutionEngineStage, up to the tools: an unknown one throws, what a known one says or
\* throws is only noted, and only the http tool waits for anyone.
EngineBegins(r) ==
    /\ requests[r].at = "engine"
    /\ IF ~EngineReady \/ Profile(r).tool = "unknown" THEN Answers(r, FALSE)
       ELSE Moves(r, IF Profile(r).tool = "http" THEN "tool" ELSE "llm")
    /\ UNCHANGED <<kernelOnly, serviceVars, promptVars>>

\* The http tool has no timeout.
HttpAnswers(r) ==
    /\ requests[r].at = "tool"
    /\ Moves(r, "llm")
    /\ UNCHANGED <<kernelOnly, serviceVars, promptVars>>

\* LLMExecutor: only a provider registered at the start will do.
LlmBegins(r) ==
    /\ requests[r].at = "llm"
    /\ IF Profile(r).provider \in registered
       THEN Attempts(r, "waiting", 1) /\ calls' = CallSent(<<r, 1>>)
       ELSE Answers(r, FALSE) /\ calls' = calls
    /\ UNCHANGED <<kernelOnly, now, healthVars, rows, promptVars>>

Attempt(r) == <<r, requests[r].attempt>>

\* The attempt's call reaches the AI service.
LlmArrives(r, n) ==
    /\ CallArrives(<<r, n>>, "execute", Profile(r).provider, TRUE)
    /\ UNCHANGED <<kernelVars, promptVars>>

\* The answer makes the output; persistence finds no text to persist.
LlmAnswered(r) ==
    /\ requests[r].at = "waiting"
    /\ calls[Attempt(r)].at = "answered" /\ calls[Attempt(r)].ok
    /\ Answers(r, TRUE)
    /\ UNCHANGED <<kernelOnly, serviceVars, promptVars>>

\* The call is answered with an error, is lost, or takes longer than the client's timeout,
\* which does not stop what it has begun.
LlmFails(r) ==
    /\ requests[r].at = "waiting"
    /\ IF requests[r].attempt < LlmAttempts
       THEN /\ Attempts(r, "waiting", requests[r].attempt + 1)
            /\ calls' = CallSent(<<r, requests[r].attempt + 1>>)
       ELSE Answers(r, FALSE) /\ calls' = calls
    /\ UNCHANGED <<kernelOnly, now, healthVars, rows, promptVars>>

-----------------------------------------------------------------------------
\* The environment, within the bounds of the workload

Unmoved == UNCHANGED <<kernelVars, promptVars>>

Tick ==
    /\ now < workload.horizon
    /\ kernel.at = "starting" => workload.slowStart
    /\ ClientTimersAllow(now)
    /\ ServiceTick
    /\ Unmoved

DirectCalled(d) ==
    /\ d \in DOMAIN workload.direct /\ calls[<<d, 0>>].at = "idle"
    /\ calls' = CallSent(<<d, 0>>)
    /\ UNCHANGED <<now, healthVars, rows>> /\ Unmoved

DirectArrives(d) ==
    /\ d \in DOMAIN workload.direct
    /\ LET call == workload.direct[d] IN CallArrives(<<d, 0>>, call.kind, call.provider, call.hasModel)
    /\ Unmoved

CallMoves(c) ==
    /\ \/ EmbedChecked(c) \/ ProviderAnswers(c) \/ ToolsWanted(c) \/ ProviderFails(c) \/ Stored(c)
    /\ Unmoved

HealthMoves ==
    /\ \/ \E h \in workload.probes : \/ HealthAsked(h, Providers)
                                     \/ \E p \in workload.names : HealthAsked(h, {p})
       \/ \E h \in Probes, p \in Providers :
             ProviderReplies(h, p) \/ HealthTold(h, p) \/ HealthTimesOut(h, p)
       \/ \E p \in workload.turning : ProviderTurns(p)
    /\ Unmoved

FetchEnds(r) == PromptsFetched(r, now) \/ FetchFails(r, now) \/ FetchRefused(r, now)

\* A call of the prompt service, of a kind and on a prompt as the workload has it.
PromptEdited(e, p) ==
    LET May(kind) == <<kind, p>> \in workload.edits[e]
    IN  \/ May("create") /\ CreatePrompt(e, p, now)
        \/ May("delete") /\ DeletePrompt(e, p, now)
        \/ \E v \in Versions :
              \/ /\ May("version")
                 /\ \E isPublished \in BOOLEAN : CreateVersion(e, p, v, isPublished, now)
              \/ May("rollback") /\ Rollback(e, p, v, now)
              \/ (May("publish") \/ edits[e].at = "rollback") /\ PublishBegins(e, p, v, now)

PromptsMove ==
    /\ \/ \E r \in Renders : PromptsRead(r)
       \/ \E e \in DOMAIN workload.edits, p \in Prompts : PromptEdited(e, p)
       \/ \E e \in Editors : PublishEnds(e, now)
    /\ UNCHANGED <<kernelVars, serviceVars>>

PromptFetchEnds(r) == FetchEnds(r) /\ UNCHANGED <<kernelVars, serviceVars>>

RequestMoves(r) ==
    \/ MemoryLoads(r) \/ MessagesListed(r) \/ ListingFails(r)
    \/ PromptCompiles(r) \/ PromptFetchEnds(r) \/ PromptCompiled(r)
    \/ EngineBegins(r) \/ LlmBegins(r) \/ LlmAnswered(r) \/ LlmFails(r)

StartMoves == InitAnswered \/ ProvidersRegistered

Next ==
    \/ StartMoves \/ ProvidersAsked
    \/ \E r \in Requests :
          \/ Arrives(r) \/ RequestMoves(r) \/ HttpAnswers(r)
          \/ \E n \in 1 .. LlmAttempts : LlmArrives(r, n)
    \/ \E d \in Direct : DirectCalled(d) \/ DirectArrives(d)
    \/ \E c \in Calls : CallMoves(c)
    \/ HealthMoves \/ PromptsMove \/ Tick

vars == <<kernelVars, serviceVars, promptVars>>

Spec == Init /\ [][Next]_vars

\* What the kernel does itself it does in the end, and every call it makes of the AI
\* service, the chat and the prompt service and in its modules' init has a timeout. Nothing
\* is assumed of the services, nor of the http tool.
FairSpec ==
    /\ Spec
    /\ WF_vars(StartMoves)
    /\ \A r \in Requests : WF_vars(RequestMoves(r))

-----------------------------------------------------------------------------
KernelTypeOK ==
    /\ kernel \in [at : {"none", "starting", "started", "dead"}, init : 0 .. Len(Awaited)]
    /\ starter \subseteq Requests
    /\ registered \subseteq Providers \cup {"ollama"}
    /\ \A r \in Requests :
          /\ requests[r].at \in {"idle", "starting", "memory", "loading", "prompt", "rendering",
                                 "engine", "tool", "llm", "waiting", "answered"}
          /\ requests[r].attempt \in Nat

CallsOf(r) == {<<r, n>> : n \in 1 .. LlmAttempts}

\* A request succeeds only with a kernel that has started, through a provider registered
\* at the start, and with an answer of that provider; whatever retries there are at either
\* end, a provider runs for it a bounded number of times and never before the request gets
\* there.
AnswersAreEarned ==
    \A r \in DOMAIN workload.requests :
       LET executions == [n \in 1 .. LlmAttempts |-> calls[<<r, n>>].executions]
       IN  /\ SumFunctionOnSet(executions, 1 .. LlmAttempts) <= LlmAttempts * AttemptsOf(Profile(r).provider, "execute")
           /\ (\E c \in CallsOf(r) : calls[c].at # "idle") =>
                 kernel.at = "started" /\ Profile(r).provider \in registered
           /\ (requests[r].at = "answered" /\ requests[r].success) =>
                 \E c \in CallsOf(r) :
                    calls[c].at = "answered" /\ calls[c].ok /\ calls[c].executions > 0

\* A kernel whose start failed has no providers and never lets a request succeed.
DeadAnswersNothing ==
    kernel.at = "dead" =>
       /\ registered = {}
       /\ \A r \in Requests : requests[r].at = "answered" => ~requests[r].success

\* The kernel and what it calls: answers are earned, providers reported healthy and prompts
\* rendered are not older than the caches explain, calls and caches stay within bounds.
KernelSound ==
    /\ ServiceTypeOK /\ ClientTypeOK /\ KernelTypeOK
    /\ HealthIsRecent /\ CallsAreBounded
    /\ CacheSound /\ PromptIsRecent
    /\ AnswersAreEarned /\ DeadAnswersNothing

\* Every request is answered, or waits for the answer the http tool waits for without a
\* timeout, whatever other services do and however the start ends.
KernelSettles ==
    \A r \in Requests : requests[r].at # "idle" ~> requests[r].at \in {"answered", "tool"}
=============================================================================
