------------------------------- MODULE MCKernel -------------------------------
(* Small instances of Kernel for TLC. *)
EXTENDS Kernel, TLC

MCCalls == (Direct \X {0}) \cup (Requests \X (1 .. LlmAttempts))

Plain(provider) == [provider |-> provider, render |-> {}, hasPrompt |-> TRUE, tool |-> "none"]
Rendering(w, v) ==
    [Plain("claude") EXCEPT !.render = {[key |-> "k", workspace |-> w, version |-> v]}]

\* The name of the second prompt contains that of the first.
MCNameOf == "p" :> "k" @@ "q" :> "key"
MCWorkspaceOf == "p" :> "w1" @@ "q" :> "w2"
MCMatches == "k" :> {"p", "q"} @@ "key" :> {"q"}
NoPrompts == [p \in {"p", "q"} |-> [exists |-> FALSE, versions |-> {}, published |-> {}]]
Row(versions, published) == [exists |-> TRUE, versions |-> versions, published |-> published]

Quiet ==
    [requests |-> [r \in {} |-> r], order |-> {}, direct |-> [d \in {} |-> d],
     probes |-> {}, names |-> {}, turning |-> {}, edits |-> [e \in {} |-> e], prompts |-> NoPrompts, chatFails |-> FALSE,
     ai |-> TRUE, reachable |-> TRUE, slowStart |-> FALSE, horizon |-> 0]

\* Two requests around the start, with and without an AI service, ...
Started ==
    [Quiet EXCEPT !.requests = "r1" :> Plain("ollama") @@ "r2" :> Plain("other"),
                  !.slowStart = TRUE, !.horizon = 1]
Tools ==
    [Quiet EXCEPT !.requests = "r1" :> [Plain("claude") EXCEPT !.tool = "http"]
                                 @@ "r2" :> [Rendering("w1", 2) EXCEPT !.tool = "unknown"],
                  !.chatFails = TRUE]
Dead ==
    [Quiet EXCEPT !.requests = "r1" :> Plain("ollama") @@ "r2" :> Rendering("w1", Published),
                  !.ai = FALSE]
\* ... prompts rendered while time passes and another version is published, ...
Served ==
    [Quiet EXCEPT !.requests =
                      "r1" :> [Rendering("w1", 2) EXCEPT !.provider = "other", !.hasPrompt = FALSE]
                      @@ [r \in {"r2", "r3"} |->
                            [Rendering("w2", Published) EXCEPT !.provider = "other"]],
                  !.order = {<<"r1", "r2">>, <<"r2", "r3">>}, !.reachable = FALSE, !.horizon = 4,
                  !.edits = "e" :> {<<"publish", "p">>},
                  !.prompts = [NoPrompts EXCEPT !["p"] = Row({1, 2}, {1})]]
\* ... or while versions are published and rolled back at the same time, ...
Edits ==
    [Quiet EXCEPT !.requests = "r1" :> [Rendering("w1", Published) EXCEPT !.provider = "other"],
                  !.reachable = FALSE, !.horizon = 1,
                  !.edits = [e \in {"e", "f"} |->
                                {<<"rollback", "p">>, <<"publish", "p">>, <<"version", "p">>,
                                 <<"delete", "q">>}],
                  !.prompts = "p" :> Row({1, 2}, {2}) @@ "q" :> Row({}, {})]
\* ... and under a name no prompt bears, until one is created, ...
Named ==
    [Quiet EXCEPT !.requests = "r1" :> [Rendering("w1", Published) EXCEPT !.provider = "other"]
                               @@ "r2" :> [Rendering("w2", Published) EXCEPT !.provider = "other"],
                  !.order = {<<"r1", "r2">>}, !.reachable = FALSE, !.horizon = 4,
                  !.edits = "e" :> {<<"create", "p">>} @@ "f" :> {<<"version", "p">>},
                  !.prompts = [NoPrompts EXCEPT !["q"] = Row({1}, {})]]
\* ... by requests that overlap, ...
Overlapping == [Named EXCEPT !.order = {}, !.horizon = 1, !.edits = "e" :> {<<"create", "p">>}]
\* ... providers that fail and recover between health checks, and other callers.
Health ==
    [Quiet EXCEPT !.probes = {"h1", "h2"}, !.names = {"ollama", "other"},
                  !.turning = {"ollama"}, !.horizon = 3]
Callers ==
    [Quiet EXCEPT !.direct = "d1" :> [kind |-> "tools", provider |-> "ollama", hasModel |-> FALSE]
                          @@ "d2" :> [kind |-> "embed", provider |-> "other", hasModel |-> FALSE]
                          @@ "d3" :> [kind |-> "chat", provider |-> "other", hasModel |-> TRUE]]

MCWorkloads == {Started, Tools, Dead, Served, Edits, Named, Overlapping, Health, Callers}
=============================================================================
