------------------------ MODULE MCRuntimeBootstrap ------------------------
(* Small instances of RuntimeHealth for TLC. *)
EXTENDS RuntimeHealth, TLC

MCType == "x" :> "SINGLE_AGENT" @@ "y" :> "SINGLE_AGENT" @@ "w" :> "WORKFLOW" @@ "p" :> "PLAN"
MCAgentOf == [e \in {"x", "y", "w", "p"} |-> "builtin"]
MCBuiltin == <<"builtin">>

\* The runtime is started and shut down around some executions and registrations,
\* by one caller or by two, or the orchestrator is operated by c.
Around(es, as, bs) ==
    [executions |-> es, agents |-> as, control |-> {}, boot |-> bs, autoStart |-> TRUE,
     calls |-> {"bootstrap", "start", "shutdown"}, ailing |-> {},
     troubled |-> {}, checks |-> {}, monitored |-> FALSE]
Operated(es) ==
    [Around(es, {}, {"b"}) EXCEPT !.control = {"c"}, !.autoStart = FALSE, !.calls = {"bootstrap"}]
\* The health is checked around a shutdown in which agents come, go and err, ...
CheckedShutdown ==
    [Around({}, {"user"}, {"b"}) EXCEPT !.checks = {"h"}, !.autoStart = FALSE,
        !.calls = {"bootstrap", "shutdown"}, !.ailing = {"user"}]
\* ... while the orchestrator works, while components have trouble, ...
CheckedWork ==
    [Around({"x"}, {}, {"b"}) EXCEPT !.checks = {"h"}, !.calls = {"bootstrap"}]
CheckedTrouble ==
    [Around({}, {}, {"b"}) EXCEPT !.checks = {"h"}, !.autoStart = FALSE, !.calls = {"bootstrap"},
        !.troubled = {"Memory", "Scheduler"}]
\* ... and by the timer, two checks at a time.
Monitored ==
    [Around({}, {}, {"b"}) EXCEPT !.checks = {"h", "h2"}, !.monitored = TRUE, !.autoStart = FALSE,
        !.calls = {"bootstrap"}, !.troubled = {"CommunicationManager"}]

MCWorkloads ==
    {Around({"x"}, {"user"}, {"b"}), Around({"w", "p"}, {}, {"b"}), Around({}, {}, {"b", "b2"}),
     [Around({"x", "y"}, {}, {"b"}) EXCEPT !.calls = {"bootstrap"},
                                          !.ailing = {"builtin"}],
     Operated({"w", "x"}), CheckedShutdown, CheckedWork, CheckedTrouble, Monitored}

\* Where there are executions one caller operates the orchestrator.
ASSUME MCSerial == \A w \in MCWorkloads : w.executions # {} => Serial(w)
=============================================================================
