----------------------------- MODULE MCAgentTeam -----------------------------
(* Small instances of AgentTeam for TLC. *)
EXTENDS AgentTeam, TLC

MCEqual == [a \in {"a1", "a2", "a3"} |-> 1]
MCHeavy == [MCEqual EXCEPT !["a1"] = 2]

Request(strategy, agents) ==
    [id |-> "k", agents |-> agents, strategy |-> strategy, parallel |-> 0, quorum |-> 0,
     voting |-> "", failFast |-> FALSE, weight |-> MCEqual, timeout |-> TRUE]
Trio == <<"a1", "a2", "a3">>
Pair == <<"a1", "a2">>

\* Requests of every strategy, among them invalid ones.
MCStrategies ==
    {Request("FIRST_SUCCESS", Trio), Request("ALL_SUCCESS", Pair),
     [Request("PARALLEL", Trio) EXCEPT !.parallel = 2],
     [Request("SEQUENTIAL", Trio) EXCEPT !.failFast = TRUE], Request("SEQUENTIAL", Pair),
     [Request("QUORUM", Trio) EXCEPT !.quorum = 2], Request("QUORUM", Pair),
     [Request("QUORUM", Pair) EXCEPT !.quorum = 3]}
        \cup {[Request("MAJORITY_VOTING", Trio) EXCEPT !.voting = v, !.weight = w] :
                v \in VotingMethods, w \in {MCEqual, MCHeavy}}
\* Requests that overlap, under one id or two.
MCOverlapping ==
    {Request("PARALLEL", Pair), [Request("FIRST_SUCCESS", Pair) EXCEPT !.timeout = FALSE]}
MCOther == {[Request("PARALLEL", <<"a2">>) EXCEPT !.id = i, !.timeout = FALSE] : i \in {"k", "l"}}
MCRequests == MCStrategies \cup MCOverlapping \cup MCOther

Letter(id, from, to, prio, time) == [id |-> id, from |-> from, to |-> to, prio |-> prio, time |-> time]
MCMail == {Letter(1, "a1", "a2", 2, 5), Letter(2, "a1", "a2", 2, 3), Letter(3, "a1", "all", 0, 4),
           Letter(4, "coordinator", "all", 2, 1)}
Letters(ids) == {m \in MCMail : m.id \in ids}

Nothing ==
    [assign |-> [c \in {"c", "d"} |-> {}], statuses |-> FALSE, handoffs |-> {}, broadcasts |-> {},
     mail |-> {}, operations |-> {}, present |-> {}, joining |-> {},
     unregister |-> [u \in {"u", "v"} |-> {}],
     leaving |-> {}, ailing |-> {}]
MCWorkloads ==
    {[Nothing EXCEPT !.assign["c"] = MCStrategies, !.leaving = {"a2"}, !.ailing = {"a3"}],
     [Nothing EXCEPT !.assign = [c \in {"c", "d"} |-> IF c = "c" THEN MCOverlapping ELSE MCOther],
                     !.statuses = TRUE, !.leaving = {"a2"}],
     [Nothing EXCEPT !.handoffs = {"h"}, !.leaving = {"a1"}, !.ailing = {"a2"}],
     [Nothing EXCEPT !.broadcasts = {"b"}, !.present = {"a1", "coordinator"}, !.leaving = {"a2"}],
     [Nothing EXCEPT !.broadcasts = {"b"}, !.present = {"a1", "a2"}],
     [Nothing EXCEPT !.mail = Letters({1, 2, 3}), !.operations = {"send", "pop", "outbox"},
                     !.present = {"a1", "a2"}],
     [Nothing EXCEPT !.mail = Letters({1, 4}), !.operations = {"send", "outbox"},
                     !.present = {"a1"}, !.joining = {"a2"}, !.unregister["u"] = {"a2"},
                     !.unregister["v"] = {"a1", "a2"}],
     [Nothing EXCEPT !.mail = Letters({1, 3}), !.operations = {"channel"}, !.present = {"a2"},
                     !.unregister["u"] = {"a2"}]}
=============================================================================
