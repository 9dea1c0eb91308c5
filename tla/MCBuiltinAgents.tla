--------------------------- MODULE MCBuiltinAgents ---------------------------
(* Small instances of BuiltinAgents for TLC. *)
EXTENDS BuiltinAgents

MCAgentOf == [o \in {"c1", "o1", "o2"} |-> IF o \in {"c1", "o1"} THEN "a" ELSE "b"]

Base == [agent |-> "scheduler", calls |-> {"c1", "c2"}, operations |-> [c \in Calls |-> {}],
         controls |-> 0, plans |-> FALSE, clients |-> "none"]
Making(a, made) == [Base EXCEPT !.agent = a, !.operations = [c \in Calls |-> made]]
Overlapping(a) == Making(a, OperationsOf(a))
Single(a) == [Overlapping(a) EXCEPT !.calls = {"c1"}]
\* One operation of each agent, among them one that leaves something behind.
OneOf(a) == CASE a = "memory" -> {"save_shared"} [] a = "planner" -> {"plan"}
              [] a = "communication" -> {"send"} [] a = "workflow" -> {"pause-workflow"}
              [] OTHER -> {CHOOSE op \in OperationsOf(a) : TRUE}
\* A tool is executed during a batch.  A plugin is discovered, loaded, and loaded again or
\* unloaded, in every order.
Batching == [c1 |-> {"execute_batch"}, c2 |-> {"execute"}, c3 |-> {}]
Plugging == [c1 |-> {"discover"}, c2 |-> {"load"}, c3 |-> {"load", "unload"}]

\* Every agent with two calls that overlap, and with its lifecycle and an odd request
\* around one call; the memory agent with clients of each memory; the plugin agent
\* with three calls.
MCWorkloads ==
    {Overlapping(a) : a \in Agents \ {"memory", "plugin", "tool"}}
        \cup {[Making(a, OneOf(a) \cup {NoOperation}) EXCEPT !.calls = {"c1"}, !.controls = 2] :
                a \in Agents}
        \cup {Single("tool"), Single("plugin"),
              [Making("planner", {"validate"}) EXCEPT !.calls = {"c1"}, !.plans = TRUE],
              [Base EXCEPT !.agent = "tool", !.operations = Batching],
              Making("plugin", {"discover", "reload", "validate"}),
              [Base EXCEPT !.agent = "plugin", !.calls = Calls, !.operations = Plugging]}
        \cup {[Single("memory") EXCEPT !.clients = k] : k \in {"shared", "conversation", "stores"}}
=============================================================================
