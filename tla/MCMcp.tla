------------------------------- MODULE MCMcp -------------------------------
(* A small instance of Mcp for TLC. *)
EXTENDS Mcp

\* Two tools of one server.
MCToolOf == [e1 |-> <<"server", "tool1">>, e2 |-> <<"server", "tool2">>]

MCBatchRequests == <<"e1", "e2">>

\* Three calls on a session; executions that meet their limit, on a server that comes and
\* goes; a batch, in parallel or not; the runtime's life around a session and an
\* execution; discoveries on a session that comes and goes; and authorizations.
MCWorkloads ==
    {{"c1", "c2", "c3"}, {"e1", "e2", "s1"}, {"e1", "e2", "batch"},
     {"c1", "c2", "e1", "runtime"}, {"c1", "d1", "d2"}, {"a1", "a2"}}
=============================================================================
