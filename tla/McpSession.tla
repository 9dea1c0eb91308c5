----------------------------- MODULE McpSession -----------------------------
(***************************************************************************)
(* One MCP session (mcp/sessions/mcp-session.ts) over a stdio transport    *)
(* (mcp/transport/stdio.transport.ts on base.transport.ts), kept by the    *)
(* session manager (mcp-session-manager.ts).  The server is a process:     *)
(* it answers late or never, writes to stderr, and exits when it likes.    *)
(***************************************************************************)
EXTENDS Naturals, FiniteSets

CONSTANTS
    SessionCalls,           \* calls of the session's and the manager's operations
    MaxReconnectAttempts,
    MaxOpens                \* bound: how often the owner opens the transport again

ASSUME SessionAssumption == MaxReconnectAttempts \in Nat \ {0} /\ MaxOpens \in Nat

VARIABLES
    connected,      \* the transport's flag
    process,        \* the server: "none", "running", "ending" (told to), "exited"
    opening,        \* the owner's connect of the transport: "no", "waiting", "late"
    opens,          \* how often the owner did that
    pending,        \* pendingRequests: the calls whose answer is awaited
    status,         \* the session's
    attempts,       \* reconnectAttempts
    beaten,         \* lastHeartbeat is set
    heartbeatTimer, \* armed
    idleTimer,      \* armed
    kept,           \* the manager's map has the session
    shuttingDown,
    asked           \* what each call does and how far it is

transportVars == <<connected, process, opening, opens, pending>>
timerVars == <<heartbeatTimer, idleTimer>>
managerVars == <<kept, shuttingDown>>
sessionVars == <<transportVars, status, attempts, beaten, timerVars, managerVars, asked>>

MCPSessionStatus == {"IDLE", "CONNECTING", "CONNECTED", "DISCONNECTED", "RECONNECTING", "ERROR"}
Closings == {"disconnect", "remove", "cleanup", "shutdown"}
NotAsked == [op |-> "none", at |-> "idle"]

\* The transport comes connected from TransportFactory.createAndConnect, or unconnected.
SessionInit ==
    /\ connected \in BOOLEAN
    /\ process = IF connected THEN "running" ELSE "none"
    /\ opening = "no"
    /\ opens = 0
    /\ pending = {}
    /\ status = "IDLE"
    /\ attempts = 0
    /\ beaten = FALSE
    /\ heartbeatTimer = FALSE
    /\ idleTimer = FALSE
    /\ kept = FALSE
    /\ shuttingDown = FALSE
    /\ asked = [c \in SessionCalls |-> NotAsked]

Idle(c) == asked[c].at = "idle"
At(c, ops, place) == asked[c].op \in ops /\ asked[c].at = place
Asks(c, op, place) == asked' = [asked EXCEPT ![c] = [op |-> op, at |-> place]]
Goes(c, place) == asked' = [asked EXCEPT ![c].at = place]
SetTimers(heartbeat, idle) == heartbeatTimer' = heartbeat /\ idleTimer' = idle
Cleanup == SetTimers(FALSE, FALSE)

-----------------------------------------------------------------------------
(* connect, create and attemptReconnect.                                   *)

\* connect() while the transport is connected: nothing is awaited.
Connected ==
    /\ status' = "CONNECTED"
    /\ beaten' = TRUE
    /\ attempts' = 0
    /\ SetTimers(TRUE, TRUE)

\* create(): refused while shutting down.
Create(c) ==
    /\ Idle(c)
    /\ status = "IDLE"
    /\ ~shuttingDown
    /\ kept' = TRUE
    /\ IF connected
       THEN Connected /\ Asks(c, "create", "done")
       ELSE status' = "CONNECTING" /\ Asks(c, "create", "connecting")
            /\ UNCHANGED <<beaten, attempts, timerVars>>
    /\ UNCHANGED <<transportVars, shuttingDown>>

\* The transport is connected without a command to spawn, and fails: the manager
\* forgets the session.
CreateFails(c) ==
    /\ At(c, {"create"}, "connecting")
    /\ status' = "ERROR"
    /\ kept' = FALSE
    /\ Goes(c, "done")
    /\ UNCHANGED <<transportVars, attempts, beaten, timerVars, shuttingDown>>

ShouldReconnect == status = "ERROR" /\ attempts < MaxReconnectAttempts

\* transport.disconnect(): the server is told to end, and may take its time over it or
\* live on: the timer that should kill it looks at process.killed, which the SIGTERM has
\* set already.  What is left to do is left to the exit event.
TransportDisconnect(c, op) ==
    IF connected /\ process # "none"
    THEN process' = "ending" /\ Asks(c, op, "closing")
    ELSE UNCHANGED process /\ Asks(c, op, "closed")

\* attemptReconnect(), which the manager's monitor calls.
AttemptReconnect(c) ==
    /\ Idle(c)
    /\ kept
    /\ ~shuttingDown
    /\ ShouldReconnect
    /\ status' = "RECONNECTING"
    /\ attempts' = attempts + 1
    /\ TransportDisconnect(c, "reconnect")
    /\ UNCHANGED <<connected, opening, opens, pending, beaten, timerVars, managerVars>>

\* The attempt failed: the last one leaves ERROR, whatever the transport's events
\* have written, and reconnectDeadSessions() drops the session.
ReconnectFails(c, now) ==
    /\ status' = IF attempts >= MaxReconnectAttempts THEN "ERROR" ELSE now
    /\ kept' = (kept /\ ~(status' = "ERROR" /\ attempts >= MaxReconnectAttempts))
    /\ Goes(c, "done")
    /\ UNCHANGED <<attempts, beaten, timerVars>>

\* After the interval: connect().
ReconnectConnects(c) ==
    /\ At(c, {"reconnect"}, "closed")
    /\ CASE status = "CONNECTED" -> ReconnectFails(c, status)
         [] status # "CONNECTED" /\ connected ->
                Connected /\ Goes(c, "done") /\ UNCHANGED kept
         [] OTHER -> /\ status' = "CONNECTING"
                     /\ Goes(c, "connecting")
                     /\ UNCHANGED <<attempts, beaten, timerVars, kept>>
    /\ UNCHANGED <<transportVars, shuttingDown>>

ReconnectRejected(c) ==
    /\ At(c, {"reconnect"}, "connecting")
    /\ ReconnectFails(c, "ERROR")
    /\ UNCHANGED <<transportVars, shuttingDown>>

-----------------------------------------------------------------------------
(* disconnect, and what the manager does with it.                          *)

\* disconnect(), remove(), cleanupTimedOutSessions() or shutdown().
DisconnectBegin(c, op) ==
    /\ Idle(c)
    /\ status # "IDLE"
    /\ op # "disconnect" => kept
    /\ op = "cleanup" => beaten /\ ~shuttingDown
    /\ shuttingDown' = (shuttingDown \/ op = "shutdown")
    /\ IF status = "DISCONNECTED"
       THEN /\ Asks(c, op, "done")
            /\ kept' = (kept /\ op = "disconnect")
            /\ UNCHANGED <<process, timerVars>>
       ELSE Cleanup /\ TransportDisconnect(c, op) /\ UNCHANGED kept
    /\ UNCHANGED <<connected, opening, opens, pending, status, attempts, beaten>>

DisconnectEnds(c) ==
    /\ At(c, Closings, "closed")
    /\ status' = "DISCONNECTED"
    /\ beaten' = FALSE
    /\ kept' = (kept /\ asked[c].op = "disconnect")
    /\ Goes(c, "done")
    /\ UNCHANGED <<transportVars, attempts, timerVars, shuttingDown>>

-----------------------------------------------------------------------------
(* request and heartbeat.                                                  *)

\* transport.request(): the entry is made before the message is sent.
TransportRequest(c, op) ==
    IF connected
    THEN pending' = pending \cup {c} /\ Asks(c, op, "waiting")
    ELSE UNCHANGED pending /\ Asks(c, op, "refused")

Request(c) ==
    /\ Idle(c)
    /\ status = "CONNECTED"
    /\ TransportRequest(c, "request")
    /\ UNCHANGED <<connected, process, opening, opens, status, attempts, beaten, timerVars,
                   managerVars>>

\* heartbeat(), by the session's timer or the manager's heartbeatAll().
Heartbeat(c) ==
    /\ Idle(c)
    /\ status = "CONNECTED"
    /\ heartbeatTimer \/ kept
    /\ TransportRequest(c, "heartbeat")
    /\ UNCHANGED <<connected, process, opening, opens, status, attempts, beaten, timerVars,
                   managerVars>>

\* handleMessage(): a result or an error for a request that is pending; an answer
\* that comes after the timeout finds no entry.
HandleMessage(c, ok) ==
    /\ c \in pending
    /\ process \in {"running", "ending"}
    /\ pending' = pending \ {c}
    /\ Goes(c, IF ok THEN "answered" ELSE "dropped")
    /\ UNCHANGED <<connected, process, opening, opens, status, attempts, beaten, timerVars,
                   managerVars>>

RequestTimeout(c) ==
    /\ c \in pending
    /\ pending' = pending \ {c}
    /\ Goes(c, "dropped")
    /\ UNCHANGED <<connected, process, opening, opens, status, attempts, beaten, timerVars,
                   managerVars>>

\* The awaiting call goes on: it arms the idle timer again whatever has become of the
\* session; health() reports a failure, and never throws it.
RequestEnds(c) ==
    /\ asked[c].at \in {"answered", "dropped", "refused"}
    /\ LET beat == asked[c].op = "heartbeat"
       IN  /\ beaten' = (beaten \/ beat)
           /\ idleTimer' = (idleTimer \/ beat \/ asked[c].at = "answered")
           /\ status' = IF ~beat /\ asked[c].at = "refused" THEN "ERROR" ELSE status
    /\ Goes(c, "done")
    /\ UNCHANGED <<transportVars, attempts, heartbeatTimer, managerVars>>

\* handleIdleTimeout(): the transport is left as it is.
HandleIdleTimeout ==
    /\ idleTimer
    /\ status' = "ERROR"
    /\ Cleanup
    /\ UNCHANGED <<transportVars, attempts, beaten, managerVars, asked>>

-----------------------------------------------------------------------------
(* The transport's events and its owner.                                   *)

\* The exit event: handleDisconnect() rejects what is pending and tells the session;
\* every disconnect that waits resolves.
\* Mutant: the session does not listen.
HandleExit_Unheard ==
    /\ process \in {"running", "ending"}
    /\ connected' = FALSE
    /\ process' = IF \E c \in SessionCalls : asked[c].at = "closing" THEN "none" ELSE "exited"
    /\ pending' = {}
    /\ asked' = [c \in SessionCalls |->
                    IF c \in pending THEN [asked[c] EXCEPT !.at = "dropped"]
                    ELSE IF asked[c].at = "closing" THEN [asked[c] EXCEPT !.at = "closed"]
                    ELSE asked[c]]
    /\ UNCHANGED <<opening, opens, status, attempts, beaten, timerVars, managerVars>>
HandleExit ==
    /\ process \in {"running", "ending"}
    /\ connected' = FALSE
    /\ process' = IF \E c \in SessionCalls : asked[c].at = "closing" THEN "none" ELSE "exited"
    /\ pending' = {}
    /\ asked' = [c \in SessionCalls |->
                    IF c \in pending THEN [asked[c] EXCEPT !.at = "dropped"]
                    ELSE IF asked[c].at = "closing" THEN [asked[c] EXCEPT !.at = "closed"]
                    ELSE asked[c]]
    /\ IF status = "CONNECTED"
       THEN status' = "ERROR" /\ Cleanup
       ELSE UNCHANGED <<status, timerVars>>
    /\ UNCHANGED <<opening, opens, attempts, beaten, managerVars>>

\* Output on stderr, or a line that is no JSON: an "error" event.
HandleError ==
    /\ process \in {"running", "ending"}
    /\ status = "CONNECTED"
    /\ status' = "ERROR"
    /\ UNCHANGED <<transportVars, attempts, beaten, timerVars, managerVars, asked>>

\* The owner, who has the command, connects the transport again; it does so only when
\* the process before is gone.
OpenTransport ==
    /\ opens < MaxOpens
    /\ ~connected
    /\ opening = "no"
    /\ process \in {"none", "exited"}
    /\ opens' = opens + 1
    /\ opening' = "waiting"
    /\ process' = "running"
    /\ UNCHANGED <<connected, pending, status, attempts, beaten, timerVars, managerVars, asked>>

\* The answer to "initialize", in time or after the timeout: handleConnect() tells the
\* session, which takes it for the end of a reconnection.
Initialized(ok) ==
    /\ opening # "no"
    /\ process = "running"
    /\ opening' = "no"
    /\ connected' = ok
    /\ IF ok /\ status = "RECONNECTING"
       THEN status' = "CONNECTED" /\ SetTimers(TRUE, TRUE)
       ELSE UNCHANGED <<status, timerVars>>
    /\ UNCHANGED <<process, opens, pending, attempts, beaten, managerVars, asked>>

InitializationTimeout ==
    /\ opening = "waiting"
    /\ opening' = IF process = "running" THEN "late" ELSE "no"
    /\ UNCHANGED <<connected, process, opens, pending, status, attempts, beaten, timerVars,
                   managerVars, asked>>

-----------------------------------------------------------------------------
SessionBegins(c) ==
    \/ Create(c) \/ AttemptReconnect(c) \/ Request(c) \/ Heartbeat(c)
    \/ \E op \in Closings : DisconnectBegin(c, op)
SessionStep(c) ==
    \/ CreateFails(c) \/ ReconnectConnects(c) \/ ReconnectRejected(c)
    \/ DisconnectEnds(c) \/ RequestEnds(c)
Server ==
    \/ HandleExit \/ HandleError
    \/ \E c \in SessionCalls, ok \in BOOLEAN : HandleMessage(c, ok)
    \/ \E ok \in BOOLEAN : Initialized(ok)
SessionTimers ==
    \/ HandleIdleTimeout \/ InitializationTimeout
    \/ \E c \in SessionCalls : RequestTimeout(c)

\* A CONNECTED session has a connected transport, whatever events, timers and calls
\* came in between; pending entries are of calls that wait for them on a connected
\* transport; and the attempts stay within their bound.
SessionSound ==
    /\ status \in MCPSessionStatus
    /\ status = "CONNECTED" => connected
    /\ pending # {} => connected
    /\ pending = {c \in SessionCalls : asked[c].at = "waiting"}
    /\ attempts <= MaxReconnectAttempts
=============================================================================
