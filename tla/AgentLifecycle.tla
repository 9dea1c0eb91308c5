--------------------------- MODULE AgentLifecycle ---------------------------
(***************************************************************************)
(* The lifecycle manager (agents/lifecycle/agent-lifecycle-manager.ts) and *)
(* the registry it looks agents up in.  Each call of an operation is a     *)
(* process that runs between awaits: it looks the agent up, checks the     *)
(* transition and writes the state, awaits the agent's own method, and     *)
(* writes the outcome.  The second write is not checked against the        *)
(* transition table, and any number of calls on one agent may overlap.     *)
(* AgentManager's ...All operations are one such call per agent, their     *)
(* errors swallowed.                                                       *)
(***************************************************************************)
EXTENDS Naturals, Sequences, FiniteSets

CONSTANTS
    Agents,         \* agent ids
    Removers,       \* concurrent calls of the registry's remove
    Calls           \* concurrent calls of lifecycle operations

-----------------------------------------------------------------------------
(* The agent registry (agents/registry/agent-registry.ts): which agent ids *)
(* have an entry.  register is synchronous; remove awaits the agent's      *)
(* shutdown between finding the entry and deleting it, so a removal        *)
(* overlaps with everything else.  update replaces the agent object under  *)
(* an id that is present and leaves the ids as they are; objects are not   *)
(* modelled, so it has no action.                                          *)

VARIABLES
    agents,         \* the ids the map has an entry for
    removal         \* per call of remove: the id it is removing, or "none"

agentRegistryVars == <<agents, removal>>

ASSUME RegistryAssumption == "none" \notin Agents

RegistryTypeOK ==
    /\ agents \in SUBSET Agents
    /\ removal \in [Removers -> Agents \cup {"none"}]

RegistryInit ==
    /\ agents = {}
    /\ removal = [r \in Removers |-> "none"]

\* register(agent): an id that is present is a DuplicateAgentException.
Register(a) ==
    /\ a \notin agents
    /\ agents' = agents \cup {a}
    /\ UNCHANGED removal

\* remove(agentId) up to its await of agent.shutdown().
RemoveBegin(r, a) ==
    /\ removal[r] = "none"
    /\ a \in agents
    /\ removal' = [removal EXCEPT ![r] = a]
    /\ UNCHANGED agents

\* The shutdown settled, with or without an error: the entry is deleted.
RemoveEnd(r) ==
    /\ removal[r] # "none"
    /\ agents' = agents \ {removal[r]}
    /\ removal' = [removal EXCEPT ![r] = "none"]

RegistryNext ==
    \/ \E a \in Agents : Register(a)
    \/ \E r \in Removers, a \in Agents : RemoveBegin(r, a)
    \/ \E r \in Removers : RemoveEnd(r)

-----------------------------------------------------------------------------
(* The lifecycle manager.                                                  *)

VARIABLES
    agentStates,    \* the map, "none" where it has no entry
    call,           \* the progress of each call
    initialized,    \* history: agents whose initialize() has resolved
    disturbed       \* history: agents shut down, or whose start or pause failed late

lifecycleVars == <<agentStates, call, initialized, disturbed>>
agentVars == <<agentRegistryVars, lifecycleVars>>

AgentLifecycleState ==
    {"REGISTERED", "INITIALIZING", "READY", "RUNNING", "PAUSED", "STOPPING", "STOPPED", "FAILED"}
Operations == {"initialize", "start", "stop", "pause", "resume", "restart", "shutdown"}
\* The steps operations are made of: each finds the agent, checks and awaits,
\* except that agentShutdown only awaits.
Steps == {"initialize", "start", "stop", "pause", "shutdown", "agentShutdown"}

Idle == [at |-> "idle"]
InFlight == [at : {"find", "check", "await"}, op : Operations, agent : Agents, todo : Seq(Steps)]

LifecycleTypeOK ==
    /\ RegistryTypeOK
    /\ agentStates \in [Agents -> AgentLifecycleState \cup {"none"}]
    /\ call \in [Calls -> InFlight \cup {Idle}]
    /\ initialized \in SUBSET Agents
    /\ disturbed \in SUBSET Agents

-----------------------------------------------------------------------------
ValidTransitions ==
    [REGISTERED   |-> {"INITIALIZING"},
     INITIALIZING |-> {"READY", "FAILED"},
     READY        |-> {"RUNNING", "STOPPING"},
     RUNNING      |-> {"PAUSED", "STOPPING"},
     PAUSED       |-> {"RUNNING", "STOPPING"},
     STOPPING     |-> {"STOPPED", "FAILED"},
     STOPPED      |-> {"INITIALIZING"},
     FAILED       |-> {"INITIALIZING"}]

GetAgentState(a) == IF agentStates[a] = "none" THEN "REGISTERED" ELSE agentStates[a]

\* Mutant: the table is not consulted.
IsValidTransition_Any(from, to) == TRUE

IsValidTransition(from, to) == to \in ValidTransitions[from]

SetState(a, s) == agentStates' = [agentStates EXCEPT ![a] = s]

Live(a) == GetAgentState(a) \in {"RUNNING", "PAUSED"}

\* What a call of each operation has to do: restart and shutdown stop a live
\* agent first.
StepsOf(a, op) ==
    CASE op = "restart" -> IF Live(a) THEN <<"stop", "initialize", "start">>
                                      ELSE <<"initialize", "start">>
      [] op = "resume"  -> <<"start">>
      [] OTHER          -> <<op>>
ShutdownSteps(a) == IF Live(a) THEN <<"stop", "agentShutdown">> ELSE <<"agentShutdown">>

\* The state a step claims when it starts, and the one it writes when the
\* agent's method has resolved (start and pause write nothing then).
Target == [initialize |-> "INITIALIZING", start |-> "RUNNING", stop |-> "STOPPING",
           pause |-> "PAUSED"]

\* Mutants: stop writes the agent's status instead of its lifecycle state; stop
\* forgets to leave STOPPING.
Outcome_StatusValue(step, s) ==
    CASE step = "initialize"    -> "READY"
      [] step = "stop"          -> "stopped"
      [] step = "agentShutdown" -> "none"
      [] OTHER                  -> s
Outcome_StopPending(step, s) ==
    CASE step = "initialize"    -> "READY"
      [] step = "agentShutdown" -> "none"
      [] OTHER                  -> s

Outcome(step, s) ==
    CASE step = "initialize"    -> "READY"
      [] step = "stop"          -> "STOPPED"
      [] step = "agentShutdown" -> "none"
      [] OTHER                  -> s

-----------------------------------------------------------------------------
LifecycleInit ==
    /\ RegistryInit
    /\ agentStates = [a \in Agents |-> "none"]
    /\ call = [c \in Calls |-> Idle]
    /\ initialized = {}
    /\ disturbed = {}

\* An operation is called.  restart reads the state at once, and resume is
\* refused unless the agent is paused.
Begin(c, a, op) ==
    /\ call[c] = Idle
    /\ op = "resume" => GetAgentState(a) = "PAUSED"
    /\ call' = [call EXCEPT ![c] =
                  [at |-> "find", op |-> op, agent |-> a, todo |-> StepsOf(a, op)]]
    /\ disturbed' = IF op = "shutdown" THEN disturbed \cup {a} ELSE disturbed
    /\ UNCHANGED <<agentRegistryVars, agentStates, initialized>>

\* An exception ends the call; inside shutdown's try block it first marks the
\* agent FAILED.
Throw(c) ==
    LET k == call[c]
    IN  /\ call' = [call EXCEPT ![c] = Idle]
        /\ IF k.op = "shutdown" /\ Head(k.todo) # "shutdown"
           THEN SetState(k.agent, "FAILED")
           ELSE UNCHANGED agentStates

\* await registry.find(agentId)
Find(c) ==
    /\ call[c].at = "find"
    /\ IF call[c].agent \in agents
       THEN call' = [call EXCEPT ![c].at = "check"] /\ UNCHANGED agentStates
       ELSE Throw(c)
    /\ UNCHANGED <<agentRegistryVars, initialized, disturbed>>

\* The transition is checked and the state written; the agent is called.
Check(c) ==
    LET k == call[c]
        step == Head(k.todo)
    IN  /\ k.at = "check"
        /\ step # "shutdown"
        /\ IF IsValidTransition(GetAgentState(k.agent), Target[step])
           THEN /\ SetState(k.agent, Target[step])
                /\ call' = [call EXCEPT ![c].at = "await"]
           ELSE Throw(c)
        /\ UNCHANGED <<agentRegistryVars, initialized, disturbed>>

\* shutdown stops a live agent first; otherwise it calls the agent at once.
CheckShutdown(c) ==
    LET k == call[c]
    IN  /\ k.at = "check"
        /\ Head(k.todo) = "shutdown"
        /\ call' = [call EXCEPT ![c] =
                      [k EXCEPT !.todo = ShutdownSteps(k.agent),
                                !.at = IF Live(k.agent) THEN "find" ELSE "await"]]
        /\ UNCHANGED <<agentRegistryVars, agentStates, initialized, disturbed>>

\* The agent's method resolved: the outcome is written, whatever the state is by
\* now, and the call goes on to its next step.
Resolve(c) ==
    LET k == call[c]
        rest == Tail(k.todo)
    IN  /\ k.at = "await"
        /\ SetState(k.agent, Outcome(Head(k.todo), agentStates[k.agent]))
        /\ call' = [call EXCEPT ![c] =
                      IF rest = <<>> THEN Idle
                      ELSE [k EXCEPT !.todo = rest,
                                     !.at = IF Head(rest) = "agentShutdown"
                                            THEN "await" ELSE "find"]]
        /\ initialized' = IF Head(k.todo) = "initialize"
                          THEN initialized \cup {k.agent} ELSE initialized
        /\ UNCHANGED <<agentRegistryVars, disturbed>>

\* The agent's method rejected.
Reject(c) ==
    /\ call[c].at = "await"
    /\ SetState(call[c].agent, "FAILED")
    /\ call' = [call EXCEPT ![c] = Idle]
    /\ disturbed' = IF Head(call[c].todo) \in {"start", "pause"}
                    THEN disturbed \cup {call[c].agent} ELSE disturbed
    /\ UNCHANGED <<agentRegistryVars, initialized>>

Advance(c) == Find(c) \/ Check(c) \/ CheckShutdown(c) \/ Resolve(c) \/ Reject(c)

LifecycleNext ==
    \/ \E c \in Calls, a \in Agents, op \in Operations : Begin(c, a, op)
    \/ \E c \in Calls : Advance(c)
    \/ RegistryNext /\ UNCHANGED lifecycleVars

LifecycleSpec == LifecycleInit /\ [][LifecycleNext]_agentVars

\* A call that is not at rest is scheduled by the event loop, and the agent's
\* method it awaits settles.
LifecycleFairSpec == LifecycleSpec /\ \A c \in Calls : WF_agentVars(Advance(c))

-----------------------------------------------------------------------------
(* Properties.                                                             *)

\* Call c has claimed the state of a with this step and awaits the agent.
Working(c, a, step) ==
    /\ call[c].at = "await"
    /\ call[c].agent = a
    /\ Head(call[c].todo) = step

\* A transient state always has the call that wrote it still in flight: no
\* overlap of operations, failure or shutdown strands an agent in INITIALIZING
\* or STOPPING, from which no operation could take it.
NoOrphanTransient ==
    \A a \in Agents :
       /\ agentStates[a] = "INITIALIZING" => \E c \in Calls : Working(c, a, "initialize")
       /\ agentStates[a] = "STOPPING" => \E c \in Calls : Working(c, a, "stop")

\* An agent that is ready, runs, is paused or is being stopped was initialised:
\* start, resume and restart never run an agent whose initialize() has never
\* resolved.
LiveWasInitialized ==
    \A a \in Agents :
       agentStates[a] \in {"READY", "RUNNING", "PAUSED", "STOPPING"} => a \in initialized

\* Until an agent is shut down, or its status update is rejected after start or
\* pause has already claimed the new state, any overlap of operations moves it
\* only along validTransitions, although setState does not check them.
TransitionsFollowTable ==
    [][\A a \in Agents :
          agentStates'[a] # agentStates[a] =>
             \/ a \in disturbed'
             \/ agentStates'[a] \in ValidTransitions[GetAgentState(a)]]_agentVars

\* Every transient state is left.
TransientResolves ==
    \A a \in Agents : agentStates[a] \in {"INITIALIZING", "STOPPING"}
                        ~> agentStates[a] \notin {"INITIALIZING", "STOPPING"}
=============================================================================
