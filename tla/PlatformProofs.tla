--------------------------- MODULE PlatformProofs ---------------------------
(***************************************************************************)
(* Theorems about the agent platform, for any agents, calls and trouble:   *)
(* its health checks, the executions of single agents, what runs when the  *)
(* orchestrator has been stopped, and what a shutdown leaves registered.   *)
(***************************************************************************)
EXTENDS RuntimeHealth, CollectionLemmas

-----------------------------------------------------------------------------
(* The health checks.                                                      *)

Statuses == {"healthy", "degraded", "unhealthy"}

Begun == [at : Components, visited : SUBSET Agents, found : SUBSET Statuses]
Check == {[at |-> "idle"]} \cup Begun \cup [at : {"done"}, overall : Statuses \cup {"null"}]

\* The place of a component in the order.
Place(c) == CHOOSE j \in DOMAIN ComponentOrder : ComponentOrder[j] = c

\* Check k has still to ask x.
Ahead(k, x) ==
    IF x \in Components THEN Place(x) >= Place(k.at)
    ELSE k.at = "AgentRegistry" /\ x \notin k.visited

\* A check under way has found trouble, or has whatever was sick since it began still
\* ahead; one that has come out well has missed nothing.
Tells(k, sick) ==
    /\ k.at \in Components => "unhealthy" \in k.found \/ \A x \in sick : Ahead(k, x)
    /\ k.at = "done" /\ k.overall \in {"healthy", "degraded"} => sick = {}

CheckSound(h) ==
    /\ checks[h] \in Check
    /\ Tells(checks[h], ill[h])
    /\ Checking(h) => ill[h] \subseteq Unhealthy

\* Sickness is told of agents only, and every check is sound.
ChecksSound ==
    /\ unhealthy \subseteq Agents
    /\ DOMAIN checks = HealthChecks
    /\ \A h \in HealthChecks : CheckSound(h)

LEMMA Order ==
    /\ Len(ComponentOrder) = 11 /\ DOMAIN ComponentOrder = 1..11
    /\ Components = {ComponentOrder[j] : j \in 1..11}
    /\ \A i, j \in 1..11 : ComponentOrder[i] = ComponentOrder[j] => i = j
    /\ ComponentOrder[1] = "AgentRegistry"
    /\ "idle" \notin Components /\ "done" \notin Components
  <1>1. /\ Len(ComponentOrder) = 11 /\ DOMAIN ComponentOrder = 1..11
        /\ ComponentOrder[1] = "AgentRegistry"
    BY DEF ComponentOrder
  <1>2. Components = {ComponentOrder[j] : j \in 1..11}
    BY <1>1 DEF Components, ToSet
  <1>a. /\ ComponentOrder[1] = "AgentRegistry" /\ ComponentOrder[2] = "AgentRuntime"
        /\ ComponentOrder[3] = "Scheduler" /\ ComponentOrder[4] = "Planner"
        /\ ComponentOrder[5] = "WorkflowEngine" /\ ComponentOrder[6] = "Coordinator"
    BY DEF ComponentOrder
  <1>b. /\ ComponentOrder[7] = "Orchestrator" /\ ComponentOrder[8] = "PluginLoader"
        /\ ComponentOrder[9] = "Memory" /\ ComponentOrder[10] = "CommunicationManager"
        /\ ComponentOrder[11] = "BuiltinRegistry"
    BY DEF ComponentOrder
  <1>c. \A j \in 1..11 : j \in {1, 2, 3, 4, 5, 6, 7, 8, 9, 10, 11}
    OBVIOUS
  <1>3. \A i, j \in 1..11 : ComponentOrder[i] = ComponentOrder[j] => i = j
    <2> DEFINE Number(c) ==
          CASE c = "AgentRegistry" -> 1 [] c = "AgentRuntime" -> 2 [] c = "Scheduler" -> 3
            [] c = "Planner" -> 4 [] c = "WorkflowEngine" -> 5 [] c = "Coordinator" -> 6
            [] c = "Orchestrator" -> 7 [] c = "PluginLoader" -> 8 [] c = "Memory" -> 9
            [] c = "CommunicationManager" -> 10 [] OTHER -> 11
    <2>1. \A j \in 1..11 : Number(ComponentOrder[j]) = j
      BY <1>a, <1>b, <1>c
    <2> HIDE DEF Number
    <2> QED BY <2>1
  <1>4. \A j \in 1..11 : ComponentOrder[j] \notin {"idle", "done"}
    BY <1>a, <1>b, <1>c
  <1> QED BY <1>1, <1>2, <1>3, <1>4

LEMMA Names ==
    \A c \in {"AgentRegistry", "AgentRuntime", "Scheduler", "Planner", "WorkflowEngine",
              "Orchestrator", "Coordinator", "PluginLoader", "Memory",
              "CommunicationManager", "BuiltinRegistry"} : c \in Components
  BY DEF Components, ComponentOrder, ToSet

LEMMA Places ==
    /\ \A c \in Components : Place(c) \in 1..11 /\ ComponentOrder[Place(c)] = c
    /\ \A j \in 1..11 : ComponentOrder[j] \in Components /\ Place(ComponentOrder[j]) = j
    /\ "AgentRegistry" \in Components /\ Place("AgentRegistry") = 1
  <1>1. ASSUME NEW c \in Components
        PROVE  Place(c) \in 1..11 /\ ComponentOrder[Place(c)] = c
    <2>1. \E j \in DOMAIN ComponentOrder : ComponentOrder[j] = c
      BY Order
    <2> QED BY <2>1, Order DEF Place
  <1>2. ASSUME NEW j \in 1..11
        PROVE  ComponentOrder[j] \in Components /\ Place(ComponentOrder[j]) = j
    <2>1. ComponentOrder[j] \in Components
      BY Order
    <2>2. Place(ComponentOrder[j]) \in 1..11 /\ ComponentOrder[Place(ComponentOrder[j])] = ComponentOrder[j]
      BY <1>1, <2>1
    <2> QED BY <2>1, <2>2, Order
  <1>3. 1 \in 1..11
    OBVIOUS
  <1>4. "AgentRegistry" \in Components /\ Place("AgentRegistry") = 1
    BY <1>2, <1>3, Order
  <1> QED BY <1>1, <1>2, <1>4

\* Of trouble only what lasts counts.
LEMMA Fewer ==
    ASSUME NEW k, NEW sick, NEW less, less \subseteq sick, Tells(k, sick)
    PROVE  Tells(k, less)
  BY DEF Tells

LEMMA OverallWorst ==
    ASSUME NEW found \in SUBSET Statuses
    PROVE  Overall(found) \in Statuses /\ ("unhealthy" \in found => Overall(found) = "unhealthy")
  BY DEF Overall, Statuses

\* A component answers, with the sick ones saying so.
LEMMA ReportTells ==
    ASSUME NEW h \in HealthChecks, DOMAIN checks = HealthChecks, checks[h] \in Begun,
           NEW S \in SUBSET Statuses, Report(h, S),
           NEW sick, Tells(checks[h], sick),
           checks[h].at \in sick => "unhealthy" \in S,
           checks[h].at = "AgentRegistry" => \A x \in sick : x \in Components \/ x \in checks[h].visited
               \/ "unhealthy" \in checks[h].found
    PROVE  checks'[h] \in Check /\ Tells(checks'[h], sick)
  <1> DEFINE k == checks[h]
             i == Place(k.at)
             found == k.found \cup S
  <1>1. k.at \in Components /\ k.visited \in SUBSET Agents /\ found \in SUBSET Statuses
    BY DEF Begun
  <1>2. i \in 1..11 /\ ComponentOrder[i] = k.at
    BY <1>1, Places
  <1>3. checks'[h] = IF i < 11 THEN [k EXCEPT !.at = ComponentOrder[i + 1], !.found = found]
                     ELSE [at |-> "done", overall |-> Overall(found)]
    BY Order DEF Report, SetCheck, Place
  <1>4. ASSUME "unhealthy" \notin found, NEW x \in sick
        PROVE  x \in Components /\ Place(x) > i
    <2>1. Ahead(k, x) /\ "unhealthy" \notin k.found /\ x # k.at
      BY <1>1, <1>4 DEF Tells
    <2>2. x \in Components
      BY <1>4, <2>1 DEF Ahead
    <2>3. Place(x) >= i /\ Place(x) \in 1..11 /\ ComponentOrder[Place(x)] = x
      BY <2>1, <2>2, Places DEF Ahead
    <2> QED BY <1>2, <2>1, <2>2, <2>3
  <1>k. k \in Begun
    OBVIOUS
  <1> HIDE DEF k, i, found
  <1>5. CASE i < 11
    <2> DEFINE next == ComponentOrder[i + 1]
               m == [k EXCEPT !.at = next, !.found = found]
    <2>1. next \in Components /\ Place(next) = i + 1
      BY <1>2, <1>5, Places
    <2> HIDE DEF next
    <2>2. m \in Begun /\ m.at = next /\ m.found = found
      BY <1>1, <1>k, <2>1 DEF Begun
    <2> HIDE DEF m
    <2>3. ASSUME "unhealthy" \notin found, NEW x \in sick PROVE Ahead(m, x)
      <3>1. x \in Components /\ Place(x) > i /\ Place(x) \in 1..11
        BY <1>4, <2>3, Places
      <3> QED BY <1>2, <2>1, <2>2, <3>1 DEF Ahead
    <2>4. checks'[h] = m
      BY <1>3, <1>5 DEF m, next
    <2>5. Tells(m, sick)
      BY <2>1, <2>2, <2>3, Order DEF Tells
    <2> QED BY <2>2, <2>4, <2>5 DEF Check
  <1>6. CASE ~(i < 11)
    <2>1. checks'[h] = [at |-> "done", overall |-> Overall(found)]
      BY <1>3, <1>6
    <2>2. "unhealthy" \notin found => sick = {}
      <3>1. ASSUME "unhealthy" \notin found, NEW x \in sick PROVE FALSE
        <4>1. x \in Components /\ Place(x) > i /\ Place(x) \in 1..11
          BY <1>4, <3>1, Places
        <4> QED BY <1>2, <1>6, <4>1
      <3> QED BY <3>1
    <2>3. Overall(found) \in Statuses /\ ("unhealthy" \in found => Overall(found) = "unhealthy")
      BY <1>1, OverallWorst
    <2> QED BY <2>1, <2>2, <2>3, Order DEF Tells, Check
  <1> QED BY <1>5, <1>6

LEMMA WorstStatus ==
    ASSUME NEW p \in BOOLEAN, NEW q \in BOOLEAN
    PROVE  Worst(p, q) \in Statuses /\ (p <=> Worst(p, q) = "unhealthy")
  BY DEF Worst, Statuses

\* A component that is sick says so when it is asked.
LEMMA SickSaysSo ==
    ASSUME unhealthy \subseteq Agents
    PROVE  /\ "AgentRegistry" \notin Unhealthy /\ "AgentRuntime" \notin Unhealthy
           /\ "Scheduler" \notin Unhealthy /\ "Planner" \notin Unhealthy
           /\ "WorkflowEngine" \notin Unhealthy
           /\ "Orchestrator" \in Unhealthy => OrchestratorHealth = "unhealthy"
           /\ "Coordinator" \in Unhealthy => CoordinatorHealth = "unhealthy"
           /\ "PluginLoader" \in Unhealthy => PluginHealth = "unhealthy"
           /\ "Memory" \in Unhealthy => DetermineHealthStatus = "unhealthy"
           /\ "CommunicationManager" \in Unhealthy =>
                 \A n \in Nat : CommunicationHealth(n) = "unhealthy"
           /\ "BuiltinRegistry" \in Unhealthy => BuiltinRegistryHealth = "unhealthy"
  <1>1. \A c \in Components : c \notin unhealthy
    BY HealthAssumption
  <1>2. \A c \in {"AgentRegistry", "AgentRuntime", "Scheduler", "Planner", "WorkflowEngine",
                   "Orchestrator", "Coordinator", "PluginLoader", "Memory",
                   "CommunicationManager", "BuiltinRegistry"} : c \in Components
    BY Names
  <1>3. "CommunicationManager" \in errors \/ CommunicationHealth(0) # "unhealthy"
    BY DEF CommunicationHealth, Worst
  <1>4. "CommunicationManager" \in errors => \A n \in Nat : CommunicationHealth(n) = "unhealthy"
    BY WorstStatus DEF CommunicationHealth
  <1>5. ASSUME NEW c \in Components, c \in Unhealthy
        PROVE  \/ c = "Orchestrator" /\ OrchestratorHealth = "unhealthy"
               \/ c = "Coordinator" /\ CoordinatorHealth = "unhealthy"
               \/ c = "PluginLoader" /\ PluginHealth = "unhealthy"
               \/ c = "Memory" /\ DetermineHealthStatus = "unhealthy"
               \/ c = "CommunicationManager" /\ CommunicationHealth(0) = "unhealthy"
               \/ c = "BuiltinRegistry" /\ BuiltinRegistryHealth = "unhealthy"
    BY <1>1, <1>5, Zenon DEF Unhealthy
  <1>6. /\ "AgentRegistry" \notin Unhealthy /\ "AgentRuntime" \notin Unhealthy
        /\ "Scheduler" \notin Unhealthy /\ "Planner" \notin Unhealthy
        /\ "WorkflowEngine" \notin Unhealthy
    BY <1>2, <1>5
  <1>7. /\ "Orchestrator" \in Unhealthy => OrchestratorHealth = "unhealthy"
        /\ "Coordinator" \in Unhealthy => CoordinatorHealth = "unhealthy"
        /\ "PluginLoader" \in Unhealthy => PluginHealth = "unhealthy"
    BY <1>2, <1>5
  <1>8. /\ "Memory" \in Unhealthy => DetermineHealthStatus = "unhealthy"
        /\ "CommunicationManager" \in Unhealthy => CommunicationHealth(0) = "unhealthy"
        /\ "BuiltinRegistry" \in Unhealthy => BuiltinRegistryHealth = "unhealthy"
    BY <1>2, <1>5
  <1> QED BY <1>3, <1>4, <1>6, <1>7, <1>8

LEMMA HealthsAreStatuses ==
    /\ OrchestratorHealth \in Statuses /\ CoordinatorHealth \in Statuses
    /\ PluginHealth \in Statuses /\ DetermineHealthStatus \in Statuses
    /\ BuiltinRegistryHealth \in Statuses
    /\ \A n \in Nat : CommunicationHealth(n) \in Statuses
    /\ \A m, n \in Nat : SchedulerHealth(m, n) \in Statuses
    /\ \A a : AgentStatus(a) \in Statuses
  BY DEF OrchestratorHealth, CoordinatorHealth, PluginHealth, DetermineHealthStatus,
         BuiltinRegistryHealth, CommunicationHealth, SchedulerHealth, AgentStatus, Worst, Statuses

\* A check that is not asked on keeps what it knows.
LEMMA CheckKept ==
    ASSUME ChecksSound, Noting, NEW h \in HealthChecks, checks'[h] = checks[h]
    PROVE  CheckSound(h)'
  <1>1. CheckSound(h)
    BY DEF ChecksSound
  <1>2. CASE Checking(h)
    <2>1. ill'[h] = ill[h] \cap (Unhealthy)'
      BY <1>2 DEF Noting
    <2> HIDE DEF Noting
    <2>2. Tells(checks[h], ill'[h])
      BY <1>1, <2>1, Fewer DEF CheckSound
    <2> QED BY <1>1, <2>1, <2>2 DEF CheckSound
  <1>3. CASE ~Checking(h)
    <2>1. checks'[h].at # "AgentRegistry" /\ ~(Checking(h))'
      BY <1>3, Names DEF Checking
    <2>2. ill'[h] = ill[h]
      BY <1>3, <2>1 DEF Noting
    <2> QED BY <1>1, <2>1, <2>2 DEF CheckSound
  <1> QED BY <1>2, <1>3

\* A check that begins takes everything that is sick with it.
LEMMA CheckBegins ==
    ASSUME ChecksSound, Noting, NEW h \in HealthChecks, GetHealth(h)
    PROVE  CheckSound(h)' /\ DOMAIN checks' = HealthChecks
           /\ \A g \in HealthChecks \ {h} : checks'[g] = checks[g]
  <1> DEFINE started == [at |-> "AgentRegistry", visited |-> {}, found |-> {}]
             ended == [at |-> "done", overall |-> "null"]
  <1>1. /\ DOMAIN checks' = HealthChecks
        /\ checks'[h] = IF bootState.initialized THEN started ELSE ended
        /\ \A g \in HealthChecks \ {h} : checks'[g] = checks[g]
    BY DEF GetHealth, SetCheck, ChecksSound
  <1>2. ~Checking(h)
    BY DEF GetHealth
  <1>3. started.at = "AgentRegistry" /\ started.visited = {} /\ started \in Begun
    BY Names DEF Begun
  <1>4. ended.at = "done" /\ ended.overall = "null" /\ ended \in Check
    BY DEF Check
  <1> HIDE DEF started, ended
  <1>5. CASE checks'[h] = started
    <2>1. ill'[h] = (Unhealthy)'
      BY <1>2, <1>3, <1>5 DEF Noting
    <2>2. ASSUME NEW x PROVE Ahead(started, x)
      BY <1>3, Places DEF Ahead
    <2>3. Tells(started, ill'[h])
      BY <1>3, <2>2 DEF Tells
    <2> QED BY <1>1, <1>3, <1>5, <2>1, <2>3 DEF CheckSound, Check
  <1>6. CASE checks'[h] = ended
    <2>1. Tells(ended, ill'[h]) /\ ~(Checking(h))'
      BY <1>4, <1>6, Order DEF Tells, Checking
    <2> QED BY <1>1, <1>4, <1>6, <2>1 DEF CheckSound
  <1> QED BY <1>1, <1>5, <1>6

\* What a step of a check leaves: the check sound, the other checks as they are.
OnlyCheck(h) ==
    /\ DOMAIN checks' = HealthChecks
    /\ \A g \in HealthChecks \ {h} : checks'[g] = checks[g]

\* An answer, given for the component that is asked.
LEMMA Answers ==
    ASSUME ChecksSound, NEW h \in HealthChecks, NEW c \in Components, Asking(h, c),
           NEW S \in SUBSET Statuses, Report(h, S),
           c \in Unhealthy => "unhealthy" \in S,
           c = "AgentRegistry" => agents \subseteq checks[h].visited
    PROVE  /\ checks'[h] \in Check
           /\ \A less : less \subseteq ill[h] => Tells(checks'[h], less)
           /\ OnlyCheck(h)
  <1>1. checks[h].at = c /\ Checking(h)
    BY DEF Asking, Checking
  <1>2. checks[h] \in Begun
    BY <1>1, Order DEF ChecksSound, CheckSound, Check
  <1>3. Tells(checks[h], ill[h]) /\ ill[h] \subseteq Unhealthy /\ DOMAIN checks = HealthChecks
    BY <1>1 DEF ChecksSound, CheckSound
  <1>4. ASSUME c = "AgentRegistry", NEW x \in ill[h]
        PROVE  x \in Components \/ x \in checks[h].visited
    BY <1>3, <1>4 DEF Unhealthy
  <1>5. checks'[h] \in Check /\ Tells(checks'[h], ill[h])
    BY <1>1, <1>2, <1>3, <1>4, ReportTells
  <1>6. OnlyCheck(h)
    BY <1>3 DEF OnlyCheck, Report, SetCheck
  <1> QED BY <1>5, <1>6, Fewer

\* The registry has asked one more agent.
LEMMA AgentVisited ==
    ASSUME ChecksSound, NEW h \in HealthChecks, NEW a \in Agents, VisitAgent(h, a)
    PROVE  /\ checks'[h] \in Check
           /\ \A less : less \subseteq ill[h] => Tells(checks'[h], less)
           /\ OnlyCheck(h)
  <1> DEFINE k == checks[h]
             visited == k.visited \cup {a}
             found == k.found \cup {AgentStatus(a)}
             m == [k EXCEPT !.visited = visited, !.found = found]
  <1>1. k.at = "AgentRegistry" /\ Checking(h)
    BY Names DEF VisitAgent, Asking, Checking
  <1>2. k \in Begun
    BY <1>1, Order, Names DEF ChecksSound, CheckSound, Check
  <1>3. Tells(k, ill[h]) /\ ill[h] \subseteq Unhealthy /\ DOMAIN checks = HealthChecks
    BY <1>1 DEF ChecksSound, CheckSound
  <1>4. checks' = [checks EXCEPT ![h] = m]
    BY DEF VisitAgent, SetCheck
  <1>5. visited \in SUBSET Agents /\ found \in SUBSET Statuses
    BY <1>2, HealthsAreStatuses DEF Begun
  <1>6. a \in ill[h] => "unhealthy" \in found
    <2>1. a \notin Components
      BY HealthAssumption
    <2>2. a \in unhealthy => AgentStatus(a) = "unhealthy"
      BY DEF AgentStatus, Worst
    <2> QED BY <1>3, <2>1, <2>2 DEF Unhealthy
  <1>7. k.found \subseteq found /\ visited = k.visited \cup {a}
    OBVIOUS
  <1> HIDE DEF visited, found
  <1>8. m \in Begun /\ m.at = "AgentRegistry" /\ m.visited = visited /\ m.found = found
    BY <1>1, <1>2, <1>5 DEF Begun
  <1>9. checks'[h] = m /\ OnlyCheck(h)
    BY <1>3, <1>4 DEF OnlyCheck
  <1> HIDE DEF m, k
  <1>10. ASSUME "unhealthy" \notin found, NEW x \in ill[h] PROVE Ahead(m, x)
    <2>1. Ahead(k, x) /\ x # a
      BY <1>1, <1>3, <1>6, <1>7, <1>10, Names DEF Tells
    <2> QED BY <1>1, <1>7, <1>8, <2>1 DEF Ahead
  <1>11. Tells(m, ill[h])
    BY <1>8, <1>10, Names, Order DEF Tells
  <1> QED BY <1>8, <1>9, <1>11, Fewer DEF Check

\* Every step of a check under way leaves it sound.
LEMMA CheckSteps ==
    ASSUME ChecksSound, NEW h \in HealthChecks, CheckStep(h)
    PROVE  /\ checks'[h] \in Check
           /\ \A less : less \subseteq ill[h] => Tells(checks'[h], less)
           /\ OnlyCheck(h)
           /\ Checking(h)
  <1> DEFINE Fine == /\ checks'[h] \in Check
                     /\ \A less : less \subseteq ill[h] => Tells(checks'[h], less)
                     /\ OnlyCheck(h)
  <1>s. /\ "AgentRegistry" \notin Unhealthy /\ "AgentRuntime" \notin Unhealthy
        /\ "Scheduler" \notin Unhealthy /\ "Planner" \notin Unhealthy
        /\ "WorkflowEngine" \notin Unhealthy
        /\ "Orchestrator" \in Unhealthy => OrchestratorHealth = "unhealthy"
        /\ "Coordinator" \in Unhealthy => CoordinatorHealth = "unhealthy"
        /\ "PluginLoader" \in Unhealthy => PluginHealth = "unhealthy"
        /\ "Memory" \in Unhealthy => DetermineHealthStatus = "unhealthy"
        /\ "BuiltinRegistry" \in Unhealthy => BuiltinRegistryHealth = "unhealthy"
    BY SickSaysSo DEF ChecksSound
  <1>a. "CommunicationManager" \in Unhealthy => \A n \in Nat : CommunicationHealth(n) = "unhealthy"
    BY SickSaysSo DEF ChecksSound
  <1>1. ASSUME NEW a \in Agents, VisitAgent(h, a) PROVE Fine /\ Checking(h)
    BY <1>1, AgentVisited, Names DEF VisitAgent, Asking, Checking
  <1>2. CASE CheckAgentRegistry(h)
    <2>1. /\ Asking(h, "AgentRegistry") /\ Report(h, {})
          /\ agents \subseteq checks[h].visited
      BY <1>2 DEF CheckAgentRegistry
    <2> QED BY <2>1, <1>s, Names, Answers DEF Asking, Checking
  <1>3. ASSUME NEW c \in {"AgentRuntime", "Planner", "WorkflowEngine"},
               Asking(h, c), Report(h, {"healthy"})
        PROVE  Fine /\ Checking(h)
    <2>1. c \in Components /\ c # "AgentRegistry" /\ c \notin Unhealthy
      BY <1>s, Names
    <2>2. {"healthy"} \in SUBSET Statuses
      BY DEF Statuses
    <2>3. Fine
      BY <1>3, <2>1, <2>2, Answers
    <2> QED BY <1>3, <2>1, <2>3 DEF Asking, Checking
  <1>4. ASSUME NEW c \in {"Coordinator", "Orchestrator", "PluginLoader", "Memory",
                         "CommunicationManager", "BuiltinRegistry", "Scheduler"},
               NEW s \in Statuses,
               Asking(h, c), Report(h, {s}), c \in Unhealthy => s = "unhealthy"
        PROVE  Fine /\ Checking(h)
    <2>1. c \in Components /\ c # "AgentRegistry"
      BY Names
    <2>2. {s} \in SUBSET Statuses /\ (c \in Unhealthy => "unhealthy" \in {s})
      BY <1>4
    <2>3. Fine
      BY <1>4, <2>1, <2>2, Answers
    <2> QED BY <1>4, <2>1, <2>3 DEF Asking, Checking
  <1> HIDE DEF Fine
  <1>5. CASE CheckAgentRuntime(h)
    BY <1>3, <1>5 DEF CheckAgentRuntime, Fine
  <1>6. CASE CheckPlanner(h)
    BY <1>3, <1>6 DEF CheckPlanner, Fine
  <1>7. CASE CheckWorkflowEngine(h)
    BY <1>3, <1>7 DEF CheckWorkflowEngine, Fine
  <1>8. CASE CheckScheduler(h)
    <2>1. PICK running \in Nat, overdue \in Nat :
            Asking(h, "Scheduler") /\ Report(h, {SchedulerHealth(running, overdue)})
      BY <1>8 DEF CheckScheduler
    <2>2. SchedulerHealth(running, overdue) \in Statuses
      BY HealthsAreStatuses
    <2> QED BY <1>4, <1>s, <2>1, <2>2 DEF Fine
  <1>9. CASE CheckCoordinator(h)
    BY <1>4, <1>9, <1>s, HealthsAreStatuses DEF CheckCoordinator, Fine
  <1>10. CASE CheckOrchestrator(h)
    BY <1>4, <1>10, <1>s, HealthsAreStatuses DEF CheckOrchestrator, Fine
  <1>11. CASE CheckPluginLoader(h)
    BY <1>4, <1>11, <1>s, HealthsAreStatuses DEF CheckPluginLoader, Fine
  <1>12. CASE CheckMemory(h)
    BY <1>4, <1>12, <1>s, HealthsAreStatuses DEF CheckMemory, Fine
  <1>13. CASE CheckCommunicationManager(h)
    <2>1. PICK n \in 0 .. 1 :
            Asking(h, "CommunicationManager") /\ Report(h, {CommunicationHealth(n)})
      BY <1>13 DEF CheckCommunicationManager
    <2>2. CommunicationHealth(n) \in Statuses
          /\ ("CommunicationManager" \in Unhealthy => CommunicationHealth(n) = "unhealthy")
      BY <1>a, HealthsAreStatuses
    <2> QED BY <1>4, <2>1, <2>2 DEF Fine
  <1>14. CASE CheckBuiltinRegistry(h)
    BY <1>4, <1>14, <1>s, HealthsAreStatuses DEF CheckBuiltinRegistry, Fine
  <1> QED BY <1>1, <1>2, <1>5, <1>6, <1>7, <1>8, <1>9, <1>10, <1>11, <1>12, <1>13, <1>14
          DEF CheckStep, Fine

\* Nothing but an agent's own errors makes it unhealthy.
LEMMA SickAgents ==
    ASSUME unhealthy \subseteq Agents, Next
    PROVE  unhealthy' \subseteq Agents
  <1>1. ASSUME NEW b \in Bootstraps, Bootstrap(b) \/ StartRuntime(b) \/ Shutdown(b)
        PROVE  unhealthy' = unhealthy
    BY <1>1 DEF Bootstrap, StartRuntime, Shutdown, CallOrchestratorStart, Start, orchestratorVars
  <1>2. ASSUME NEW b \in Bootstraps, NEW ok \in BOOLEAN,
               RegisterBuiltin(b) \/ BuiltinInitialized(b, ok) \/ BootstrapEnd(b) \/ StartAgents(b)
                 \/ StartAgent(b) \/ StartAgentStep(b) \/ StartEnds(b)
        PROVE  unhealthy' = unhealthy
    BY <1>2 DEF RegisterBuiltin, BuiltinInitialized, BootstrapEnd, CallOrchestratorStart, Start,
                StartAgents, StartAgent, StartAgentStep, StartEnds, orchestratorVars
  <1>3. ASSUME NEW b \in Bootstraps,
               UnregisterBuiltin(b) \/ RemoveBuiltin(b) \/ StopOrchestrator(b) \/ PauseScheduler(b)
                 \/ ShutdownAgent(b) \/ ShutdownAgentStep(b)
        PROVE  unhealthy' = unhealthy
    BY <1>3 DEF UnregisterBuiltin, RemoveBuiltin, StopOrchestrator, Stop, PauseScheduler,
                ShutdownAgent, ShutdownAgentStep, orchestratorVars
  <1>4. ASSUME NEW b \in Bootstraps,
               ClearRegistry(b) \/ RemoveAgent(b) \/ AgentRemoved(b) \/ ShutdownEnd(b)
        PROVE  unhealthy' = unhealthy
    BY <1>4 DEF ClearRegistry, RemoveAgent, AgentRemoved, ShutdownEnd, orchestratorVars
  <1>5. ASSUME NEW c, StartStopStep(c) PROVE unhealthy' = unhealthy
    BY <1>5 DEF StartStopStep, StartEnd, StopCancel, StopCancelled, StopFails, StopPauseScheduler,
                StopEnd
  <1>6. ASSUME NEW c, PauseExecutions(c) \/ ResumeExecutions(c) PROVE unhealthy' = unhealthy
    BY <1>6 DEF PauseExecutions, ResumeExecutions
  <1>7. ASSUME NEW c, ControlBegin(c) PROVE unhealthy' = unhealthy
    BY <1>7 DEF ControlBegin, Start, Stop, Pause, Resume
  <1>8. ASSUME NEW e, ExecutionBegin(e) \/ Cancel(e) PROVE unhealthy' = unhealthy
    BY <1>8 DEF ExecutionBegin, Execute, ExecuteWorkflow, ExecutePlan, Cancel
  <1>9. ASSUME NEW e, ExecutionStep(e) PROVE unhealthy' = unhealthy
    BY <1>9 DEF ExecutionStep, FindAgent, CheckHealth, InitializeAgent, LoadMemoryContext,
                SchedulePlanTask, PollPlan, RunReturns, RunThrows, Complete
  <1>10. ASSUME NEW a \in Agents, RegisterAgent(a) \/ AgentErrs(a)
         PROVE  unhealthy' \subseteq Agents
    BY <1>10 DEF RegisterAgent, AgentErrs, orchestratorVars
  <1>11. ASSUME NEW b \in Bootstraps, BootStep(b) PROVE unhealthy' = unhealthy
    BY <1>2, <1>3, <1>4, <1>5, <1>11, Zenon DEF BootStep, OrchestratorStep
  <1> QED BY <1>1, <1>5, <1>6, <1>7, <1>8, <1>9, <1>10, <1>11
          DEF Next, UseOrchestrator, StepExecution, StepControl, ControlStep

LEMMA ChecksSoundInit == ASSUME PlatformInit PROVE ChecksSound
  <1>1. unhealthy = {} /\ checks = [h \in HealthChecks |-> [at |-> "idle"]]
    BY DEF PlatformInit, HealthInit, Init, OrchestratorInit
  <1> QED BY <1>1, Order DEF ChecksSound, CheckSound, Check, Tells, Checking

LEMMA ChecksSoundStep ==
    ASSUME ChecksSound, [PlatformNext]_platformVars
    PROVE  ChecksSound'
  <1>1. CASE Next /\ Monitoring /\ Noting
    <2>1. unhealthy' \subseteq Agents /\ checks' = checks
      BY <1>1, SickAgents DEF ChecksSound, Monitoring
    <2> QED BY <1>1, <2>1, CheckKept DEF ChecksSound
  <1>2. ASSUME NEW h \in HealthChecks, HealthAsked(h), Noting PROVE ChecksSound'
    <2>1. GetHealth(h) /\ unhealthy' = unhealthy
      BY <1>2 DEF HealthAsked, vars, orchestratorVars
    <2>2. /\ CheckSound(h)' /\ DOMAIN checks' = HealthChecks
          /\ \A g \in HealthChecks \ {h} : checks'[g] = checks[g]
      BY <1>2, <2>1, CheckBegins
    <2>3. \A g \in HealthChecks \ {h} : CheckSound(g)'
      BY <1>2, <2>2, CheckKept
    <2> QED BY <2>1, <2>2, <2>3 DEF ChecksSound
  <1>3. ASSUME NEW h \in HealthChecks, HealthStep(h), Noting PROVE ChecksSound'
    <2>1. CheckStep(h) /\ unhealthy' = unhealthy
      BY <1>3 DEF HealthStep, vars, orchestratorVars
    <2>2. /\ checks'[h] \in Check
          /\ \A less : less \subseteq ill[h] => Tells(checks'[h], less)
          /\ OnlyCheck(h) /\ Checking(h)
      BY <2>1, CheckSteps
    <2>3. ill'[h] = ill[h] \cap (Unhealthy)'
      BY <1>3, <2>2 DEF Noting
    <2>4. CheckSound(h)'
      BY <2>2, <2>3 DEF CheckSound
    <2>5. \A g \in HealthChecks \ {h} : CheckSound(g)'
      BY <1>3, <2>2, CheckKept DEF OnlyCheck
    <2> QED BY <2>1, <2>2, <2>4, <2>5 DEF ChecksSound, OnlyCheck
  <1>4. CASE (Trouble \/ Usage) /\ Noting
    <2>1. unhealthy' = unhealthy /\ checks' = checks
      BY <1>4 DEF Trouble, Usage, ComponentErrs, ComponentWarns, MemoryUsed, vars, orchestratorVars
    <2> QED BY <1>4, <2>1, CheckKept DEF ChecksSound
  <1>5. CASE UNCHANGED platformVars
    BY <1>5 DEF platformVars, healthVars, vars, orchestratorVars, lifecycleVars, ChecksSound,
                CheckSound, Checking, Unhealthy, OrchestratorHealth, CoordinatorHealth,
                PluginHealth, DetermineHealthStatus, CommunicationHealth, BuiltinRegistryHealth
  <1> QED BY <1>1, <1>2, <1>3, <1>4, <1>5 DEF PlatformNext

\* A health check that comes out healthy or degraded has missed no agent that was
\* registered and unhealthy, and no component that was unhealthy, all the time it took,
\* whatever was asked of the platform and went wrong in it meanwhile.
THEOREM HealthIsTold == PlatformSpec => []HealthTellsTrouble
  <1>1. PlatformInit => ChecksSound
    BY ChecksSoundInit
  <1>2. ChecksSound /\ [PlatformNext]_platformVars => ChecksSound'
    BY ChecksSoundStep
  <1>3. ChecksSound => HealthTellsTrouble
    BY DEF ChecksSound, CheckSound, Tells, HealthTellsTrouble
  <1> QED BY <1>1, <1>2, <1>3, PTL DEF PlatformSpec

-----------------------------------------------------------------------------
(* The executions of single agents.                                        *)

\* The execution of its agent has got past the agent's initialisation.
Past(e) == Type[e] = "SINGLE_AGENT" /\ at[e] \in {"memory", "run", "record", "returned"}

AwaitsAgent(c, a) == call[c].at = "await" /\ call[c].agent = a

\* A call of the lifecycle manager is an execution's initialize, or a bootstrap's start or
\* shutdown; what it has to do is that one step, until it shuts the agent down.
CallSound(c) ==
    \/ call[c] = [at |-> "idle"]
    \/ /\ DOMAIN call[c] = {"at", "op", "agent", "todo"}
       /\ call[c].at \in {"find", "check", "await"}
       /\ call[c].op \in {"initialize", "start", "shutdown"}
       /\ call[c].op = "shutdown" => call[c].agent \in disturbed
       /\ call[c].op \in {"initialize", "start"} => call[c].todo = <<call[c].op>>
       /\ c \in Executions => call[c].op = "initialize" /\ call[c].agent = AgentOf[c]

\* Nobody has got past the initialisation of this agent ...
Unused(a) == \A e \in Executions : AgentOf[e] = a => ~Past(e)
\* ... or one execution has.
UsedOnce(a) ==
    \A e, f \in Executions : AgentOf[e] = a /\ AgentOf[f] = a /\ Past(e) /\ Past(f) => e = f

\* The life of an agent that nothing has shut down.
AgentSound(a) ==
    \/ /\ agentStates[a] \in {"none", "FAILED"}
       /\ \A c \in Callers : ~AwaitsAgent(c, a)
       /\ Unused(a)
    \/ /\ agentStates[a] = "INITIALIZING"
       /\ \A c \in Callers : AwaitsAgent(c, a) => call[c].todo = <<"initialize">>
       /\ \A c, d \in Callers : AwaitsAgent(c, a) /\ AwaitsAgent(d, a) => c = d
       /\ Unused(a)
    \/ /\ agentStates[a] \in {"READY", "RUNNING"}
       /\ \A c \in Callers : AwaitsAgent(c, a) => call[c].todo = <<"start">>
       /\ UsedOnce(a)

AgentsSound ==
    /\ DOMAIN agentStates = Agents /\ DOMAIN call = Callers /\ DOMAIN at = Executions
    /\ \A e \in Executions : Type[e] = "SINGLE_AGENT" => at[e] \notin {"schedule", "wait"}
    /\ \A c \in Callers : CallSound(c)
    /\ \A a \in Agents \ disturbed : AgentSound(a)

\* A step in which no execution gets past an initialisation.
PlacesKept ==
    /\ DOMAIN at' = Executions
    /\ \A e \in Executions : Type[e] = "SINGLE_AGENT" => at'[e] \notin {"schedule", "wait"}
NoneGetsPast == PlacesKept /\ \A e \in Executions : Past(e)' => Past(e)

\* One call moves on.
OnlyCall(c) ==
    /\ DOMAIN agentStates' = Agents /\ DOMAIN call' = Callers
    /\ \A d \in Callers \ {c} : call'[d] = call[d]
    /\ disturbed \subseteq disturbed'

LEMMA AgentsSoundInit == ASSUME Init PROVE AgentsSound
  <1>1. /\ agentStates = [a \in Agents |-> "none"]
        /\ call = [c \in Callers |-> [at |-> "idle"]]
        /\ at = [e \in Executions |-> "idle"]
    BY DEF Init, OrchestratorInit, Lifecycle!LifecycleInit, Lifecycle!Idle
  <1> QED BY <1>1 DEF AgentsSound, CallSound, AgentSound, AwaitsAgent, Unused, Past

\* Without a call moving, fewer executions past the initialisation do no harm.
LEMMA QuietSteps ==
    ASSUME AgentsSound, UNCHANGED <<agentStates, call, disturbed>>, NoneGetsPast
    PROVE  AgentsSound'
  <1>1. ASSUME NEW a \in Agents \ disturbed PROVE AgentSound(a)'
    <2>1. AgentSound(a) /\ \A e \in Executions : Past(e)' => Past(e)
      BY DEF AgentsSound, NoneGetsPast
    <2>2. (Unused(a) => Unused(a)') /\ (UsedOnce(a) => UsedOnce(a)')
      BY <2>1 DEF Unused, UsedOnce
    <2>3. \A c \in Callers : AwaitsAgent(c, a)' <=> AwaitsAgent(c, a)
      BY DEF AwaitsAgent
    <2> QED BY <2>1, <2>2, <2>3 DEF AgentSound
  <1>2. \A c \in Callers : CallSound(c)'
    BY DEF AgentsSound, CallSound
  <1> QED BY <1>1, <1>2 DEF AgentsSound, NoneGetsPast, PlacesKept

\* An agent whose state stays, and that the moving call does not newly await.
LEMMA AgentKept ==
    ASSUME AgentsSound, NEW c \in Callers, OnlyCall(c), NEW a \in Agents \ disturbed,
           agentStates'[a] = agentStates[a],
           AwaitsAgent(c, a)' => AwaitsAgent(c, a) /\ call'[c].todo = call[c].todo,
           \A e \in Executions : AgentOf[e] = a /\ Past(e)' => Past(e)
    PROVE  AgentSound(a)'
  <1>1. AgentSound(a)
    BY DEF AgentsSound
  <1>2. (Unused(a) => Unused(a)') /\ (UsedOnce(a) => UsedOnce(a)')
    BY DEF Unused, UsedOnce
  <1>3. \A d \in Callers : AwaitsAgent(d, a)' => AwaitsAgent(d, a) /\ call'[d].todo = call[d].todo
    BY DEF AwaitsAgent, OnlyCall
  <1> QED BY <1>1, <1>2, <1>3 DEF AgentSound

\* The other calls stay sound.
LEMMA CallsKept ==
    ASSUME AgentsSound, NEW c \in Callers, OnlyCall(c), CallSound(c)'
    PROVE  \A d \in Callers : CallSound(d)'
  BY DEF AgentsSound, OnlyCall, CallSound

\* A call begins.
LEMMA BeginSteps ==
    ASSUME AgentsSound, NoneGetsPast, NEW c \in Callers, NEW a, NEW op,
           op \in {"initialize", "start", "shutdown"},
           c \in Executions => op = "initialize" /\ a = AgentOf[c],
           Lifecycle!Begin(c, a, op)
    PROVE  AgentsSound'
  <1> DEFINE k == [at |-> "find", op |-> op, agent |-> a, todo |-> Lifecycle!StepsOf(a, op)]
  <1>1. call' = [call EXCEPT ![c] = k] /\ agentStates' = agentStates
        /\ disturbed' = IF op = "shutdown" THEN disturbed \cup {a} ELSE disturbed
    BY DEF Lifecycle!Begin
  <1>2. OnlyCall(c) /\ call'[c] = k
    BY <1>1 DEF OnlyCall, AgentsSound
  <1>3. /\ DOMAIN k = {"at", "op", "agent", "todo"}
        /\ k.at = "find" /\ k.op = op /\ k.agent = a
        /\ op \in {"initialize", "start"} => k.todo = <<op>>
    BY DEF Lifecycle!StepsOf
  <1> HIDE DEF k
  <1>4. CallSound(c)'
    BY <1>1, <1>2, <1>3 DEF CallSound
  <1>5. ASSUME NEW x \in Agents \ disturbed' PROVE AgentSound(x)'
    BY <1>1, <1>2, <1>3, AgentKept DEF AwaitsAgent, OnlyCall, NoneGetsPast
  <1> QED BY <1>1, <1>2, <1>4, <1>5, CallsKept DEF AgentsSound, OnlyCall, NoneGetsPast, PlacesKept

\* What a call that throws leaves.
LEMMA ThrowSteps ==
    ASSUME AgentsSound, NoneGetsPast, NEW c \in Callers, call[c] # [at |-> "idle"],
           Lifecycle!Throw(c), disturbed' = disturbed
    PROVE  AgentsSound'
  <1>1. call' = [call EXCEPT ![c] = [at |-> "idle"]]
    BY DEF Lifecycle!Throw, Lifecycle!Idle
  <1>2. CallSound(c) /\ call[c].op \in {"initialize", "start", "shutdown"}
    BY DEF AgentsSound, CallSound
  <1>3. DOMAIN agentStates' = Agents
        /\ \A x \in Agents \ disturbed : agentStates'[x] = agentStates[x]
    <2>1. CASE call[c].op = "shutdown"
      <3>1. call[c].agent \in disturbed
        BY <1>2, <2>1 DEF CallSound
      <3>2. agentStates' = agentStates
            \/ agentStates' = [agentStates EXCEPT ![call[c].agent] = "FAILED"]
        BY DEF Lifecycle!Throw, Lifecycle!SetState
      <3> QED BY <3>1, <3>2 DEF AgentsSound
    <2>2. CASE call[c].op # "shutdown"
      BY <2>2 DEF Lifecycle!Throw, AgentsSound
    <2> QED BY <2>1, <2>2
  <1>4. OnlyCall(c) /\ call'[c] = [at |-> "idle"]
    BY <1>1, <1>3 DEF OnlyCall, AgentsSound
  <1>5. CallSound(c)'
    BY <1>4 DEF CallSound
  <1>6. ASSUME NEW x \in Agents \ disturbed' PROVE AgentSound(x)'
    BY <1>3, <1>4, AgentKept DEF AwaitsAgent, NoneGetsPast
  <1> QED BY <1>4, <1>5, <1>6, CallsKept DEF AgentsSound, OnlyCall, NoneGetsPast, PlacesKept

LEMMA FindSteps ==
    ASSUME AgentsSound, NoneGetsPast, NEW c \in Callers, Lifecycle!Find(c)
    PROVE  AgentsSound'
  <1>1. call[c] # [at |-> "idle"] /\ disturbed' = disturbed /\ call[c].at = "find"
    BY DEF Lifecycle!Find
  <1>2. CASE Lifecycle!Throw(c)
    BY <1>1, <1>2, ThrowSteps
  <1>3. CASE call' = [call EXCEPT ![c].at = "check"] /\ agentStates' = agentStates
    <2>1. CallSound(c) /\ DOMAIN call[c] = {"at", "op", "agent", "todo"}
      BY <1>1 DEF AgentsSound, CallSound
    <2> DEFINE m == [call[c] EXCEPT !.at = "check"]
    <2>2. OnlyCall(c) /\ call'[c] = m
      BY <1>1, <1>3 DEF OnlyCall, AgentsSound
    <2>3. /\ DOMAIN m = {"at", "op", "agent", "todo"}
          /\ m.at = "check" /\ m.op = call[c].op /\ m.agent = call[c].agent
          /\ m.todo = call[c].todo
      BY <2>1
    <2> HIDE DEF m
    <2>4. CallSound(c)'
      BY <1>1, <2>1, <2>2, <2>3 DEF CallSound
    <2>5. ASSUME NEW x \in Agents \ disturbed' PROVE AgentSound(x)'
      BY <1>1, <1>3, <2>2, <2>3, AgentKept DEF AwaitsAgent, NoneGetsPast
    <2> QED BY <2>2, <2>4, <2>5, CallsKept DEF AgentsSound, OnlyCall, NoneGetsPast, PlacesKept
  <1> QED BY <1>2, <1>3 DEF Lifecycle!Find

\* The part of the table that an undisturbed agent goes through.
LEMMA Table ==
    /\ \A s \in {"none", "FAILED"} : \A t \in {"INITIALIZING", "RUNNING"} :
         t \in Lifecycle!ValidTransitions[IF s = "none" THEN "REGISTERED" ELSE s]
           => t = "INITIALIZING"
    /\ \A t \in {"INITIALIZING", "RUNNING"} : t \notin Lifecycle!ValidTransitions["INITIALIZING"]
    /\ \A s \in {"READY", "RUNNING"} : "INITIALIZING" \notin Lifecycle!ValidTransitions[s]
    /\ Lifecycle!Target["initialize"] = "INITIALIZING" /\ Lifecycle!Target["start"] = "RUNNING"
  BY DEF Lifecycle!ValidTransitions, Lifecycle!Target

\* The transition is checked: an undisturbed agent begins to be initialised with nobody
\* past that, or to be started.
LEMMA TransitionSteps ==
    ASSUME AgentsSound, NoneGetsPast, NEW c \in Callers, Lifecycle!Check(c)
    PROVE  AgentsSound'
  <1> DEFINE k == call[c]
             step == Head(k.todo)
             valid == Lifecycle!IsValidTransition(Lifecycle!GetAgentState(k.agent), Lifecycle!Target[step])
             m == [k EXCEPT !.at = "await"]
  <1>1. /\ k.at = "check" /\ disturbed' = disturbed
        /\ IF valid
           THEN /\ agentStates' = [agentStates EXCEPT ![k.agent] = Lifecycle!Target[step]]
                /\ call' = [call EXCEPT ![c].at = "await"]
           ELSE Lifecycle!Throw(c)
    BY DEF Lifecycle!Check, Lifecycle!SetState
  <1>2. CASE ~valid
    <2>1. call[c] # [at |-> "idle"]
      BY <1>1
    <2> QED BY <1>1, <1>2, <2>1, ThrowSteps
  <1>3. CASE valid
    <2>1. CallSound(c) /\ DOMAIN k = {"at", "op", "agent", "todo"}
      BY <1>1 DEF AgentsSound, CallSound
    <2>2. OnlyCall(c) /\ call'[c] = m
      BY <1>1, <1>3 DEF OnlyCall, AgentsSound
    <2>3. /\ DOMAIN m = {"at", "op", "agent", "todo"}
          /\ m.at = "await" /\ m.op = k.op /\ m.agent = k.agent /\ m.todo = k.todo
      BY <2>1
    <2>4. \A x \in Agents : agentStates'[x] = IF x = k.agent THEN Lifecycle!Target[step]
                                             ELSE agentStates[x]
      BY <1>1, <1>3 DEF AgentsSound
    <2> HIDE DEF m
    <2>5. CallSound(c)'
      BY <1>1, <2>1, <2>2, <2>3 DEF CallSound
    <2>6. ASSUME NEW x \in Agents \ disturbed', x # k.agent PROVE AgentSound(x)'
      BY <1>1, <2>2, <2>3, <2>4, <2>6, AgentKept DEF AwaitsAgent, NoneGetsPast
    <2>7. ASSUME NEW x \in Agents \ disturbed', x = k.agent PROVE AgentSound(x)'
      <3>1. k.op \in {"initialize", "start"} /\ k.todo = <<k.op>>
        BY <1>1, <2>1, <2>7 DEF CallSound
      <3>2. step = k.op /\ Lifecycle!Target[step] \in {"INITIALIZING", "RUNNING"}
            /\ (Lifecycle!Target[step] = "INITIALIZING" <=> step = "initialize")
        BY <3>1, Table
      <3>3. Lifecycle!Target[step] \in Lifecycle!ValidTransitions[
                IF agentStates[x] = "none" THEN "REGISTERED" ELSE agentStates[x]]
        BY <1>3, <2>7 DEF Lifecycle!IsValidTransition, Lifecycle!GetAgentState
      <3>4. AgentSound(x) /\ agentStates'[x] = Lifecycle!Target[step]
        BY <1>1, <2>4, <2>7 DEF AgentsSound
      <3>5. /\ \A d \in Callers \ {c} : AwaitsAgent(d, x)' <=> AwaitsAgent(d, x)
            /\ \A d \in Callers \ {c} : call'[d] = call[d]
            /\ call'[c].todo = <<k.op>>
        BY <2>2, <2>3, <3>1 DEF AwaitsAgent, OnlyCall
      <3>6. (Unused(x) => Unused(x)') /\ (UsedOnce(x) => UsedOnce(x)')
        BY DEF Unused, UsedOnce, NoneGetsPast
      <3> HIDE DEF step, k, valid
      <3>7. CASE agentStates[x] \in {"none", "FAILED"}
        <4>1. Lifecycle!Target[step] = "INITIALIZING" /\ k.op = "initialize"
          BY <3>2, <3>3, <3>7, Table
        <4>2. Unused(x) /\ \A d \in Callers : ~AwaitsAgent(d, x)
          BY <3>4, <3>7 DEF AgentSound
        <4> QED BY <3>4, <3>5, <3>6, <4>1, <4>2 DEF AgentSound
      <3>8. CASE agentStates[x] = "INITIALIZING"
        BY <3>2, <3>3, <3>8, Table
      <3>9. CASE agentStates[x] \in {"READY", "RUNNING"}
        <4>1. Lifecycle!Target[step] = "RUNNING" /\ k.op = "start"
          <5>1. Lifecycle!Target[step] \in Lifecycle!ValidTransitions[agentStates[x]]
            BY <3>3, <3>9
          <5>2. Lifecycle!Target[step] # "INITIALIZING"
            BY <3>9, <5>1, Table
          <5> QED BY <3>1, <3>2, <5>2
        <4>2. UsedOnce(x) /\ \A d \in Callers : AwaitsAgent(d, x) => call[d].todo = <<"start">>
          BY <3>4, <3>9 DEF AgentSound
        <4> QED BY <3>4, <3>5, <3>6, <4>1, <4>2 DEF AgentSound
      <3> QED BY <3>4, <3>7, <3>8, <3>9 DEF AgentSound
    <2> QED BY <1>1, <2>2, <2>5, <2>6, <2>7, CallsKept DEF AgentsSound, OnlyCall, NoneGetsPast, PlacesKept
  <1> QED BY <1>2, <1>3

LEMMA ShutdownSteps ==
    ASSUME AgentsSound, NoneGetsPast, NEW c \in Callers, Lifecycle!CheckShutdown(c)
    PROVE  AgentsSound'
  <1> DEFINE k == call[c]
             todo == Lifecycle!ShutdownSteps(k.agent)
             place == IF Lifecycle!Live(k.agent) THEN "find" ELSE "await"
             m == [k EXCEPT !.todo = todo, !.at = place]
  <1>1. /\ k.at = "check" /\ Head(k.todo) = "shutdown"
        /\ call' = [call EXCEPT ![c] = m] /\ agentStates' = agentStates /\ disturbed' = disturbed
    BY DEF Lifecycle!CheckShutdown
  <1>2. CallSound(c) /\ DOMAIN k = {"at", "op", "agent", "todo"}
    BY <1>1 DEF AgentsSound, CallSound
  <1>3. k.op = "shutdown" /\ k.agent \in disturbed
    <2>1. k.op \in {"initialize", "start"} => Head(k.todo) = k.op
      BY <1>1, <1>2 DEF CallSound
    <2> QED BY <1>1, <1>2, <2>1 DEF CallSound
  <1>4. place \in {"find", "await"}
    OBVIOUS
  <1> HIDE DEF todo, place
  <1>5. OnlyCall(c) /\ call'[c] = m
    BY <1>1 DEF OnlyCall, AgentsSound
  <1>6. DOMAIN m = {"at", "op", "agent", "todo"}
        /\ m.at = place /\ m.op = k.op /\ m.agent = k.agent
    BY <1>2
  <1> HIDE DEF m
  <1>7. CallSound(c)'
    BY <1>1, <1>2, <1>3, <1>4, <1>5, <1>6 DEF CallSound
  <1>8. ASSUME NEW x \in Agents \ disturbed' PROVE AgentSound(x)'
    BY <1>1, <1>3, <1>5, <1>6, AgentKept DEF AwaitsAgent, NoneGetsPast
  <1> QED BY <1>1, <1>5, <1>7, <1>8, CallsKept DEF AgentsSound, OnlyCall, NoneGetsPast, PlacesKept

\* The agent's method rejected.
LEMMA RejectSteps ==
    ASSUME AgentsSound, NoneGetsPast, NEW c \in Callers, Lifecycle!Reject(c)
    PROVE  AgentsSound'
  <1> DEFINE k == call[c]
  <1>1. /\ k.at = "await"
        /\ agentStates' = [agentStates EXCEPT ![k.agent] = "FAILED"]
        /\ call' = [call EXCEPT ![c] = [at |-> "idle"]]
        /\ disturbed' = IF Head(k.todo) \in {"start", "pause"} THEN disturbed \cup {k.agent}
                        ELSE disturbed
    BY DEF Lifecycle!Reject, Lifecycle!SetState, Lifecycle!Idle
  <1>2. CallSound(c) /\ k # [at |-> "idle"]
    BY <1>1 DEF AgentsSound
  <1>3. OnlyCall(c) /\ call'[c] = [at |-> "idle"]
    BY <1>1 DEF OnlyCall, AgentsSound
  <1>4. CallSound(c)'
    BY <1>3 DEF CallSound
  <1>5. \A x \in Agents : agentStates'[x] = IF x = k.agent THEN "FAILED" ELSE agentStates[x]
    BY <1>1 DEF AgentsSound
  <1>6. ASSUME NEW x \in Agents \ disturbed', x # k.agent PROVE AgentSound(x)'
    BY <1>3, <1>5, <1>6, AgentKept DEF AwaitsAgent, NoneGetsPast, OnlyCall
  <1>7. ASSUME NEW x \in Agents \ disturbed', x = k.agent PROVE AgentSound(x)'
    <2>1. x \notin disturbed /\ Head(k.todo) # "start"
      BY <1>1, <1>7
    <2>2. k.op \in {"initialize", "start"} /\ k.todo = <<k.op>>
      BY <1>2, <1>7, <2>1 DEF CallSound
    <2>3. k.todo # <<"start">> /\ AwaitsAgent(c, x) /\ AgentSound(x)
      BY <1>1, <1>7, <2>1, <2>2 DEF AwaitsAgent, AgentsSound
    <2>4. /\ \A d \in Callers : AwaitsAgent(d, x) => d = c
          /\ Unused(x)
      BY <2>3 DEF AgentSound
    <2>5. \A d \in Callers : ~AwaitsAgent(d, x)'
      BY <1>3, <2>4 DEF AwaitsAgent, OnlyCall
    <2>6. Unused(x)'
      BY <2>4 DEF Unused, NoneGetsPast
    <2> QED BY <1>5, <1>7, <2>5, <2>6 DEF AgentSound
  <1> QED BY <1>3, <1>4, <1>6, <1>7, CallsKept DEF AgentsSound, OnlyCall, NoneGetsPast, PlacesKept

\* The agent's method resolved.  An execution whose initialize it was gets past it.
LEMMA ResolveSteps ==
    ASSUME AgentsSound, PlacesKept, NEW c \in Callers, Lifecycle!Resolve(c),
           \A e \in Executions : Past(e)' => Past(e) \/ e = c
    PROVE  AgentsSound'
  <1> DEFINE k == call[c]
             rest == Tail(k.todo)
             place == IF Head(rest) = "agentShutdown" THEN "await" ELSE "find"
             m == [k EXCEPT !.todo = rest, !.at = place]
             outcome == Lifecycle!Outcome(Head(k.todo), agentStates[k.agent])
  <1>1. /\ k.at = "await" /\ disturbed' = disturbed
        /\ agentStates' = [agentStates EXCEPT ![k.agent] = outcome]
        /\ call' = [call EXCEPT ![c] = IF rest = <<>> THEN [at |-> "idle"] ELSE m]
    BY DEF Lifecycle!Resolve, Lifecycle!SetState, Lifecycle!Idle
  <1>2. CallSound(c) /\ DOMAIN k = {"at", "op", "agent", "todo"}
    BY <1>1 DEF AgentsSound, CallSound
  <1>3. OnlyCall(c) /\ call'[c] = IF rest = <<>> THEN [at |-> "idle"] ELSE m
    BY <1>1 DEF OnlyCall, AgentsSound
  <1>4. \A x \in Agents : agentStates'[x] = IF x = k.agent THEN outcome ELSE agentStates[x]
    BY <1>1 DEF AgentsSound
  <1>5. DOMAIN m = {"at", "op", "agent", "todo"} /\ m.at \in {"find", "await"}
        /\ m.op = k.op /\ m.agent = k.agent
    BY <1>2
  <1>6. k.op \in {"initialize", "start"} => k.todo = <<k.op>> /\ rest = <<>> /\ Head(k.todo) = k.op
    <2>1. ASSUME k.op \in {"initialize", "start"} PROVE k.todo = <<k.op>>
      BY <1>1, <1>2, <2>1 DEF CallSound
    <2>2. \A x : Tail(<<x>>) = <<>> /\ Head(<<x>>) = x
      OBVIOUS
    <2>3. k.todo = <<k.op>> => rest = <<>> /\ Head(k.todo) = k.op
      BY <2>2, Zenon
    <2> QED BY <2>1, <2>3
  <1>7. outcome = CASE Head(k.todo) = "initialize" -> "READY" [] Head(k.todo) = "stop" -> "STOPPED"
                    [] Head(k.todo) = "agentShutdown" -> "none" [] OTHER -> agentStates[k.agent]
    BY DEF Lifecycle!Outcome
  <1> HIDE DEF m, rest, outcome
  <1>8. CallSound(c)'
    <2>1. CASE rest = <<>>
      BY <1>3, <2>1 DEF CallSound
    <2>2. CASE rest # <<>>
      <3>1. k.op = "shutdown"
        BY <1>1, <1>2, <1>6, <2>2 DEF CallSound
      <3> QED BY <1>1, <1>2, <1>3, <1>5, <2>2, <3>1 DEF CallSound
    <2> QED BY <2>1, <2>2
  <1>9. c \in Executions => k.agent = AgentOf[c] /\ k.op = "initialize"
    BY <1>1, <1>2 DEF CallSound
  <1>10. ASSUME NEW x \in Agents \ disturbed', x # k.agent PROVE AgentSound(x)'
    <2>1. \A e \in Executions : AgentOf[e] = x /\ Past(e)' => Past(e)
      BY <1>9, <1>10
    <2>2. AwaitsAgent(c, x)' => AwaitsAgent(c, x) /\ call'[c].todo = call[c].todo
      BY <1>3, <1>5, <1>10 DEF AwaitsAgent
    <2> QED BY <1>1, <1>3, <1>4, <1>10, <2>1, <2>2, AgentKept
  <1>11. ASSUME NEW x \in Agents \ disturbed', x = k.agent PROVE AgentSound(x)'
    <2>1. k.op \in {"initialize", "start"} /\ k.todo = <<k.op>> /\ rest = <<>> /\ Head(k.todo) = k.op
      BY <1>1, <1>2, <1>6, <1>11 DEF CallSound
    <2>2. AgentSound(x) /\ AwaitsAgent(c, x) /\ call'[c] = [at |-> "idle"]
      BY <1>1, <1>3, <1>11, <2>1 DEF AgentsSound, AwaitsAgent
    <2>3. \A d \in Callers : AwaitsAgent(d, x)' => d # c /\ AwaitsAgent(d, x) /\ call'[d] = call[d]
      BY <1>3, <2>2 DEF AwaitsAgent, OnlyCall
    <2>4. CASE k.op = "initialize"
      <3>1. k.todo # <<"start">>
        BY <2>1, <2>4
      <3>2. Unused(x) /\ \A d \in Callers : AwaitsAgent(d, x) => d = c
        BY <2>2, <3>1 DEF AgentSound
      <3>3. agentStates'[x] = "READY"
        BY <1>4, <1>7, <1>11, <2>1, <2>4
      <3>4. UsedOnce(x)'
        BY <3>2 DEF Unused, UsedOnce
      <3> QED BY <2>3, <3>2, <3>3, <3>4 DEF AgentSound
    <2>5. CASE k.op = "start"
      <3>1. k.todo # <<"initialize">>
        BY <2>1, <2>5
      <3>2. agentStates'[x] = agentStates[x]
        BY <1>4, <1>7, <1>11, <2>1, <2>5
      <3>3. c \notin Executions
        BY <1>9, <2>5
      <3>4. \A e \in Executions : AgentOf[e] = x /\ Past(e)' => Past(e)
        BY <3>3
      <3>5. ~AwaitsAgent(c, x)'
        BY <2>3
      <3> QED BY <1>1, <1>3, <1>11, <3>2, <3>4, <3>5, AgentKept
    <2> QED BY <2>1, <2>4, <2>5
  <1> QED BY <1>1, <1>3, <1>8, <1>10, <1>11, CallsKept DEF AgentsSound, OnlyCall, PlacesKept

\* A bootstrap's or an operator's call moves on.
LEMMA AdvanceSteps ==
    ASSUME AgentsSound, NoneGetsPast, NEW c \in Callers, Lifecycle!Advance(c)
    PROVE  AgentsSound'
  <1>1. PlacesKept /\ \A e \in Executions : Past(e)' => Past(e) \/ e = c
    BY DEF NoneGetsPast
  <1> QED BY <1>1, FindSteps, TransitionSteps, ShutdownSteps, ResolveSteps, RejectSteps
          DEF Lifecycle!Advance

LEMMA AtRest ==
    ASSUME AgentsSound, UNCHANGED at
    PROVE  NoneGetsPast
  BY DEF AgentsSound, NoneGetsPast, PlacesKept, Past

\* An execution moves to a place that is not past its agent's initialisation, or was.
LEMMA Moves ==
    ASSUME AgentsSound, NEW e, NEW place, at' = [at EXCEPT ![e] = place],
           Type[e] = "SINGLE_AGENT" =>
             /\ place \notin {"schedule", "wait"}
             /\ place \in {"memory", "run", "record", "returned"} => Past(e)
    PROVE  NoneGetsPast
  <1>1. \A x \in Executions : at'[x] = IF x = e THEN place ELSE at[x]
    BY DEF AgentsSound
  <1> QED BY <1>1 DEF AgentsSound, NoneGetsPast, PlacesKept, Past

\* A call of execute, executeWorkflow or executePlan begins or is cancelled.
LEMMA ExecutionBegins ==
    ASSUME AgentsSound, NEW e, ExecutionBegin(e) \/ Cancel(e)
    PROVE  AgentsSound'
  <1>1. UNCHANGED <<agentStates, call, disturbed>>
    BY DEF ExecutionBegin, Execute, ExecuteWorkflow, ExecutePlan, Cancel, lifecycleVars, managerVars
  <1>2. CASE Execute(e)
    BY <1>1, <1>2, Moves, QuietSteps DEF Execute, CreateExecution, MoveTo
  <1>3. CASE ExecuteWorkflow(e)
    BY <1>1, <1>3, Moves, QuietSteps DEF ExecuteWorkflow, CreateExecution, MoveTo
  <1>4. ASSUME NEW passed \in BOOLEAN, ExecutePlan(e, passed) PROVE AgentsSound'
    <2>1. Type[e] # "SINGLE_AGENT"
          /\ (at' = [at EXCEPT ![e] = "memory"] \/ at' = [at EXCEPT ![e] = "threw"])
      BY <1>4 DEF ExecutePlan, CreateExecution, Fail, MoveTo
    <2> QED BY <1>1, <2>1, Moves, QuietSteps
  <1>5. CASE Cancel(e)
    BY <1>1, <1>5, AtRest, QuietSteps DEF Cancel
  <1> QED BY <1>2, <1>3, <1>4, <1>5 DEF ExecutionBegin

\* It goes on.
LEMMA ExecutionSteps ==
    ASSUME AgentsSound, NEW e \in Executions, ExecutionStep(e)
    PROVE  AgentsSound'
  <1>0. e \in Callers
    BY DEF Callers
  <1>1. CASE FindAgent(e)
    <2>1. at' = [at EXCEPT ![e] = "health"] \/ at' = [at EXCEPT ![e] = "threw"]
      BY <1>1 DEF FindAgent, Fail, MoveTo
    <2>2. UNCHANGED <<agentStates, call, disturbed>>
      BY <1>1 DEF FindAgent, lifecycleVars, managerVars
    <2> QED BY <2>1, <2>2, Moves, QuietSteps
  <1>2. CASE CheckHealth(e)
    <2>1. CASE Fail(e) /\ UNCHANGED lifecycleVars
      BY <2>1, Moves, QuietSteps DEF Fail, MoveTo, lifecycleVars, managerVars
    <2>2. CASE Lifecycle!Begin(e, AgentOf[e], "initialize") /\ MoveTo(e, "initialize")
      <3>1. NoneGetsPast
        BY <2>2, Moves DEF MoveTo
      <3> QED BY <1>0, <2>2, <3>1, BeginSteps
    <2> QED BY <1>2, <2>1, <2>2 DEF CheckHealth
  <1>3. CASE InitializeAgent(e)
    <2>1. CASE Lifecycle!Resolve(e) /\ MoveTo(e, "memory")
      <3>1. \A x \in Executions : at'[x] = IF x = e THEN "memory" ELSE at[x]
        BY <2>1 DEF AgentsSound, MoveTo
      <3>2. PlacesKept /\ \A x \in Executions : Past(x)' => Past(x) \/ x = e
        BY <2>1, <3>1 DEF AgentsSound, PlacesKept, Past, MoveTo
      <3> QED BY <1>0, <2>1, <3>2, ResolveSteps
    <2>2. CASE /\ Lifecycle!Find(e) \/ Lifecycle!Check(e) \/ Lifecycle!Reject(e)
               /\ Fail(e) \/ at' = at
      <3>1. NoneGetsPast
        BY <2>2, Moves, AtRest DEF Fail, MoveTo
      <3> QED BY <1>0, <2>2, <3>1, FindSteps, TransitionSteps, RejectSteps
    <2> QED BY <1>3, <2>1, <2>2 DEF InitializeAgent
  <1>4. CASE LoadMemoryContext(e) \/ SchedulePlanTask(e) \/ PollPlan(e) \/ RunReturns(e)
             \/ RunThrows(e) \/ Complete(e)
    <2>1. UNCHANGED <<agentStates, call, disturbed>>
      BY <1>4 DEF LoadMemoryContext, SchedulePlanTask, PollPlan, RunReturns, RunThrows, Complete,
                  lifecycleVars, managerVars
    <2>2. Type[e] = "SINGLE_AGENT" => at[e] \notin {"schedule", "wait"}
      BY DEF AgentsSound
    <2>3. CASE LoadMemoryContext(e)
      <3> DEFINE place == IF Type[e] # "PLAN" THEN "run" ELSE IF Tasks = 0 THEN "record" ELSE "schedule"
      <3>1. at[e] = "memory" /\ at' = [at EXCEPT ![e] = place]
        BY <2>3 DEF LoadMemoryContext, MoveTo
      <3>2. Type[e] = "SINGLE_AGENT" => place = "run" /\ Past(e)
        BY <3>1 DEF Past
      <3> HIDE DEF place
      <3>3. NoneGetsPast
        BY <3>1, <3>2, Moves
      <3> QED BY <2>1, <3>3, QuietSteps
    <2>4. CASE SchedulePlanTask(e) \/ PollPlan(e)
      <3>1. Type[e] # "SINGLE_AGENT"
        BY <2>2, <2>4 DEF SchedulePlanTask, PollPlan
      <3>2. at' = at \/ at' = [at EXCEPT ![e] = "wait"] \/ at' = [at EXCEPT ![e] = "record"]
        BY <2>4 DEF SchedulePlanTask, PollPlan, MoveTo
      <3> QED BY <2>1, <3>1, <3>2, Moves, AtRest, QuietSteps
    <2>5. CASE RunReturns(e) \/ RunThrows(e) \/ Complete(e)
      <3>1. \/ at[e] = "run" /\ at' = [at EXCEPT ![e] = "record"]
            \/ at' = [at EXCEPT ![e] = "threw"]
            \/ at[e] = "record" /\ at' = [at EXCEPT ![e] = "returned"]
        BY <2>5 DEF RunReturns, RunThrows, Complete, Fail, MoveTo
      <3> QED BY <2>1, <3>1, Moves, QuietSteps DEF Past
    <2> QED BY <1>4, <2>3, <2>4, <2>5
  <1> QED BY <1>1, <1>2, <1>3, <1>4 DEF ExecutionStep

\* The orchestrator's start, stop, pause and resume leave the agents to themselves.
LEMMA ControlSteps ==
    ASSUME AgentsSound, NEW c, ControlBegin(c) \/ ControlStep(c)
    PROVE  AgentsSound'
  <1>1. CASE ControlBegin(c)
    BY <1>1, AtRest, QuietSteps
       DEF ControlBegin, Start, Stop, Pause, Resume, lifecycleVars, managerVars, executionVars
  <1>2. CASE StartStopStep(c)
    BY <1>2, AtRest, QuietSteps
       DEF StartStopStep, StartEnd, StopCancel, StopCancelled, StopFails, StopPauseScheduler,
           StopEnd, lifecycleVars, managerVars, executionVars
  <1>3. CASE PauseExecutions(c) \/ ResumeExecutions(c)
    BY <1>3, AtRest, QuietSteps
       DEF PauseExecutions, ResumeExecutions, lifecycleVars, managerVars
  <1> QED BY <1>1, <1>2, <1>3 DEF ControlStep

LEMMA BootSteps ==
    ASSUME AgentsSound, NEW b \in Bootstraps,
           Bootstrap(b) \/ StartRuntime(b) \/ Shutdown(b) \/ BootStep(b)
    PROVE  AgentsSound'
  <1>0. b \in Callers /\ b \notin Executions
    BY BootstrapAssumption, OrchestratorAssumption DEF Callers
  <1>1. CASE Bootstrap(b) \/ StartRuntime(b) \/ Shutdown(b)
    BY <1>1, AtRest, QuietSteps
       DEF Bootstrap, StartRuntime, Shutdown, CallOrchestratorStart, Start, orchestratorVars,
           lifecycleVars, managerVars, executionVars
  <1>2. ASSUME NEW ok \in BOOLEAN,
               RegisterBuiltin(b) \/ BuiltinInitialized(b, ok) \/ BootstrapEnd(b) \/ StartAgents(b)
                 \/ StartEnds(b)
        PROVE  AgentsSound'
    BY <1>2, AtRest, QuietSteps
       DEF RegisterBuiltin, BuiltinInitialized, BootstrapEnd, CallOrchestratorStart, Start,
           StartAgents, StartEnds, orchestratorVars, lifecycleVars, managerVars, executionVars
  <1>3. CASE UnregisterBuiltin(b) \/ RemoveBuiltin(b) \/ StopOrchestrator(b) \/ PauseScheduler(b)
    BY <1>3, AtRest, QuietSteps
       DEF UnregisterBuiltin, RemoveBuiltin, StopOrchestrator, Stop, PauseScheduler,
           orchestratorVars, lifecycleVars, managerVars, executionVars
  <1>4. CASE ClearRegistry(b) \/ RemoveAgent(b) \/ AgentRemoved(b) \/ ShutdownEnd(b)
    BY <1>4, AtRest, QuietSteps
       DEF ClearRegistry, RemoveAgent, AgentRemoved, ShutdownEnd, orchestratorVars, lifecycleVars,
           managerVars, executionVars
  <1>5. CASE OrchestratorStep(b)
    BY <1>5, ControlSteps DEF OrchestratorStep, ControlStep
  <1>6. CASE StartAgent(b)
    <2>1. NoneGetsPast
      BY <1>6, AtRest DEF StartAgent, orchestratorVars, executionVars
    <2>2. \/ Lifecycle!Begin(b, Next1(b), "start")
          \/ UNCHANGED <<agentStates, call, disturbed>>
      BY <1>6 DEF StartAgent, lifecycleVars, managerVars
    <2> QED BY <1>0, <2>1, <2>2, BeginSteps, QuietSteps
  <1>7. CASE StartAgentStep(b) \/ ShutdownAgentStep(b)
    <2>1. NoneGetsPast
      BY <1>7, AtRest DEF StartAgentStep, ShutdownAgentStep, orchestratorVars, executionVars
    <2>2. Lifecycle!Advance(b)
      BY <1>7 DEF StartAgentStep, ShutdownAgentStep, Lifecycle!Advance
    <2> QED BY <1>0, <2>1, <2>2, AdvanceSteps
  <1>8. CASE ShutdownAgent(b)
    <2>1. NoneGetsPast
      BY <1>8, AtRest DEF ShutdownAgent, orchestratorVars, executionVars
    <2>2. Lifecycle!Begin(b, Next1(b), "shutdown")
      BY <1>8 DEF ShutdownAgent
    <2> QED BY <1>0, <2>1, <2>2, BeginSteps
  <1> QED BY <1>1, <1>2, <1>3, <1>4, <1>5, <1>6, <1>7, <1>8, Zenon DEF BootStep

LEMMA AgentsSoundStep ==
    ASSUME AgentsSound, [Next]_vars
    PROVE  AgentsSound'
  <1>1. ASSUME NEW a \in Agents, RegisterAgent(a) \/ AgentErrs(a) PROVE AgentsSound'
    BY <1>1, AtRest, QuietSteps
       DEF RegisterAgent, AgentErrs, orchestratorVars, lifecycleVars, managerVars, executionVars
  <1>2. CASE UseOrchestrator
    BY <1>2, ExecutionBegins, ControlSteps DEF UseOrchestrator
  <1>3. CASE UNCHANGED vars
    BY <1>3, AtRest, QuietSteps
       DEF vars, lifecycleVars, managerVars, orchestratorVars, executionVars
  <1> QED BY <1>1, <1>2, <1>3, BootSteps, ExecutionSteps, ControlSteps
          DEF Next, StepExecution, StepControl

\* While nothing shuts an agent down, and its start is not rejected late, at most one
\* execution of it gets past its initialisation, for any executions, operators and bootstraps
\* that overlap.
THEOREM ExecutedOnce == PlatformSpec => []OneExecutionPerAgent
  <1>1. PlatformInit => AgentsSound
    BY AgentsSoundInit DEF PlatformInit
  <1>2. AgentsSound /\ [PlatformNext]_platformVars => AgentsSound'
    <2>1. [PlatformNext]_platformVars => [Next]_vars
      BY DEF PlatformNext, platformVars, HealthAsked, HealthStep, Trouble, Usage
    <2> QED BY <2>1, AgentsSoundStep
  <1>3. AgentsSound => OneExecutionPerAgent
    <2>1. ASSUME AgentsSound, NEW e \in Executions, NEW f \in Executions, e # f,
                 AgentOf[e] = AgentOf[f], Past(e), Past(f)
          PROVE  AgentOf[e] \in disturbed
      <3>1. AgentOf[e] \in Agents
        BY OrchestratorAssumption
      <3>2. AgentOf[e] \notin disturbed => AgentSound(AgentOf[e])
        BY <2>1, <3>1 DEF AgentsSound
      <3> QED BY <2>1, <3>2 DEF AgentSound, Unused, UsedOnce
    <2> QED BY <2>1 DEF OneExecutionPerAgent, Past
  <1> QED BY <1>1, <1>2, <1>3, PTL DEF PlatformSpec

-----------------------------------------------------------------------------
(* The orchestrator's stop.                                                *)

Running == {e \in Executions : executions[e] = "RUNNING"}
Busy(c) == control[c] # [op |-> "idle"]

\* What an operation under way has left to do, and the state it has brought about.  A stop
\* has ahead all that still runs.
Operating(k) ==
    \/ k.op = "start" /\ state = "INITIALIZING"
    \/ k.op = "stop" /\ state = "STOPPING" /\ Running \subseteq ToSet(k.todo)
    \/ k.op = "cancelling" /\ state = "STOPPING" /\ k.todo # <<>> /\ Running \subseteq ToSet(Tail(k.todo))
    \/ k.op = "failing" /\ state = "STOPPING"
    \/ k.op = "stopping" /\ state = "STOPPING" /\ Running = {}
    \/ k.op \in {"pause", "pausing"} /\ state = "RUNNING"
    \/ k.op \in {"resume", "resuming"} /\ state = "PAUSED"

Operation == {"start", "stop", "cancelling", "failing", "stopping", "pause", "pausing",
              "resume", "resuming"}

\* The calls of the bootstrap keep to the workload, ...
Booted ==
    /\ workload \in Workloads
    /\ DOMAIN boots = Bootstraps
    /\ \A b \in Bootstraps :
         /\ boots[b].op # "idle" => b \in workload.boot
         /\ boots[b].op \in {"unregister", "removing"} => "shutdown" \in workload.calls

\* ... and so do those that operate the orchestrator, and its records.
Operated ==
    /\ DOMAIN control = Controllers /\ DOMAIN executions = Executions
    /\ \A c \in Controllers : Busy(c) =>
         /\ c \in Operators(workload) /\ control[c] \in [op : Operation, todo : Seq(ToSet(created))]
         /\ control[c].op = "cancelling" => control[c].todo # <<>>
    /\ created \in Seq(workload.executions)
    /\ Running \subseteq ToSet(created)

StopSound ==
    Serial(workload) =>
       /\ state = "STOPPED" => Running = {}
       /\ \A c \in Controllers : Busy(c) => Operating(control[c])
       /\ (\A c \in Controllers : ~Busy(c)) => state \in {"STOPPED", "RUNNING", "PAUSED", "ERROR"}

\* The records of a status are those created that have it.
LEMMA FoundRecords ==
    ASSUME NEW S, created \in Seq(S), NEW s
    PROVE  /\ WithStatus(s) \in Seq(ToSet(created))
           /\ ToSet(WithStatus(s)) = {e \in ToSet(created) : executions[e] = s}
  <1> DEFINE T == ToSet(created)
             X == Seq(T)
             N == Len(created)
             Look(n, x) == IF executions[created[n]] = s THEN Append(x, created[n]) ELSE x
             F == [n \in 1..N |-> [x \in X |-> Look(n, x)]]
             Fits(f) == f = [n \in 0..N |-> IF n = 0 THEN <<>> ELSE Look(n, f[n-1])]
             found == CHOOSE f : Fits(f)
             upto(n) == {e \in T : (\E i \in 1..n : e = created[i]) /\ executions[e] = s}
  <1>1. <<>> \in X /\ N \in Nat /\ \A n \in 1..N : created[n] \in T
    BY DEF ToSet
  <1>t. T = {created[i] : i \in 1..N}
    BY DEF ToSet
  <1> HIDE DEF T, N
  <1>a. \A n \in 1..N, x \in X : Look(n, x) \in X
    BY <1>1
  <1>2. F \in StepFunctions(N, X)
    <2> HIDE DEF Look, X
    <2> QED BY <1>a DEF StepFunctions
  <1>3. PICK f : Follows(f, N, X, <<>>, F)
    <2> HIDE DEF F, X
    <2> QED BY <1>1, <1>2, BoundedRecursion
  <1>4. Fits(f)
    <2> HIDE DEF Look, X
    <2>1. ASSUME NEW n \in 1..N
          PROVE  f[n] = Look(n, f[n-1])
      <3>1. f[n-1] \in X
        BY <1>1, <1>3 DEF Follows
      <3>2. f[n] = F[n][f[n-1]]
        BY <1>3 DEF Follows
      <3>3. \A x \in X : F[n][x] = Look(n, x)
        OBVIOUS
      <3> HIDE DEF F
      <3> QED BY <3>1, <3>2, <3>3
    <2>2. f \in [0..N -> X] /\ f[0] = <<>>
      BY <1>3 DEF Follows
    <2>3. \A n \in 0..N : f[n] = IF n = 0 THEN <<>> ELSE Look(n, f[n-1])
      BY <1>1, <2>1, <2>2
    <2> QED BY <2>2, <2>3
  <1>5. Fits(found)
    <2> HIDE DEF Fits
    <2> QED BY <1>4
  <1>6. WithStatus(s) = found[N]
    BY DEF WithStatus, N
  <1> HIDE DEF found
  <1>7. found[0] = <<>> /\ \A n \in 1..N : found[n] = Look(n, found[n-1])
    <2> HIDE DEF Look
    <2> QED BY <1>1, <1>5
  <1> DEFINE D == {n \in 0..N : found[n] \in X /\ ToSet(found[n]) = upto(n)}
  <1>8. 0 \in D
    <2>1. ToSet(<<>>) = {} /\ upto(0) = {}
      BY DEF ToSet
    <2> HIDE DEF upto, X, Look
    <2>2. 0 \in 0..N
      BY <1>1
    <2> QED BY <1>1, <1>7, <2>1, <2>2
  <1>9. ASSUME NEW n \in 1..N, n - 1 \in D
        PROVE  n \in D
    <2>1. found[n-1] \in X /\ ToSet(found[n-1]) = upto(n-1) /\ created[n] \in T
      BY <1>1, <1>9
    <2>2. found[n] = Look(n, found[n-1]) /\ found[n] \in X
      BY <1>7, <1>a, <2>1
    <2>3. ToSet(Append(found[n-1], created[n])) = ToSet(found[n-1]) \cup {created[n]}
      BY <2>1, AppendSet
    <2>4. upto(n) = upto(n-1) \cup (IF executions[created[n]] = s THEN {created[n]} ELSE {})
      <3>1. \A i : i \in 1..n <=> i \in 1..(n-1) \/ i = n
        BY <1>1
      <3> QED BY <2>1, <3>1
    <2>5. n \in 0..N /\ ToSet(Look(n, found[n-1])) = upto(n)
      <3> HIDE DEF upto, X
      <3> QED BY <1>1, <2>1, <2>3, <2>4
    <2> HIDE DEF upto, X, Look
    <2> QED BY <2>2, <2>5
  <1>10. N \in D
    <2> HIDE DEF D
    <2>1. \A n \in 0..N : n \in D
      BY <1>1, <1>8, <1>9, BoundedInduction
    <2> QED BY <1>1, <2>1
  <1>11. upto(N) = {e \in T : executions[e] = s}
    BY <1>t
  <1> HIDE DEF upto
  <1> QED BY <1>6, <1>10, <1>11 DEF T

Rests == {"STOPPED", "RUNNING", "PAUSED", "ERROR"}

LEMMA OneOperates ==
    ASSUME Operated, Serial(workload), NEW c \in Operators(workload), NEW d \in Controllers, d # c
    PROVE  ~Busy(d)
  BY DEF Operated, Serial

\* Records come or change while no operation moves: what a stop has ahead gets no more.
LEMMA RecordsChange ==
    ASSUME Operated, StopSound, UNCHANGED <<workload, control, state>>,
           DOMAIN executions' = Executions,
           NEW e,
           created' = created \/ (e \in workload.executions /\ created' = Append(created, e)),
           \/ Running' \subseteq Running
           \/ state = "RUNNING" /\ created' = Append(created, e) /\ Running' \subseteq Running \cup {e}
    PROVE  Operated' /\ StopSound'
  <1>1. created' \in Seq(workload.executions) /\ ToSet(created) \subseteq ToSet(created')
        /\ (created' = Append(created, e) /\ e \in workload.executions => e \in ToSet(created'))
    <2>1. created \in Seq(workload.executions)
      BY DEF Operated
    <2>2. CASE created' = created
      <3>1. created # Append(created, e)
        <4>1. Len(created) \in Nat /\ Len(Append(created, e)) = Len(created) + 1
          BY <2>1
        <4> QED BY <4>1
      <3> QED BY <2>1, <2>2, <3>1
    <2>3. CASE e \in workload.executions /\ created' = Append(created, e)
      <3>1. ToSet(Append(created, e)) = ToSet(created) \cup {e}
        BY <2>1, <2>3, AppendSet
      <3>2. Append(created, e) \in Seq(workload.executions)
        BY <2>1, <2>3
      <3> QED BY <2>3, <3>1, <3>2
    <2> QED BY <2>2, <2>3
  <1>2. Running' \subseteq ToSet(created')
    <2>1. CASE Running' \subseteq Running
      BY <1>1, <2>1 DEF Operated
    <2>2. CASE created' = Append(created, e) /\ Running' \subseteq Running \cup {e}
      <3>1. e \in ToSet(created')
        <4>1. Append(created, e) # created
          <5>1. Len(created) \in Nat /\ Len(Append(created, e)) = Len(created) + 1
            BY DEF Operated
          <5> QED BY <5>1
        <4> QED BY <1>1, <2>2, <4>1
      <3> QED BY <1>1, <2>2, <3>1 DEF Operated
    <2> QED BY <2>1, <2>2
  <1>3. ASSUME NEW c \in Controllers, Busy(c)
        PROVE  c \in Operators(workload) /\ control[c] \in [op : Operation, todo : Seq(ToSet(created'))]
    <2>1. control[c] \in [op : Operation, todo : Seq(ToSet(created))]
      BY <1>3 DEF Operated
    <2>2. \A S, T : S \subseteq T => Seq(S) \subseteq Seq(T)
      OBVIOUS
    <2>3. control[c] \in [op : Operation, todo : Seq(ToSet(created'))]
      BY <1>1, <2>1, <2>2
    <2> QED BY <1>3, <2>3 DEF Operated
  <1>4. Operated'
    BY <1>1, <1>2, <1>3 DEF Operated, Busy, Operators
  <1>5. ASSUME NEW c \in Controllers, Operating(control[c]) PROVE Operating(control[c])'
    BY <1>5 DEF Operating
  <1>6. StopSound'
    BY <1>5 DEF StopSound, Busy, Serial, Operators
  <1> QED BY <1>4, <1>6

\* The operation of c moves on, or begins or ends.
LEMMA OperationMoves ==
    ASSUME Operated, StopSound, NEW c \in Controllers, c \in Operators(workload), NEW k,
           control' = [control EXCEPT ![c] = k],
           k # [op |-> "idle"] => /\ k \in [op : Operation, todo : Seq(ToSet(created))]
                                  /\ k.op = "cancelling" => k.todo # <<>>,
           UNCHANGED <<workload, created>>, DOMAIN executions' = Executions,
           Running' \subseteq ToSet(created),
           Serial(workload) =>
             /\ k # [op |-> "idle"] => Operating(k)'
             /\ k = [op |-> "idle"] => state' \in Rests /\ (state' = "STOPPED" => Running' = {})
    PROVE  Operated' /\ StopSound'
  <1>1. DOMAIN control' = Controllers /\ control'[c] = k
        /\ \A d \in Controllers \ {c} : control'[d] = control[d]
    BY DEF Operated
  <1>2. Operated'
    BY <1>1 DEF Operated, Busy, Operators
  <1>3. ASSUME Serial(workload) PROVE StopSound'
    <2>1. \A d \in Controllers \ {c} : ~Busy(d)'
      BY <1>1, <1>3, OneOperates DEF Busy
    <2>2. CASE k = [op |-> "idle"]
      BY <1>1, <1>3, <2>1, <2>2 DEF StopSound, Busy, Rests
    <2>3. CASE k # [op |-> "idle"]
      <3>1. Operating(k)' /\ k.op \in Operation
        BY <1>3, <2>3
      <3>2. state' # "STOPPED"
        BY <3>1 DEF Operating
      <3>3. Operating(control[c])'
        BY <1>1, <3>1 DEF Operating
      <3>4. Busy(c)'
        BY <1>1, <2>3 DEF Busy
      <3> QED BY <2>1, <3>2, <3>3, <3>4 DEF StopSound
    <2> QED BY <2>2, <2>3
  <1> QED BY <1>2, <1>3 DEF StopSound, Serial, Operators

\* An operation begins, when no other is under way.
LEMMA OperationBegins ==
    ASSUME Operated, StopSound, NEW c \in Controllers, c \in Operators(workload), ControlBegin(c),
           workload' = workload
    PROVE  Operated' /\ StopSound'
  <1>1. ~Busy(c)
    <2>1. control[c].op = "idle"
      BY DEF ControlBegin, Start, Stop, Pause, Resume, Doing
    <2> QED BY <2>1 DEF Operated, Operation
  <1>2. \A T : <<>> \in Seq(T)
    OBVIOUS
  <1>3. UNCHANGED <<executions, created>>
    BY DEF ControlBegin, Start, Stop, Pause, Resume, executionVars
  <1>4. Running' = Running /\ DOMAIN executions' = Executions /\ Running \subseteq ToSet(created)
    BY <1>3 DEF Running, Operated
  <1>5. CASE Start(c)
    <2>1. PICK k : k = [op |-> "start", todo |-> <<>>]
      OBVIOUS
    <2>2. state' = "INITIALIZING" /\ control' = [control EXCEPT ![c] = k]
      BY <1>5, <2>1 DEF Start, Goto
    <2>3. k \in [op : Operation, todo : Seq(ToSet(created))] /\ k.op = "start" /\ k # [op |-> "idle"]
      BY <1>2, <2>1 DEF Operation
    <2>4. Operating(k)'
      BY <2>2, <2>3 DEF Operating
    <2> QED BY <1>3, <1>4, <2>2, <2>3, <2>4, OperationMoves
  <1>6. CASE Stop(c)
    <2>1. PICK k : k = [op |-> "stop", todo |-> WithStatus("RUNNING")]
      OBVIOUS
    <2>2. state' = "STOPPING" /\ control' = [control EXCEPT ![c] = k]
      BY <1>6, <2>1 DEF Stop, Goto
    <2>3. /\ WithStatus("RUNNING") \in Seq(ToSet(created))
          /\ ToSet(WithStatus("RUNNING")) = {e \in ToSet(created) : executions[e] = "RUNNING"}
      BY FoundRecords DEF Operated
    <2>4. k \in [op : Operation, todo : Seq(ToSet(created))] /\ k.op = "stop" /\ k # [op |-> "idle"]
          /\ k.todo = WithStatus("RUNNING")
      BY <2>1, <2>3 DEF Operation
    <2>5. Running \subseteq ToSet(k.todo)
      BY <1>4, <2>3, <2>4 DEF Running
    <2>6. Operating(k)'
      BY <1>4, <2>2, <2>4, <2>5 DEF Operating
    <2> QED BY <1>3, <1>4, <2>2, <2>4, <2>6, OperationMoves
  <1>7. CASE Pause(c)
    <2>1. PICK k : k = [op |-> "pause", todo |-> <<>>]
      OBVIOUS
    <2>2. state' = "RUNNING" /\ control' = [control EXCEPT ![c] = k]
      BY <1>7, <2>1 DEF Pause, Goto
    <2>3. k \in [op : Operation, todo : Seq(ToSet(created))] /\ k.op = "pause" /\ k # [op |-> "idle"]
      BY <1>2, <2>1 DEF Operation
    <2>4. Operating(k)'
      BY <2>2, <2>3 DEF Operating
    <2> QED BY <1>3, <1>4, <2>2, <2>3, <2>4, OperationMoves
  <1>8. CASE Resume(c)
    <2>1. PICK k : k = [op |-> "resume", todo |-> <<>>]
      OBVIOUS
    <2>2. state' = "PAUSED" /\ control' = [control EXCEPT ![c] = k]
      BY <1>8, <2>1 DEF Resume, Goto
    <2>3. k \in [op : Operation, todo : Seq(ToSet(created))] /\ k.op = "resume" /\ k # [op |-> "idle"]
      BY <1>2, <2>1 DEF Operation
    <2>4. Operating(k)'
      BY <2>2, <2>3 DEF Operating
    <2> QED BY <1>3, <1>4, <2>2, <2>3, <2>4, OperationMoves
  <1> QED BY <1>5, <1>6, <1>7, <1>8 DEF ControlBegin

\* A stop has one record less ahead, which runs no more.
LEMMA StopGoesOn ==
    ASSUME Operated, StopSound, NEW c \in Controllers, StopCancel(c) \/ StopCancelled(c),
           workload' = workload
    PROVE  Operated' /\ StopSound'
  <1> DEFINE todo == control[c].todo
             e == Head(todo)
  <1>1. control[c].op \in {"stop", "cancelling"}
    BY DEF StopCancel, StopCancelled, Doing
  <1>2. Busy(c)
    BY <1>1 DEF Busy
  <1>3. c \in Operators(workload) /\ control[c] \in [op : Operation, todo : Seq(ToSet(created))]
    BY <1>2 DEF Operated
  <1>4. Serial(workload) => Operating(control[c])
    BY <1>2 DEF StopSound
  <1>5. created' = created /\ state' = state
    BY DEF StopCancel, StopCancelled, executionVars
  <1>6. CASE StopCancel(c)
    <2>1. /\ todo # <<>> /\ control[c].op = "stop"
          /\ \/ /\ executions' = [executions EXCEPT ![e] = "CANCELLED"]
                /\ \E op \in {"failing", "cancelling"} : Goto(c, op, todo)
             \/ Goto(c, "cancelling", todo) /\ executions' = executions /\ ~Cancellable(e)
      BY <1>6 DEF StopCancel, Doing
    <2>2. PICK k : /\ \E op \in {"failing", "cancelling"} : k = [op |-> op, todo |-> todo]
                    /\ control' = [control EXCEPT ![c] = k]
      BY <2>1 DEF Goto
    <2>3. /\ k \in [op : Operation, todo : Seq(ToSet(created))] /\ k # [op |-> "idle"]
          /\ k.op \in {"failing", "cancelling"} /\ k.todo = todo
      BY <1>3, <2>2 DEF Operation
    <2>4. /\ DOMAIN executions' = Executions /\ Running' \subseteq Running \ {e}
      BY <2>1 DEF Running, Operated, Cancellable
    <2>5. ToSet(todo) \subseteq {e} \cup ToSet(Tail(todo))
      BY <1>3, <2>1, HeadTailSet
    <2>6. ASSUME Serial(workload) PROVE Operating(k)'
      <3>1. state = "STOPPING" /\ Running \subseteq ToSet(todo)
        BY <1>4, <2>1, <2>6 DEF Operating
      <3>2. Running' \subseteq ToSet(Tail(k.todo)) /\ k.todo # <<>>
        BY <2>1, <2>3, <2>4, <2>5, <3>1
      <3> QED BY <1>5, <2>3, <3>1, <3>2 DEF Operating
    <2>7. Running' \subseteq ToSet(created)
      BY <2>4 DEF Operated
    <2>8. k.todo # <<>>
      BY <2>1, <2>3
    <2> HIDE DEF todo, e
    <2> QED BY <1>3, <1>5, <2>8, <2>2, <2>3, <2>4, <2>6, <2>7, OperationMoves
  <1>7. CASE StopCancelled(c)
    <2>1. /\ control[c].op = "cancelling" /\ executions' = executions
          /\ Goto(c, "stop", Tail(todo))
      BY <1>7 DEF StopCancelled, Doing, executionVars
    <2>2. PICK k : k = [op |-> "stop", todo |-> Tail(todo)] /\ control' = [control EXCEPT ![c] = k]
      BY <2>1 DEF Goto
    <2>3. Running' = Running /\ DOMAIN executions' = Executions /\ Running \subseteq ToSet(created)
      BY <2>1 DEF Running, Operated
    <2>4. ASSUME Serial(workload) PROVE Operating(k)'
      <3>1. state = "STOPPING" /\ Running \subseteq ToSet(Tail(todo))
        BY <1>4, <2>1, <2>4 DEF Operating
      <3>2. k.op = "stop" /\ k.todo = Tail(todo)
        BY <2>2
      <3> QED BY <1>5, <2>3, <3>1, <3>2 DEF Operating
    <2>5. todo # <<>>
      BY <1>2, <2>1 DEF Operated
    <2>6. k # [op |-> "idle"] /\ k \in [op : Operation, todo : Seq(ToSet(created))] /\ k.op = "stop"
      BY <1>3, <2>2, <2>5 DEF Operation
    <2> QED BY <1>3, <1>5, <2>2, <2>3, <2>4, <2>6, OperationMoves
  <1> QED BY <1>6, <1>7

\* A start or a stop ends, or its last step is reached.
LEMMA StartStopEnds ==
    ASSUME Operated, StopSound, NEW c \in Controllers,
           StartEnd(c) \/ StopFails(c) \/ StopPauseScheduler(c) \/ StopEnd(c),
           workload' = workload
    PROVE  Operated' /\ StopSound'
  <1>1. control[c].op \in {"start", "failing", "stop", "stopping"}
    BY DEF StartEnd, StopFails, StopPauseScheduler, StopEnd, Doing
  <1>2. Busy(c)
    BY <1>1 DEF Busy
  <1>3. c \in Operators(workload)
    BY <1>2 DEF Operated
  <1>4. Serial(workload) => Operating(control[c])
    BY <1>2 DEF StopSound
  <1>5. UNCHANGED <<executions, created>>
    BY DEF StartEnd, StopFails, StopPauseScheduler, StopEnd, executionVars
  <1>6. Running' = Running /\ DOMAIN executions' = Executions /\ Running \subseteq ToSet(created)
    BY <1>5 DEF Running, Operated
  <1>7. CASE StartEnd(c) \/ StopFails(c) \/ StopEnd(c)
    <2>1. PICK k : k = [op |-> "idle"]
      OBVIOUS
    <2>2. control' = [control EXCEPT ![c] = k]
      BY <1>7, <2>1 DEF StartEnd, StopFails, StopEnd, Return, Idle
    <2>3. \/ state' \in {"RUNNING", "ERROR"}
          \/ state' = "STOPPED" /\ control[c].op = "stopping"
      BY <1>7 DEF StartEnd, StopFails, StopEnd, Doing
    <2>4. Serial(workload) => state' \in Rests /\ (state' = "STOPPED" => Running' = {})
      BY <1>4, <1>6, <2>3 DEF Operating, Rests
    <2> QED BY <1>3, <1>5, <1>6, <2>1, <2>2, <2>4, OperationMoves
  <1>8. CASE StopPauseScheduler(c)
    <2>1. PICK k : k = [op |-> "stopping", todo |-> <<>>]
      OBVIOUS
    <2>2. /\ control' = [control EXCEPT ![c] = k] /\ state' = state
          /\ control[c].op = "stop" /\ control[c].todo = <<>>
      BY <1>8, <2>1 DEF StopPauseScheduler, Goto, Doing
    <2>3. k \in [op : Operation, todo : Seq(ToSet(created))] /\ k.op = "stopping" /\ k # [op |-> "idle"]
      BY <2>1 DEF Operation
    <2>4. ToSet(<<>>) = {}
      BY DEF ToSet
    <2>5. ASSUME Serial(workload) PROVE Operating(k)'
      <3>1. state = "STOPPING" /\ Running = {}
        BY <1>4, <2>2, <2>4, <2>5 DEF Operating
      <3> QED BY <1>6, <2>2, <2>3, <3>1 DEF Operating
    <2> QED BY <1>3, <1>5, <1>6, <2>2, <2>3, <2>5, OperationMoves
  <1> QED BY <1>7, <1>8

\* The records up to a loop's next await, and those behind it.
LEMMA Segments ==
    ASSUME NEW S, NEW todo \in Seq(S)
    PROVE  /\ ToSet(SubSeq(todo, 1, Segment(todo))) \subseteq ToSet(todo)
           /\ SubSeq(todo, Segment(todo) + 1, Len(todo)) \in Seq(S)
  <1>1. Len(todo) \in Nat /\ DOMAIN todo = 1..Len(todo)
    OBVIOUS
  <1>2. Segment(todo) \in 0..Len(todo)
    <2>1. CASE Awaits(todo) = {}
      BY <1>1, <2>1 DEF Segment
    <2>2. CASE Awaits(todo) # {}
      <3>1. Awaits(todo) \in SUBSET Nat /\ Awaits(todo) \subseteq 1..Len(todo)
        BY <1>1 DEF Awaits
      <3>2. \E i \in Awaits(todo) : \A j \in Awaits(todo) : i <= j
        BY <2>2, <3>1, MinIn
      <3>3. Segment(todo) \in Awaits(todo)
        BY <2>2, <3>2 DEF Segment
      <3> QED BY <3>1, <3>3
    <2> QED BY <2>1, <2>2
  <1>3. PICK n \in 0..Len(todo) : n = Segment(todo)
    BY <1>2
  <1>4. SubSeq(todo, n + 1, Len(todo)) \in Seq(S)
    BY <1>1
  <1>5. ToSet(SubSeq(todo, 1, n)) \subseteq ToSet(todo)
    BY <1>1 DEF ToSet
  <1> QED BY <1>3, <1>4, <1>5

\* The loops of pause and resume touch records the map holds, and no stop.
LEMMA LoopGoesOn ==
    ASSUME Operated, StopSound, NEW c \in Controllers, workload' = workload, created' = created,
           NEW op, NEW todo, NEW status, NEW final,
           \/ op = "pausing" /\ status = "PAUSED" /\ final = "PAUSED"
           \/ op = "resuming" /\ status = "RUNNING" /\ final = "RUNNING",
           op = "pausing" => control[c].op \in {"pause", "pausing"},
           op = "resuming" => control[c].op \in {"resume", "resuming"},
           todo \in Seq(ToSet(created)), SetStatuses(c, op, todo, status, final)
    PROVE  Operated' /\ StopSound'
  <1>1. Busy(c)
    BY DEF Busy
  <1>2. c \in Operators(workload) /\ (Serial(workload) => Operating(control[c]))
    BY <1>1 DEF Operated, StopSound
  <1>3. ToSet(SubSeq(todo, 1, Segment(todo))) \subseteq ToSet(todo)
        /\ SubSeq(todo, Segment(todo) + 1, Len(todo)) \in Seq(ToSet(created))
    BY Segments
  <1>4. ToSet(todo) \subseteq ToSet(created)
    <2>1. \A i \in DOMAIN todo : todo[i] \in ToSet(created)
      OBVIOUS
    <2> QED BY <2>1 DEF ToSet
  <1>5. DOMAIN executions' = Executions /\ Running' \subseteq ToSet(created)
    <2>1. executions' = [e \in Executions |->
             IF e \in ToSet(SubSeq(todo, 1, Segment(todo))) THEN status ELSE executions[e]]
      BY DEF SetStatuses
    <2>2. Running \subseteq ToSet(created)
      BY DEF Operated
    <2> QED BY <1>3, <1>4, <2>1, <2>2 DEF Running
  <1>6. Serial(workload) => state = (IF op = "pausing" THEN "RUNNING" ELSE "PAUSED")
    BY <1>2 DEF Operating
  <1>7. CASE state' = final /\ Return(c)
    <2>1. PICK k : k = [op |-> "idle"]
      OBVIOUS
    <2>2. control' = [control EXCEPT ![c] = k] /\ state' \in Rests /\ state' # "STOPPED"
      BY <1>7, <2>1 DEF Return, Idle, Rests
    <2> QED BY <1>2, <1>5, <2>1, <2>2, OperationMoves
  <1>8. CASE Goto(c, op, SubSeq(todo, Segment(todo) + 1, Len(todo))) /\ state' = state
    <2>1. PICK k : k = [op |-> op, todo |-> SubSeq(todo, Segment(todo) + 1, Len(todo))]
      OBVIOUS
    <2>2. control' = [control EXCEPT ![c] = k]
      BY <1>8, <2>1 DEF Goto
    <2>3. /\ k \in [op : Operation, todo : Seq(ToSet(created))]
          /\ k.op = op /\ k # [op |-> "idle"] /\ k.op # "cancelling"
      BY <1>3, <2>1 DEF Operation
    <2>4. Serial(workload) => Operating(k)'
      BY <1>6, <1>8, <2>3 DEF Operating
    <2> QED BY <1>2, <1>5, <2>2, <2>3, <2>4, OperationMoves
  <1> QED BY <1>7, <1>8 DEF SetStatuses

LEMMA OperationSteps ==
    ASSUME Operated, StopSound, NEW c \in Controllers, ControlStep(c), workload' = workload
    PROVE  Operated' /\ StopSound'
  <1>1. created \in Seq(workload.executions)
    BY DEF Operated
  <1>2. CASE PauseExecutions(c)
    <2>1. created' = created
      BY <1>2 DEF PauseExecutions
    <2>2. CASE Doing(c, "pause") /\ SetStatuses(c, "pausing", WithStatus("RUNNING"), "PAUSED", "PAUSED")
      BY <1>1, <2>1, <2>2, FoundRecords, LoopGoesOn DEF Doing
    <2>3. CASE Doing(c, "pausing") /\ SetStatuses(c, "pausing", control[c].todo, "PAUSED", "PAUSED")
      <3>1. control[c].op = "pausing" /\ control[c].todo \in Seq(ToSet(created))
        BY <2>3 DEF Doing, Operated, Busy
      <3> QED BY <2>1, <2>3, <3>1, LoopGoesOn
    <2> QED BY <1>2, <2>2, <2>3 DEF PauseExecutions
  <1>3. CASE ResumeExecutions(c)
    <2>1. created' = created
      BY <1>3 DEF ResumeExecutions
    <2>2. CASE Doing(c, "resume") /\ SetStatuses(c, "resuming", WithStatus("PAUSED"), "RUNNING", "RUNNING")
      BY <1>1, <2>1, <2>2, FoundRecords, LoopGoesOn DEF Doing
    <2>3. CASE Doing(c, "resuming") /\ SetStatuses(c, "resuming", control[c].todo, "RUNNING", "RUNNING")
      <3>1. control[c].op = "resuming" /\ control[c].todo \in Seq(ToSet(created))
        BY <2>3 DEF Doing, Operated, Busy
      <3> QED BY <2>1, <2>3, <3>1, LoopGoesOn
    <2> QED BY <1>3, <2>2, <2>3 DEF ResumeExecutions
  <1> QED BY <1>2, <1>3, StopGoesOn, StartStopEnds DEF ControlStep, StartStopStep

\* Nothing of the orchestrator's records and operations changes.
LEMMA OperationsRest ==
    ASSUME Operated, StopSound, UNCHANGED <<workload, control, state, executions, created>>
    PROVE  Operated' /\ StopSound'
  <1>1. DOMAIN executions' = Executions /\ Running' \subseteq Running
    BY DEF Operated, Running
  <1> QED BY <1>1, RecordsChange

LEMMA RecordsBegin ==
    ASSUME Operated, StopSound, NEW e \in workload.executions, ExecutionBegin(e) \/ Cancel(e),
           workload' = workload
    PROVE  Operated' /\ StopSound'
  <1>1. UNCHANGED <<state, control>>
    BY DEF ExecutionBegin, Execute, ExecuteWorkflow, ExecutePlan, Cancel
  <1>2. CASE Cancel(e)
    <2>1. DOMAIN executions' = Executions /\ Running' \subseteq Running /\ created' = created
      BY <1>2 DEF Cancel, Running, Operated
    <2> QED BY <1>1, <2>1, RecordsChange
  <1>3. CASE Execute(e) \/ ExecuteWorkflow(e)
    <2>1. /\ state = "RUNNING" /\ created' = Append(created, e)
          /\ executions' = [executions EXCEPT ![e] = "RUNNING"]
      BY <1>3 DEF Execute, ExecuteWorkflow, CreateExecution
    <2>2. DOMAIN executions' = Executions /\ Running' \subseteq Running \cup {e}
      BY <2>1 DEF Running, Operated
    <2> QED BY <1>1, <2>1, <2>2, RecordsChange
  <1>4. ASSUME NEW passed \in BOOLEAN, ExecutePlan(e, passed) PROVE Operated' /\ StopSound'
    <2>1. /\ state = "RUNNING" /\ created' = Append(created, e)
          /\ \/ executions' = [executions EXCEPT ![e] = "RUNNING"]
             \/ executions' = [executions EXCEPT ![e] = "FAILED"]
      BY <1>4 DEF ExecutePlan, CreateExecution, Fail
    <2>2. DOMAIN executions' = Executions /\ Running' \subseteq Running \cup {e}
      BY <2>1 DEF Running, Operated
    <2> QED BY <1>1, <2>1, <2>2, RecordsChange
  <1> QED BY <1>2, <1>3, <1>4 DEF ExecutionBegin

LEMMA RecordsEnd ==
    ASSUME Operated, StopSound, NEW e \in Executions, ExecutionStep(e), workload' = workload
    PROVE  Operated' /\ StopSound'
  <1>1. UNCHANGED <<state, control, created>>
    BY DEF ExecutionStep, FindAgent, CheckHealth, InitializeAgent, LoadMemoryContext,
           SchedulePlanTask, PollPlan, RunReturns, RunThrows, Complete
  <1>2. \/ executions' = executions
        \/ executions' = [executions EXCEPT ![e] = "FAILED"]
        \/ executions' = [executions EXCEPT ![e] = "COMPLETED"]
    BY DEF ExecutionStep, FindAgent, CheckHealth, InitializeAgent, LoadMemoryContext,
           SchedulePlanTask, PollPlan, RunReturns, RunThrows, Complete, Fail
  <1>3. DOMAIN executions' = Executions /\ Running' \subseteq Running
    BY <1>2 DEF Running, Operated
  <1> QED BY <1>1, <1>3, RecordsChange

\* A call of bootstrap, start or shutdown moves on.
LEMMA BootMoves ==
    ASSUME Booted, workload' = workload, NEW b \in Bootstraps, b \in workload.boot,
           NEW op, NEW todo, Do(b, op, todo),
           op \in {"unregister", "removing"} => "shutdown" \in workload.calls
    PROVE  Booted'
  BY DEF Booted, Do

LEMMA BootEnds ==
    ASSUME Booted, workload' = workload, NEW b \in Bootstraps, Done(b)
    PROVE  Booted'
  BY DEF Booted, Done, Ready

LEMMA BootRests ==
    ASSUME Booted, UNCHANGED <<workload, boots>>
    PROVE  Booted'
  BY DEF Booted

\* The steps of bootstrap and start ...
LEMMA BootUp ==
    ASSUME Booted, Operated, StopSound, NEW b \in Bootstraps,
           \/ Bootstrap(b) \/ StartRuntime(b)
           \/ RegisterBuiltin(b) \/ \E ok \in BOOLEAN : BuiltinInitialized(b, ok)
           \/ BootstrapEnd(b) \/ StartAgents(b) \/ StartAgent(b) \/ StartAgentStep(b) \/ StartEnds(b)
    PROVE  Booted' /\ Operated' /\ StopSound'
  <1>0. b \in Controllers
    BY BootstrapAssumption
  <1>w. workload' = workload
    BY DEF Bootstrap, StartRuntime, RegisterBuiltin, BuiltinInitialized, BootstrapEnd, StartAgents,
           StartAgent, StartAgentStep, StartEnds
  <1>b. b \in workload.boot
    BY DEF Bootstrap, StartRuntime, RegisterBuiltin, BuiltinInitialized, BootstrapEnd, StartAgents,
           StartAgent, StartAgentStep, StartEnds, Calls, At, Booted
  <1>1. Booted'
    <2>1. \/ boots' = boots \/ Done(b)
          \/ \E op \in {"register", "initializing", "starting", "agents", "startingAgent"} : \E todo :
                Do(b, op, todo)
      <3>1. CASE Bootstrap(b) \/ StartRuntime(b) \/ RegisterBuiltin(b)
                 \/ \E ok \in BOOLEAN : BuiltinInitialized(b, ok)
        BY <3>1, Zenon DEF Bootstrap, StartRuntime, RegisterBuiltin, BuiltinInitialized, NextBuiltin
      <3>2. CASE BootstrapEnd(b) \/ StartAgents(b) \/ StartAgent(b)
        BY <3>2, Zenon DEF BootstrapEnd, StartAgents, StartAgent
      <3>3. CASE StartAgentStep(b) \/ StartEnds(b)
        BY <3>3, Zenon DEF StartAgentStep, StartEnds
      <3> QED BY <3>1, <3>2, <3>3
    <2> QED BY <1>w, <1>b, <2>1, BootMoves, BootEnds, BootRests
  <1>2. ASSUME CallOrchestratorStart(b), b \in Operators(workload) PROVE Operated' /\ StopSound'
    <2>1. CASE Start(b)
      BY <1>0, <1>w, <1>2, <2>1, OperationBegins DEF ControlBegin
    <2>2. CASE UNCHANGED <<lifecycleVars, orchestratorVars>>
      BY <1>w, <2>2, OperationsRest DEF orchestratorVars, executionVars
    <2> QED BY <1>2, <2>1, <2>2 DEF CallOrchestratorStart
  <1>3. CASE StartRuntime(b)
    <2>1. "start" \in workload.calls
      BY <1>3 DEF StartRuntime, Calls
    <2>2. b \in Operators(workload)
      BY <1>b, <2>1 DEF Operators
    <2> QED BY <1>1, <1>2, <1>3, <2>2 DEF StartRuntime
  <1>4. CASE BootstrapEnd(b)
    <2>1. CASE workload.autoStart
      <3>1. b \in Operators(workload)
        BY <1>b, <2>1 DEF Operators
      <3> QED BY <1>1, <1>2, <1>4, <2>1, <3>1 DEF BootstrapEnd
    <2>2. CASE ~workload.autoStart
      BY <1>1, <1>w, <1>4, <2>2, OperationsRest DEF BootstrapEnd, orchestratorVars, executionVars
    <2> QED BY <2>1, <2>2
  <1>5. CASE Bootstrap(b) \/ RegisterBuiltin(b) \/ (\E ok \in BOOLEAN : BuiltinInitialized(b, ok))
             \/ StartAgents(b) \/ StartAgent(b) \/ StartAgentStep(b) \/ StartEnds(b)
    BY <1>1, <1>w, <1>5, OperationsRest
       DEF Bootstrap, RegisterBuiltin, BuiltinInitialized, StartAgents, StartAgent, StartAgentStep,
           StartEnds, orchestratorVars, executionVars
  <1> QED BY <1>3, <1>4, <1>5

\* ... and of shutdown.
LEMMA BootDown ==
    ASSUME Booted, Operated, StopSound, NEW b \in Bootstraps,
           \/ Shutdown(b) \/ UnregisterBuiltin(b) \/ RemoveBuiltin(b) \/ StopOrchestrator(b)
           \/ PauseScheduler(b) \/ ShutdownAgent(b) \/ ShutdownAgentStep(b)
           \/ ClearRegistry(b) \/ RemoveAgent(b) \/ AgentRemoved(b) \/ ShutdownEnd(b)
    PROVE  Booted' /\ Operated' /\ StopSound'
  <1>0. b \in Controllers
    BY BootstrapAssumption
  <1>w. workload' = workload
    BY DEF Shutdown, UnregisterBuiltin, RemoveBuiltin, StopOrchestrator, PauseScheduler,
           ShutdownAgent, ShutdownAgentStep, ClearRegistry, RemoveAgent, AgentRemoved, ShutdownEnd
  <1>b. b \in workload.boot
    BY DEF Shutdown, UnregisterBuiltin, RemoveBuiltin, StopOrchestrator, PauseScheduler,
           ShutdownAgent, ShutdownAgentStep, ClearRegistry, RemoveAgent, AgentRemoved, ShutdownEnd,
           Calls, At, Booted
  <1>1. CASE Shutdown(b) \/ UnregisterBuiltin(b) \/ RemoveBuiltin(b) \/ StopOrchestrator(b)
    <2>1. "shutdown" \in workload.calls
      BY <1>1 DEF Shutdown, UnregisterBuiltin, RemoveBuiltin, StopOrchestrator, Calls, At, Booted
    <2>2. \E op, todo : Do(b, op, todo)
      BY <1>1, Zenon DEF Shutdown, UnregisterBuiltin, RemoveBuiltin, StopOrchestrator
    <2>3. Booted'
      BY <1>w, <1>b, <2>1, <2>2, BootMoves
    <2>4. CASE UNCHANGED orchestratorVars
      BY <1>w, <2>3, <2>4, OperationsRest DEF orchestratorVars, executionVars
    <2>5. CASE Stop(b)
      <3>1. b \in Operators(workload)
        BY <1>b, <2>1 DEF Operators
      <3> QED BY <1>0, <1>w, <2>3, <2>5, <3>1, OperationBegins DEF ControlBegin
    <2>6. Stop(b) \/ UNCHANGED orchestratorVars
      BY <1>1 DEF Shutdown, UnregisterBuiltin, RemoveBuiltin, StopOrchestrator
    <2> QED BY <2>4, <2>5, <2>6
  <1>2. CASE PauseScheduler(b) \/ ShutdownAgent(b) \/ ShutdownAgentStep(b) \/ ClearRegistry(b)
             \/ RemoveAgent(b) \/ AgentRemoved(b) \/ ShutdownEnd(b)
    <2>1. \/ boots' = boots \/ Done(b)
          \/ \E op \in {"lifecycle", "shuttingAgent", "clear", "clearing"} : \E todo : Do(b, op, todo)
      <3>1. CASE PauseScheduler(b) \/ ShutdownAgent(b) \/ ShutdownAgentStep(b)
        BY <3>1, Zenon DEF PauseScheduler, ShutdownAgent, ShutdownAgentStep
      <3>2. CASE ClearRegistry(b) \/ RemoveAgent(b) \/ AgentRemoved(b) \/ ShutdownEnd(b)
        BY <3>2, Zenon DEF ClearRegistry, RemoveAgent, AgentRemoved, ShutdownEnd
      <3> QED BY <1>2, <3>1, <3>2
    <2>2. Booted'
      BY <1>w, <1>b, <2>1, BootMoves, BootEnds, BootRests
    <2>3. UNCHANGED <<control, state, executions, created>>
      BY <1>2 DEF PauseScheduler, ShutdownAgent, ShutdownAgentStep, ClearRegistry, RemoveAgent,
                  AgentRemoved, ShutdownEnd, orchestratorVars, executionVars
    <2> QED BY <1>w, <2>2, <2>3, OperationsRest
  <1> QED BY <1>1, <1>2

LEMMA QuietInit == ASSUME Init PROVE Booted /\ Operated /\ StopSound
  <1>1. /\ workload \in Workloads /\ boots = [b \in Bootstraps |-> Ready]
        /\ state = "STOPPED" /\ executions = [e \in Executions |-> "none"] /\ created = <<>>
        /\ control = [c \in Controllers |-> [op |-> "idle"]]
    BY DEF Init, OrchestratorInit, Idle
  <1>2. Running = {} /\ \A c \in Controllers : ~Busy(c)
    BY <1>1 DEF Running, Busy
  <1> QED BY <1>1, <1>2 DEF Booted, Operated, StopSound, Ready

LEMMA QuietStep ==
    ASSUME Booted, Operated, StopSound, [Next]_vars
    PROVE  Booted' /\ Operated' /\ StopSound'
  <1>1. ASSUME NEW b \in Bootstraps, Bootstrap(b) \/ StartRuntime(b) \/ Shutdown(b) \/ BootStep(b)
        PROVE  Booted' /\ Operated' /\ StopSound'
    <2>1. CASE OrchestratorStep(b)
      <3>1. b \in Controllers /\ UNCHANGED <<workload, boots>> /\ ControlStep(b)
        BY <2>1, BootstrapAssumption DEF OrchestratorStep, ControlStep
      <3> QED BY <3>1, BootRests, OperationSteps
    <2> QED BY <1>1, <2>1, BootUp, BootDown, Zenon DEF BootStep
  <1>2. ASSUME NEW a \in Agents, RegisterAgent(a) \/ AgentErrs(a)
        PROVE  Booted' /\ Operated' /\ StopSound'
    BY <1>2, BootRests, OperationsRest
       DEF RegisterAgent, AgentErrs, orchestratorVars, executionVars, bootVars
  <1>3. CASE UseOrchestrator
    <2>1. UNCHANGED <<workload, boots>>
      BY <1>3 DEF UseOrchestrator, bootVars
    <2>2. workload.control \subseteq Controllers /\ workload.control \subseteq Operators(workload)
      BY BootstrapAssumption DEF Booted, Operators
    <2> QED BY <1>3, <2>1, <2>2, BootRests, RecordsBegin, OperationBegins DEF UseOrchestrator
  <1>4. ASSUME NEW e \in Executions, StepExecution(e) PROVE Booted' /\ Operated' /\ StopSound'
    BY <1>4, BootRests, RecordsEnd DEF StepExecution, bootVars
  <1>5. ASSUME NEW c \in Controllers, StepControl(c) PROVE Booted' /\ Operated' /\ StopSound'
    BY <1>5, BootRests, OperationSteps DEF StepControl, bootVars
  <1>6. CASE UNCHANGED vars
    BY <1>6, BootRests, OperationsRest DEF vars, orchestratorVars, executionVars, bootVars
  <1> QED BY <1>1, <1>2, <1>3, <1>4, <1>5, <1>6 DEF Next

\* In a workload whose operations of the orchestrator are one caller's, one after the other,
\* no record is left RUNNING once stop() has ended, however many executions come, complete,
\* fail and are cancelled while it cancels them one by one.
THEOREM StopLeavesNoneRunning ==
    ASSUME \A w \in Workloads : w.executions # {} => Serial(w)
    PROVE  PlatformSpec => []StoppedIsQuiet
  <1>1. PlatformInit => Booted /\ Operated /\ StopSound
    BY QuietInit DEF PlatformInit
  <1>2. Booted /\ Operated /\ StopSound /\ [PlatformNext]_platformVars
          => (Booted /\ Operated /\ StopSound)'
    <2>1. [PlatformNext]_platformVars => [Next]_vars
      BY DEF PlatformNext, platformVars, HealthAsked, HealthStep, Trouble, Usage
    <2> QED BY <2>1, QuietStep
  <1>3. Booted /\ Operated /\ StopSound => StoppedIsQuiet
    <2>1. CASE Serial(workload)
      BY <2>1 DEF StopSound, Running, StoppedIsQuiet
    <2>2. CASE workload.executions = {}
      <3>1. Operated => Running = {}
        <4>1. \A s \in Seq({}) : ToSet(s) = {}
          BY DEF ToSet
        <4> QED BY <2>2, <4>1 DEF Operated
      <3> QED BY <3>1 DEF Running, StoppedIsQuiet
    <2> QED BY <2>1, <2>2 DEF Booted
  <1> QED BY <1>1, <1>2, <1>3, PTL DEF PlatformSpec

-----------------------------------------------------------------------------
(* The shutdown and the registry.                                          *)

Registering(b) == boots[b].op \in {"register", "initializing"}
Closing(b) ==
    boots[b].op \in {"unregister", "removing", "stopping", "lifecycle", "shuttingAgent", "clear",
                    "clearing"}

\* The shutdown of b has yet to remove every agent that is there, but for those that came
\* after it had begun.
Clearing(b) ==
    /\ agents \subseteq late \cup ToSet(boots[b].todo)
    /\ \E S : boots[b].todo \in Seq(S)

\* A bootstrap that registers agents is alone, and over for good before the first shutdown;
\* one shutdown is under way at a time.
CallsApart ==
    /\ DOMAIN boots = Bootstraps
    /\ DOMAIN bootState = {"initialized", "started", "shutdownInProgress"}
    /\ bootState.initialized => initializerDone
    /\ \A b \in Bootstraps : Registering(b) =>
         ~initializerDone /\ \A c \in Bootstraps \ {b} : boots[c].op = "idle"
    /\ \A b \in Bootstraps : Closing(b) =>
         /\ initializerDone /\ bootState.shutdownInProgress
         /\ \A c \in Bootstraps : Closing(c) => c = b

ClearSound ==
    /\ IsFiniteSet(agents) /\ DOMAIN removal = Removers
    /\ \A b \in Bootstraps :
         /\ boots[b].op = "clear" => Clearing(b)
         /\ boots[b].op = "clearing" =>
              Clearing(b) /\ boots[b].todo # <<>> /\ removal[b] = Head(boots[b].todo)

\* What a shutdown that ends has done.
Emptied == bootState.shutdownInProgress /\ ~bootState'.shutdownInProgress => agents' \subseteq late'

\* A finite set in some order has its elements.
LEMMA InSomeOrder ==
    ASSUME NEW S, IsFiniteSet(S)
    PROVE  SetToSeq(S) \in Seq(S) /\ ToSet(SetToSeq(S)) = S
  <1> DEFINE n == Cardinality(S)
             f == SetToSeq(S)
  <1>1. n \in Nat /\ ExistsBijection(1..n, S)
    BY FS_CardinalityType
  <1>2. \E g \in [1..n -> S] : IsInjective(g)
    BY <1>1 DEF ExistsBijection, Bijection, Injection, IsInjective
  <1>3. f \in [1..n -> S] /\ IsInjective(f)
    BY <1>2 DEF SetToSeq
  <1>4. f \in Injection(1..n, S) /\ IsFiniteSet(1..n) /\ Cardinality(1..n) = n
    BY <1>1, <1>3, FS_Interval DEF Injection
  <1> HIDE DEF f
  <1>5. f \in Surjection(1..n, S)
    BY <1>4, FS_Injection
  <1>6. f \in Seq(S) /\ DOMAIN f = 1..n
    BY <1>1, <1>3
  <1>7. ToSet(f) = S
    BY <1>5, <1>6 DEF ToSet, Surjection
  <1> QED BY <1>6, <1>7 DEF f

\* Nothing of this changes.
LEMMA ClearRests ==
    ASSUME CallsApart, ClearSound,
           UNCHANGED <<boots, bootState, initializerDone, late, agents, removal>>
    PROVE  CallsApart' /\ ClearSound' /\ Emptied
  BY DEF CallsApart, ClearSound, Registering, Closing, Clearing, Emptied

\* A call of bootstrap, start or shutdown moves on within what it is doing, or begins once the
\* components are made.
LEMMA ApartMoves ==
    ASSUME CallsApart, NEW b \in Bootstraps, NEW op, NEW todo, Do(b, op, todo),
           UNCHANGED <<bootState, initializerDone>>,
           boots[b].op # "idle" \/ initializerDone,
           op \in {"register", "initializing"} => Registering(b),
           op \in {"unregister", "removing", "stopping", "lifecycle", "shuttingAgent", "clear",
                  "clearing"} => Closing(b)
    PROVE  CallsApart'
  <1>1. /\ DOMAIN boots' = Bootstraps /\ boots'[b].op = op
        /\ \A c \in Bootstraps \ {b} : boots'[c] = boots[c]
    BY DEF CallsApart, Do
  <1>2. \A c \in Bootstraps : Closing(c)' => Closing(c)
    BY <1>1 DEF Closing
  <1>3. \A c \in Bootstraps : Registering(c)' => Registering(c)
    BY <1>1 DEF Registering
  <1>4. ASSUME NEW c \in Bootstraps, Registering(c)'
        PROVE  \A d \in Bootstraps \ {c} : boots'[d].op = "idle"
    <2>1. ~initializerDone /\ \A d \in Bootstraps \ {c} : boots[d].op = "idle"
      BY <1>3, <1>4 DEF CallsApart
    <2>2. c = b
      BY <2>1
    <2> QED BY <1>1, <2>1, <2>2
  <1> QED BY <1>1, <1>2, <1>3, <1>4 DEF CallsApart

LEMMA ApartEnds ==
    ASSUME CallsApart, NEW b \in Bootstraps, Done(b), UNCHANGED <<bootState, initializerDone>>,
           boots[b].op # "idle" \/ initializerDone
    PROVE  CallsApart'
  <1>1. Do(b, "idle", <<>>)
    BY DEF Done, Do, Ready
  <1> QED BY <1>1, ApartMoves

\* The agents become fewer, or those that come are late, and b is all that moves.
LEMMA ClearMoves ==
    ASSUME CallsApart, ClearSound, NEW b \in Bootstraps,
           \A c \in Bootstraps \ {b} : boots'[c] = boots[c] /\ removal'[c] = removal[c],
           agents' \subseteq agents, late' = late, DOMAIN removal' = Removers,
           boots'[b].op = "clear" => Clearing(b)',
           boots'[b].op = "clearing" =>
              Clearing(b)' /\ boots'[b].todo # <<>> /\ removal'[b] = Head(boots'[b].todo)
    PROVE  ClearSound'
  <1>1. IsFiniteSet(agents')
    BY FS_Subset DEF ClearSound
  <1>2. \A c \in Bootstraps \ {b} : boots[c].op \in {"clear", "clearing"} =>
            Clearing(c)' /\ boots'[c] = boots[c] /\ removal'[c] = removal[c]
    BY DEF ClearSound, Clearing
  <1> QED BY <1>1, <1>2 DEF ClearSound

\* b does something that is not the clearing of the registry.
LEMMA ClearElsewhere ==
    ASSUME CallsApart, ClearSound, NEW b \in Bootstraps,
           \/ UNCHANGED <<boots, removal>>
           \/ \E op, todo : op \notin {"clear", "clearing"} /\ Do(b, op, todo)
           \/ Done(b),
           agents' \subseteq agents, late' = late,
           UNCHANGED removal \/ \E a : removal' = [removal EXCEPT ![b] = a]
    PROVE  ClearSound'
  <1>1. \A c \in Bootstraps \ {b} : boots'[c] = boots[c] /\ removal'[c] = removal[c]
    BY BootstrapAssumption DEF CallsApart, ClearSound, Do, Done
  <1>2. DOMAIN removal' = Removers
    BY DEF ClearSound
  <1>3. CASE UNCHANGED <<boots, removal>>
    BY <1>1, <1>2, <1>3, ClearMoves DEF ClearSound, Clearing
  <1>4. CASE (\E op, todo : op \notin {"clear", "clearing"} /\ Do(b, op, todo)) \/ Done(b)
    <2>1. boots'[b].op \notin {"clear", "clearing"}
      BY <1>4 DEF CallsApart, Do, Done, Ready
    <2> QED BY <1>1, <1>2, <2>1, ClearMoves
  <1> QED BY <1>3, <1>4

\* The steps of a call while agents are registered, or started.
LEMMA RegistryUp ==
    ASSUME CallsApart, ClearSound, NEW b \in Bootstraps,
           \/ Bootstrap(b) \/ StartRuntime(b)
           \/ RegisterBuiltin(b) \/ \E ok \in BOOLEAN : BuiltinInitialized(b, ok)
           \/ BootstrapEnd(b) \/ StartAgents(b) \/ StartAgent(b) \/ StartAgentStep(b) \/ StartEnds(b)
    PROVE  CallsApart' /\ ClearSound' /\ Emptied
  <1>1. CASE Bootstrap(b)
    <2>1. /\ Do(b, "register", BuiltinAgents) /\ ~initializerDone
          /\ UNCHANGED <<bootState, initializerDone, late, agents, removal>>
          /\ \A c \in Bootstraps : boots[c].op = "idle"
      BY <1>1 DEF Bootstrap, At, lifecycleVars
    <2>2. CallsApart'
      BY <2>1 DEF CallsApart, Do, Registering, Closing
    <2> QED BY <2>1, <2>2, ClearElsewhere DEF Emptied
  <1>2. CASE \E ok \in BOOLEAN : BuiltinInitialized(b, ok)
    <2>1. /\ Registering(b) /\ Do(b, "register", Tail(boots[b].todo))
          /\ UNCHANGED <<bootState, initializerDone, late, removal>>
          /\ agents' = agents \/ \E a : agents' = agents \cup {a}
      BY <1>2 DEF BuiltinInitialized, NextBuiltin, Todo, Lifecycle!Register, At, Registering,
                  lifecycleVars
    <2>2. CallsApart'
      BY <2>1, ApartMoves DEF Registering
    <2>3. \A c \in Bootstraps : boots'[c].op \notin {"clear", "clearing"}
      BY <2>1 DEF CallsApart, Do
    <2>4. IsFiniteSet(agents')
      BY <2>1, FS_AddElement DEF ClearSound
    <2> QED BY <2>1, <2>2, <2>3, <2>4 DEF ClearSound, Emptied
  <1>3. CASE BootstrapEnd(b)
    <2>1. /\ Registering(b) /\ (Do(b, "starting", <<>>) \/ Done(b))
          /\ UNCHANGED <<late, agents, removal>> /\ initializerDone'
          /\ bootState' = [bootState EXCEPT !.initialized = TRUE]
      BY <1>3 DEF BootstrapEnd, CallOrchestratorStart, Start, At, Registering, lifecycleVars
    <2>2. CallsApart'
      BY <2>1 DEF CallsApart, Do, Done, Ready, Registering, Closing
    <2>3. Emptied
      BY <2>1 DEF CallsApart, Emptied
    <2> QED BY <2>1, <2>2, <2>3, ClearElsewhere
  <1>4. CASE StartRuntime(b)
    <2>1. /\ initializerDone /\ Do(b, "starting", <<>>)
          /\ UNCHANGED <<bootState, initializerDone, late, agents, removal>>
      BY <1>4 DEF StartRuntime, CallOrchestratorStart, Start, CallsApart, lifecycleVars
    <2>2. CallsApart'
      BY <2>1, ApartMoves
    <2> QED BY <2>1, <2>2, ClearElsewhere DEF Emptied
  <1>5. CASE RegisterBuiltin(b)
    <2>1. /\ Registering(b) /\ Do(b, "initializing", Todo(b))
          /\ UNCHANGED <<bootState, initializerDone, late, agents, removal>>
      BY <1>5 DEF RegisterBuiltin, At, Registering, lifecycleVars
    <2>2. CallsApart'
      BY <2>1, ApartMoves DEF Registering
    <2> QED BY <2>1, <2>2, ClearElsewhere DEF Emptied
  <1>6. CASE StartAgents(b) \/ StartAgent(b) \/ StartAgentStep(b)
    <2>1. /\ boots[b].op # "idle"
          /\ \/ boots' = boots \/ Done(b)
             \/ \E op \in {"agents", "startingAgent"} : \E todo : Do(b, op, todo)
      BY <1>6, Zenon DEF StartAgents, StartAgent, StartAgentStep, At
    <2>2. UNCHANGED <<bootState, initializerDone, late, agents, removal>>
      BY <1>6 DEF StartAgents, StartAgent, StartAgentStep, lifecycleVars, Lifecycle!Begin,
                  Lifecycle!Resolve, Lifecycle!Find, Lifecycle!Check, Lifecycle!Reject,
                  Lifecycle!agentRegistryVars
    <2>3. CallsApart'
      BY <2>1, <2>2, ApartMoves, ApartEnds, ClearRests
    <2> QED BY <2>1, <2>2, <2>3, ClearElsewhere DEF Emptied
  <1>7. CASE StartEnds(b)
    <2>1. /\ boots[b].op = "agents" /\ Done(b)
          /\ UNCHANGED <<initializerDone, late, agents, removal>>
          /\ bootState' = [bootState EXCEPT !.started = TRUE]
      BY <1>7 DEF StartEnds, At, lifecycleVars
    <2>2. CallsApart'
      BY <2>1 DEF CallsApart, Done, Ready, Registering, Closing
    <2>3. Emptied
      BY <2>1 DEF CallsApart, Emptied
    <2> QED BY <2>1, <2>2, <2>3, ClearElsewhere
  <1> QED BY <1>1, <1>2, <1>3, <1>4, <1>5, <1>6, <1>7

\* The steps of a shutdown.
LEMMA RegistryDown ==
    ASSUME CallsApart, ClearSound, NEW b \in Bootstraps,
           \/ Shutdown(b) \/ UnregisterBuiltin(b) \/ RemoveBuiltin(b) \/ StopOrchestrator(b)
           \/ PauseScheduler(b) \/ ShutdownAgent(b) \/ ShutdownAgentStep(b)
           \/ ClearRegistry(b) \/ RemoveAgent(b) \/ AgentRemoved(b) \/ ShutdownEnd(b)
    PROVE  CallsApart' /\ ClearSound' /\ Emptied
  <1>0. b \in Removers
    BY BootstrapAssumption
  <1>1. CASE Shutdown(b)
    <2>1. /\ boots[b].op = "idle" /\ Do(b, "unregister", builtin)
          /\ UNCHANGED <<initializerDone, agents, removal>>
          /\ bootState.initialized /\ ~bootState.shutdownInProgress
          /\ bootState' = [bootState EXCEPT !.shutdownInProgress = TRUE]
      BY <1>1 DEF Shutdown, Calls, At, lifecycleVars
    <2>2. initializerDone /\ \A c \in Bootstraps : ~Closing(c) /\ ~Registering(c)
      BY <2>1 DEF CallsApart
    <2>3. CallsApart'
      BY <2>1, <2>2 DEF CallsApart, Do, Registering, Closing
    <2>4. \A c \in Bootstraps : boots'[c].op \notin {"clear", "clearing"}
      BY <2>1, <2>2 DEF CallsApart, Do, Closing
    <2> QED BY <2>1, <2>3, <2>4 DEF ClearSound, Emptied
  <1>2. CASE UnregisterBuiltin(b) \/ RemoveBuiltin(b)
    <2>1. /\ Closing(b) /\ UNCHANGED <<bootState, initializerDone, late>>
          /\ \E op \in {"unregister", "removing"} : \E todo : Do(b, op, todo)
      BY <1>2, Zenon DEF UnregisterBuiltin, RemoveBuiltin, At, Closing
    <2>2. /\ agents' \subseteq agents
          /\ UNCHANGED removal \/ \E a : removal' = [removal EXCEPT ![b] = a]
      BY <1>2 DEF UnregisterBuiltin, RemoveBuiltin, Lifecycle!RemoveBegin, Lifecycle!RemoveEnd,
                  lifecycleVars
    <2>3. CallsApart'
      BY <2>1, ApartMoves DEF Closing
    <2> QED BY <2>1, <2>2, <2>3, ClearElsewhere DEF Emptied
  <1>3. CASE StopOrchestrator(b) \/ PauseScheduler(b) \/ ShutdownAgent(b) \/ ShutdownAgentStep(b)
    <2>1. /\ Closing(b) /\ UNCHANGED <<bootState, initializerDone, late>>
          /\ boots' = boots \/ \E op \in {"stopping", "lifecycle", "shuttingAgent"} : \E todo :
                                 Do(b, op, todo)
      BY <1>3, Zenon DEF StopOrchestrator, PauseScheduler, ShutdownAgent, ShutdownAgentStep, At,
                         Closing
    <2>2. UNCHANGED <<agents, removal>>
      BY <1>3 DEF StopOrchestrator, Stop, PauseScheduler, ShutdownAgent, ShutdownAgentStep,
                  Lifecycle!Begin, Lifecycle!Advance, Lifecycle!Find, Lifecycle!Check,
                  Lifecycle!CheckShutdown, Lifecycle!Resolve, Lifecycle!Reject,
                  Lifecycle!agentRegistryVars, lifecycleVars
    <2>3. CallsApart'
      BY <2>1, <2>2, ApartMoves, ClearRests DEF Closing
    <2> QED BY <2>1, <2>2, <2>3, ClearElsewhere DEF Emptied
  <1>4. CASE ClearRegistry(b)
    <2>1. /\ Closing(b) /\ Do(b, "clear", SetToSeq(agents))
          /\ UNCHANGED <<bootState, initializerDone, late, agents, removal>>
      BY <1>4 DEF ClearRegistry, At, Closing, lifecycleVars
    <2>2. CallsApart'
      BY <2>1, ApartMoves DEF Closing
    <2>3. boots'[b] = [op |-> "clear", todo |-> SetToSeq(agents)]
      BY <2>1 DEF Do, CallsApart
    <2>4. Clearing(b)'
      BY <2>1, <2>3, InSomeOrder DEF ClearSound, Clearing
    <2>5. ClearSound'
      BY <2>1, <2>3, <2>4, ClearMoves DEF CallsApart, Do, ClearSound
    <2> QED BY <2>1, <2>2, <2>5 DEF Emptied
  <1>5. CASE RemoveAgent(b) \/ AgentRemoved(b)
    <2> DEFINE q == boots[b].todo
    <2>1. /\ Closing(b) /\ Clearing(b) /\ q # <<>> /\ UNCHANGED <<bootState, initializerDone, late>>
          /\ (Do(b, "clear", Tail(q)) \/ Do(b, "clearing", q))
      BY <1>5 DEF RemoveAgent, AgentRemoved, At, Closing, Todo, ClearSound
    <2>2. CallsApart'
      BY <2>1, ApartMoves DEF Closing
    <2>3. ToSet(q) \subseteq {Head(q)} \cup ToSet(Tail(q)) /\ \E S : Tail(q) \in Seq(S)
      <3>1. PICK S : q \in Seq(S)
        BY <2>1 DEF Clearing
      <3>2. Tail(q) \in Seq(S)
        BY <2>1, <3>1
      <3> QED BY <2>1, <3>1, <3>2, HeadTailSet
    <2>4. CASE Do(b, "clear", Tail(q)) /\ agents' = agents \ {Head(q)}
               /\ (UNCHANGED removal \/ removal' = [removal EXCEPT ![b] = "none"])
      <3>1. boots'[b] = [op |-> "clear", todo |-> Tail(q)]
        BY <2>4 DEF Do, CallsApart
      <3>2. Clearing(b)'
        BY <2>1, <2>3, <2>4, <3>1 DEF Clearing
      <3>3. /\ \A c \in Bootstraps \ {b} : boots'[c] = boots[c] /\ removal'[c] = removal[c]
            /\ DOMAIN removal' = Removers
        BY <2>4, BootstrapAssumption DEF CallsApart, Do, ClearSound
      <3>4. late' = late /\ agents' \subseteq agents /\ boots'[b].op = "clear"
        BY <2>1, <2>4, <3>1
      <3> QED BY <2>1, <2>2, <3>2, <3>3, <3>4, ClearMoves DEF Emptied
    <2>5. CASE Do(b, "clearing", q) /\ agents' = agents /\ removal' = [removal EXCEPT ![b] = Head(q)]
      <3>1. boots'[b] = [op |-> "clearing", todo |-> q]
        BY <2>5 DEF Do, CallsApart
      <3>2. Clearing(b)'
        BY <2>1, <2>5, <3>1 DEF Clearing
      <3>3. /\ \A c \in Bootstraps \ {b} : boots'[c] = boots[c] /\ removal'[c] = removal[c]
            /\ DOMAIN removal' = Removers /\ removal'[b] = Head(q)
        BY <1>0, <2>5, BootstrapAssumption DEF CallsApart, Do, ClearSound
      <3>4. /\ late' = late /\ agents' \subseteq agents
            /\ boots'[b].op = "clearing" /\ boots'[b].todo = q
        BY <2>1, <2>5, <3>1
      <3> QED BY <2>1, <2>2, <3>2, <3>3, <3>4, ClearMoves DEF Emptied
    <2>6. CASE RemoveAgent(b)
      <3>1. CASE Head(q) \in agents
        BY <2>5, <2>6, <3>1 DEF RemoveAgent, Lifecycle!RemoveBegin, Todo, Next1
      <3>2. CASE Head(q) \notin agents
        BY <2>4, <2>6, <3>2 DEF RemoveAgent, Todo, Next1, lifecycleVars
      <3> QED BY <3>1, <3>2
    <2>7. CASE AgentRemoved(b)
      <3>1. Do(b, "clear", Tail(q)) /\ agents' = agents \ {Head(q)}
            /\ removal' = [removal EXCEPT ![b] = "none"]
        BY <2>7 DEF AgentRemoved, Lifecycle!RemoveEnd, Todo, At, ClearSound
      <3> QED BY <2>4, <3>1
    <2> QED BY <1>5, <2>6, <2>7
  <1>6. CASE ShutdownEnd(b)
    <2>1. /\ Closing(b) /\ Clearing(b) /\ boots[b].todo = <<>> /\ Done(b)
          /\ UNCHANGED <<initializerDone, late, agents, removal>>
          /\ bootState' = [initialized |-> FALSE, started |-> FALSE, shutdownInProgress |-> FALSE]
      BY <1>6 DEF ShutdownEnd, At, Closing, Todo, ClearSound, lifecycleVars
    <2>2. CallsApart'
      BY <2>1 DEF CallsApart, Done, Ready, Registering, Closing
    <2>3. Emptied
      <3>1. ToSet(<<>>) = {}
        BY DEF ToSet
      <3> QED BY <2>1, <3>1 DEF Clearing, Emptied
    <2> QED BY <2>1, <2>2, <2>3, ClearElsewhere
  <1> QED BY <1>1, <1>2, <1>3, <1>4, <1>5, <1>6

LEMMA EmptiedInit == ASSUME Init PROVE CallsApart /\ ClearSound
  <1>1. /\ boots = [b \in Bootstraps |-> Ready] /\ agents = {}
        /\ bootState = [initialized |-> FALSE, started |-> FALSE, shutdownInProgress |-> FALSE]
        /\ removal = [r \in Removers |-> "none"]
    BY DEF Init, OrchestratorInit, Lifecycle!LifecycleInit, Lifecycle!RegistryInit
  <1> QED BY <1>1, FS_EmptySet DEF CallsApart, ClearSound, Registering, Closing, Ready

\* Executions and the orchestrator's operations leave the registry alone.
LEMMA ExecutionsPass ==
    ASSUME NEW e, ExecutionBegin(e) \/ Cancel(e) \/ ExecutionStep(e)
    PROVE  UNCHANGED <<agents, removal>>
  <1>1. CASE ExecutionBegin(e) \/ Cancel(e)
    BY <1>1 DEF ExecutionBegin, Execute, ExecuteWorkflow, ExecutePlan, Cancel, lifecycleVars
  <1>2. CASE FindAgent(e) \/ CheckHealth(e) \/ InitializeAgent(e)
    BY <1>2 DEF FindAgent, CheckHealth, InitializeAgent, Lifecycle!Begin, Lifecycle!Resolve,
                Lifecycle!Find, Lifecycle!Check, Lifecycle!Reject, Lifecycle!agentRegistryVars,
                lifecycleVars
  <1>3. CASE LoadMemoryContext(e) \/ SchedulePlanTask(e) \/ PollPlan(e) \/ RunReturns(e)
             \/ RunThrows(e) \/ Complete(e)
    BY <1>3 DEF LoadMemoryContext, SchedulePlanTask, PollPlan, RunReturns, RunThrows, Complete,
                lifecycleVars
  <1> QED BY <1>1, <1>2, <1>3 DEF ExecutionStep

LEMMA OperationsPass ==
    ASSUME NEW c, ControlBegin(c) \/ ControlStep(c)
    PROVE  UNCHANGED <<agents, removal>>
  <1>1. CASE ControlBegin(c)
    BY <1>1 DEF ControlBegin, Start, Stop, Pause, Resume, lifecycleVars
  <1>2. CASE StartStopStep(c)
    BY <1>2 DEF StartStopStep, StartEnd, StopCancel, StopCancelled, StopFails, StopPauseScheduler,
                StopEnd, lifecycleVars
  <1>3. CASE PauseExecutions(c) \/ ResumeExecutions(c)
    BY <1>3 DEF PauseExecutions, ResumeExecutions, lifecycleVars
  <1> QED BY <1>1, <1>2, <1>3 DEF ControlStep

LEMMA EmptiedStep ==
    ASSUME CallsApart, ClearSound, [Next]_vars
    PROVE  CallsApart' /\ ClearSound' /\ Emptied
  <1>1. ASSUME NEW b \in Bootstraps, Bootstrap(b) \/ StartRuntime(b) \/ Shutdown(b) \/ BootStep(b)
        PROVE  CallsApart' /\ ClearSound' /\ Emptied
    <2>1. CASE OrchestratorStep(b)
      <3>1. ControlStep(b) /\ UNCHANGED <<bootState, initializerDone, boots, late>>
        BY <2>1 DEF OrchestratorStep, ControlStep
      <3> QED BY <3>1, ExecutionsPass, OperationsPass, ClearRests
    <2> QED BY <1>1, <2>1, RegistryUp, RegistryDown, Zenon DEF BootStep
  <1>2. ASSUME NEW a \in Agents, RegisterAgent(a) PROVE CallsApart' /\ ClearSound' /\ Emptied
    <2>1. /\ agents' = agents \cup {a} /\ late' = late \cup {a}
          /\ UNCHANGED <<bootState, initializerDone, boots, removal>>
      BY <1>2 DEF RegisterAgent, Lifecycle!Register
    <2>2. IsFiniteSet(agents')
      BY <2>1, FS_AddElement DEF ClearSound
    <2> QED BY <2>1, <2>2 DEF CallsApart, ClearSound, Registering, Closing, Clearing, Emptied
  <1>3. ASSUME NEW a \in Agents, AgentErrs(a) PROVE CallsApart' /\ ClearSound' /\ Emptied
    BY <1>3, ClearRests DEF AgentErrs, lifecycleVars, bootVars
  <1>4. CASE UseOrchestrator
    BY <1>4, ExecutionsPass, OperationsPass, ClearRests DEF UseOrchestrator, bootVars
  <1>5. ASSUME NEW e \in Executions, StepExecution(e) PROVE CallsApart' /\ ClearSound' /\ Emptied
    BY <1>5, ExecutionsPass, ClearRests DEF StepExecution, bootVars
  <1>6. ASSUME NEW c \in Controllers, StepControl(c) PROVE CallsApart' /\ ClearSound' /\ Emptied
    BY <1>6, OperationsPass, ClearRests DEF StepControl, bootVars
  <1>7. CASE UNCHANGED vars
    BY <1>7, ClearRests DEF vars, lifecycleVars, bootVars
  <1> QED BY <1>1, <1>2, <1>3, <1>4, <1>5, <1>6, <1>7 DEF Next

\* A shutdown that ends has removed every agent that was registered when it began, whatever
\* is registered, started and shut down meanwhile: only agents registered since are left.
THEOREM ShutdownRemovesAll == PlatformSpec => ShutdownEmptiesRegistry
  <1>1. PlatformInit => CallsApart /\ ClearSound
    BY EmptiedInit DEF PlatformInit
  <1>2. CallsApart /\ ClearSound /\ [PlatformNext]_platformVars
          => CallsApart' /\ ClearSound' /\ [Emptied]_vars
    <2>1. [PlatformNext]_platformVars => [Next]_vars
      BY DEF PlatformNext, platformVars, HealthAsked, HealthStep, Trouble, Usage
    <2> QED BY <2>1, EmptiedStep
  <1> QED BY <1>1, <1>2, PTL DEF PlatformSpec, ShutdownEmptiesRegistry, Emptied
-----------------------------------------------------------------------------
(* The lifecycle manager within the platform.                              *)

\* What a call of bootstrap or shutdown has ahead of it are agents, and while it does
\* something with one there is one.
ListSound(b) ==
    /\ boots[b].todo \in Seq(Agents)
    /\ boots[b].op \in {"initializing", "startingAgent", "removing", "shuttingAgent", "clearing"}
         => boots[b].todo # <<>>

ListsSound ==
    /\ agents \subseteq Agents /\ IsFiniteSet(agents)
    /\ builtin \in Seq(Agents)
    /\ DOMAIN boots = Bootstraps
    /\ \A b \in Bootstraps : ListSound(b)

\* A step of the lifecycle manager or of the registry it looks agents up in, or of neither.
LifecycleStep == [Lifecycle!LifecycleNext]_(Lifecycle!agentVars)

LEMMA LifecycleRests == ASSUME UNCHANGED lifecycleVars PROVE LifecycleStep
  BY DEF LifecycleStep, Lifecycle!agentVars, Lifecycle!agentRegistryVars, Lifecycle!lifecycleVars,
         lifecycleVars, managerVars

LEMMA LifecycleBegins ==
    ASSUME NEW c \in Callers, NEW a \in Agents, NEW op \in {"initialize", "start", "shutdown"},
           Lifecycle!Begin(c, a, op)
    PROVE  LifecycleStep
  <1>1. op \in Lifecycle!Operations
    BY DEF Lifecycle!Operations
  <1> QED BY <1>1 DEF LifecycleStep, Lifecycle!LifecycleNext

LEMMA LifecycleAdvances ==
    ASSUME NEW c \in Callers,
           \/ Lifecycle!Advance(c)
           \/ Lifecycle!Find(c) \/ Lifecycle!Check(c) \/ Lifecycle!Resolve(c) \/ Lifecycle!Reject(c)
    PROVE  LifecycleStep
  BY DEF LifecycleStep, Lifecycle!LifecycleNext, Lifecycle!Advance

LEMMA RegistryMoves ==
    ASSUME UNCHANGED managerVars,
           \/ \E a \in Agents : Lifecycle!Register(a)
           \/ \E r \in Removers, a \in Agents : Lifecycle!RemoveBegin(r, a)
           \/ \E r \in Removers : Lifecycle!RemoveEnd(r)
    PROVE  LifecycleStep
  BY DEF LifecycleStep, Lifecycle!LifecycleNext, Lifecycle!RegistryNext, Lifecycle!lifecycleVars,
         managerVars

\* An execution asks the manager to initialise its agent.
LEMMA ExecutionsImplement ==
    ASSUME NEW e \in Executions, ExecutionBegin(e) \/ Cancel(e) \/ ExecutionStep(e)
    PROVE  LifecycleStep
  <1>0. e \in Callers /\ AgentOf[e] \in Agents
    BY OrchestratorAssumption DEF Callers
  <1>1. CASE ExecutionBegin(e) \/ Cancel(e)
    BY <1>1, LifecycleRests DEF ExecutionBegin, Execute, ExecuteWorkflow, ExecutePlan, Cancel
  <1>2. CASE CheckHealth(e)
    BY <1>0, <1>2, LifecycleBegins, LifecycleRests DEF CheckHealth
  <1>3. CASE InitializeAgent(e)
    <2>1. Lifecycle!Find(e) \/ Lifecycle!Check(e) \/ Lifecycle!Resolve(e) \/ Lifecycle!Reject(e)
      BY <1>3, Zenon DEF InitializeAgent
    <2> QED BY <1>0, <2>1, LifecycleAdvances, Zenon
  <1>4. CASE FindAgent(e) \/ LoadMemoryContext(e) \/ SchedulePlanTask(e) \/ PollPlan(e)
             \/ RunReturns(e) \/ RunThrows(e) \/ Complete(e)
    BY <1>4, LifecycleRests DEF FindAgent, LoadMemoryContext, SchedulePlanTask, PollPlan,
                                RunReturns, RunThrows, Complete
  <1> QED BY <1>1, <1>2, <1>3, <1>4, Zenon DEF ExecutionStep

LEMMA OperationsImplement ==
    ASSUME NEW c, ControlBegin(c) \/ ControlStep(c)
    PROVE  LifecycleStep
  <1>1. CASE ControlBegin(c)
    BY <1>1, LifecycleRests DEF ControlBegin, Start, Stop, Pause, Resume
  <1>2. CASE StartStopStep(c)
    BY <1>2, LifecycleRests DEF StartStopStep, StartEnd, StopCancel, StopCancelled, StopFails,
                                StopPauseScheduler, StopEnd
  <1>3. CASE PauseExecutions(c) \/ ResumeExecutions(c)
    BY <1>3, LifecycleRests DEF PauseExecutions, ResumeExecutions
  <1> QED BY <1>1, <1>2, <1>3 DEF ControlStep

\* A call of bootstrap, start or shutdown moves on.
LEMMA ListMoves ==
    ASSUME ListsSound, NEW b \in Bootstraps, agents' \subseteq Agents, IsFiniteSet(agents'),
           builtin' \in Seq(Agents),
           \/ boots' = boots \/ Done(b)
           \/ \E op, todo :
                /\ Do(b, op, todo) /\ todo \in Seq(Agents)
                /\ op \in {"initializing", "startingAgent", "removing", "shuttingAgent", "clearing"}
                     => todo # <<>>
    PROVE  ListsSound'
  <1>1. CASE boots' = boots
    BY <1>1 DEF ListsSound, ListSound
  <1>2. ASSUME NEW op, NEW todo, Do(b, op, todo), todo \in Seq(Agents),
               op \in {"initializing", "startingAgent", "removing", "shuttingAgent", "clearing"}
                 => todo # <<>>
        PROVE  ListsSound'
    <2>1. /\ DOMAIN boots' = Bootstraps /\ boots'[b] = [op |-> op, todo |-> todo]
          /\ \A c \in Bootstraps \ {b} : boots'[c] = boots[c]
      BY <1>2 DEF ListsSound, Do
    <2>2. ListSound(b)'
      BY <1>2, <2>1 DEF ListSound
    <2>3. \A c \in Bootstraps : ListSound(c)'
      BY <2>1, <2>2 DEF ListsSound, ListSound
    <2> QED BY <2>1, <2>3 DEF ListsSound
  <1>3. CASE Done(b)
    <2>1. Do(b, "idle", <<>>) /\ <<>> \in Seq(Agents)
      BY <1>3 DEF Done, Do, Ready
    <2> QED BY <1>2, <2>1
  <1> QED BY <1>1, <1>2, <1>3

\* The rest of a list of agents.
LEMMA RestOfList ==
    ASSUME ListsSound, NEW b \in Bootstraps, boots[b].todo # <<>>
    PROVE  Next1(b) \in Agents /\ Tail(Todo(b)) \in Seq(Agents) /\ Todo(b) \in Seq(Agents)
  BY DEF ListsSound, ListSound, Next1, Todo

\* A call is done with the first of its list, or not yet.
LEMMA ListShortens ==
    ASSUME ListsSound, NEW b \in Bootstraps, agents' \subseteq Agents, IsFiniteSet(agents'),
           builtin' \in Seq(Agents), boots[b].todo # <<>>,
           \/ boots' = boots \/ Done(b)
           \/ \E op \in {"register", "agents", "unregister", "lifecycle", "clear"} :
                Do(b, op, Tail(Todo(b)))
    PROVE  ListsSound'
  <1>1. CASE boots' = boots \/ Done(b)
    BY <1>1, ListMoves
  <1>2. ASSUME NEW op \in {"register", "agents", "unregister", "lifecycle", "clear"},
               Do(b, op, Tail(Todo(b)))
        PROVE  ListsSound'
    <2>1. op \notin {"initializing", "startingAgent", "removing", "shuttingAgent", "clearing"}
          /\ Tail(Todo(b)) \in Seq(Agents)
      BY RestOfList
    <2> QED BY <1>2, <2>1, ListMoves, Zenon
  <1> QED BY <1>1, <1>2

LEMMA WithoutOne == ASSUME builtin \in Seq(Agents), NEW a PROVE Without(a) \in Seq(Agents)
  <1> DEFINE places == {i \in DOMAIN builtin : builtin[i] = a}
  <1>1. CASE places = {}
    BY <1>1 DEF Without
  <1>2. CASE places # {}
    <2>1. PICK i \in places : i = CHOOSE j \in places : TRUE
      BY <1>2
    <2>2. i \in 1..Len(builtin) /\ Without(a) = RemoveAt(builtin, i)
      BY <1>2, <2>1 DEF Without
    <2> QED BY <2>2, RemoveAtSeq
  <1> QED BY <1>1, <1>2
\* A call of bootstrap or start registers the built-in agents and has them started ...
LEMMA BootUpImplements ==
    ASSUME ListsSound, NEW b \in Bootstraps,
           \/ Bootstrap(b) \/ StartRuntime(b)
           \/ RegisterBuiltin(b) \/ \E ok \in BOOLEAN : BuiltinInitialized(b, ok)
           \/ BootstrapEnd(b) \/ StartAgents(b) \/ StartAgent(b) \/ StartAgentStep(b) \/ StartEnds(b)
    PROVE  LifecycleStep /\ ListsSound'
  <1>0. b \in Callers
    BY BootstrapAssumption DEF Callers
  <1>s. /\ agents \subseteq Agents /\ IsFiniteSet(agents) /\ builtin \in Seq(Agents)
        /\ <<>> \in Seq(Agents) /\ Todo(b) \in Seq(Agents)
    BY DEF ListsSound, ListSound, Todo
  <1>1. CASE \/ Bootstrap(b) \/ StartRuntime(b) \/ BootstrapEnd(b) \/ StartAgents(b) \/ StartEnds(b)
    <2>1. UNCHANGED lifecycleVars /\ UNCHANGED <<agents, builtin>>
      BY <1>1 DEF Bootstrap, StartRuntime, BootstrapEnd, CallOrchestratorStart, Start, StartAgents,
                  StartEnds, lifecycleVars
    <2>2. \/ Done(b)
          \/ \E op \in {"register", "starting", "agents"} :
               Do(b, op, BuiltinAgents) \/ Do(b, op, <<>>) \/ Do(b, op, builtin)
      BY <1>1, Zenon DEF Bootstrap, StartRuntime, BootstrapEnd, StartAgents, StartEnds
    <2> QED BY <1>s, <2>1, <2>2, LifecycleRests, ListMoves, BootstrapAssumption
  <1>2. CASE RegisterBuiltin(b)
    <2>1. /\ Todo(b) # <<>> /\ UNCHANGED lifecycleVars /\ agents' = agents
          /\ builtin' = Append(builtin, Next1(b)) /\ Do(b, "initializing", Todo(b))
      BY <1>2 DEF RegisterBuiltin, lifecycleVars
    <2>2. builtin' \in Seq(Agents)
      BY <1>s, <2>1, RestOfList DEF Todo
    <2> QED BY <1>s, <2>1, <2>2, LifecycleRests, ListMoves
  <1>3. ASSUME NEW ok \in BOOLEAN, BuiltinInitialized(b, ok)
        PROVE  LifecycleStep /\ ListsSound'
    <2>1. /\ boots[b].todo # <<>> /\ builtin' = builtin /\ Do(b, "register", Tail(Todo(b)))
          /\ \/ Lifecycle!Register(Next1(b)) /\ UNCHANGED managerVars
             \/ UNCHANGED lifecycleVars
      BY <1>3 DEF BuiltinInitialized, At, NextBuiltin, ListsSound, ListSound
    <2>2. Next1(b) \in Agents /\ Tail(Todo(b)) \in Seq(Agents)
      BY <2>1, RestOfList
    <2>3. agents' = agents \/ agents' = agents \cup {Next1(b)}
      BY <2>1 DEF Lifecycle!Register, lifecycleVars
    <2>4. agents' \subseteq Agents /\ IsFiniteSet(agents')
      BY <1>s, <2>2, <2>3, FS_AddElement
    <2>5. LifecycleStep
      BY <2>1, <2>2, LifecycleRests, RegistryMoves
    <2> QED BY <1>s, <2>1, <2>4, <2>5, ListShortens
  <1>4. CASE StartAgent(b)
    <2>1. /\ Todo(b) # <<>> /\ builtin' = builtin
          /\ \/ Lifecycle!Begin(b, Next1(b), "start") /\ Do(b, "startingAgent", Todo(b))
             \/ Done(b) /\ UNCHANGED lifecycleVars
      BY <1>4 DEF StartAgent
    <2>2. agents' = agents
      BY <2>1 DEF Lifecycle!Begin, Lifecycle!agentRegistryVars, lifecycleVars
    <2>3. LifecycleStep
      BY <1>0, <2>1, RestOfList, LifecycleBegins, LifecycleRests DEF Todo
    <2> QED BY <1>s, <2>1, <2>2, <2>3, ListMoves
  <1>5. CASE StartAgentStep(b)
    <2>1. /\ boots[b].todo # <<>> /\ builtin' = builtin
          /\ boots' = boots \/ Done(b) \/ Do(b, "agents", Tail(Todo(b)))
      BY <1>5, Zenon DEF StartAgentStep, At, ListsSound, ListSound
    <2>2. Lifecycle!Find(b) \/ Lifecycle!Check(b) \/ Lifecycle!Resolve(b) \/ Lifecycle!Reject(b)
      BY <1>5, Zenon DEF StartAgentStep
    <2>3. agents' = agents
      BY <2>2 DEF Lifecycle!Find, Lifecycle!Check, Lifecycle!Resolve, Lifecycle!Reject,
                  Lifecycle!agentRegistryVars
    <2>4. LifecycleStep
      BY <1>0, <2>2, LifecycleAdvances, Zenon
    <2> QED BY <1>s, <2>1, <2>3, <2>4, ListShortens
  <1> QED BY <1>1, <1>2, <1>3, <1>4, <1>5

\* ... and a shutdown has what is registered shut down and removed.
LEMMA BootDownImplements ==
    ASSUME ListsSound, NEW b \in Bootstraps,
           \/ Shutdown(b) \/ UnregisterBuiltin(b) \/ RemoveBuiltin(b) \/ StopOrchestrator(b)
           \/ PauseScheduler(b) \/ ShutdownAgent(b) \/ ShutdownAgentStep(b)
           \/ ClearRegistry(b) \/ RemoveAgent(b) \/ AgentRemoved(b) \/ ShutdownEnd(b)
    PROVE  LifecycleStep /\ ListsSound'
  <1>0. b \in Callers /\ b \in Removers
    BY BootstrapAssumption DEF Callers
  <1>s. /\ agents \subseteq Agents /\ IsFiniteSet(agents) /\ builtin \in Seq(Agents)
        /\ <<>> \in Seq(Agents) /\ Todo(b) \in Seq(Agents) /\ SetToSeq(agents) \in Seq(Agents)
    <2>1. agents \subseteq Agents /\ IsFiniteSet(agents) /\ SetToSeq(agents) \in Seq(agents)
      BY InSomeOrder DEF ListsSound
    <2> QED BY <2>1 DEF ListsSound, ListSound, Todo
  <1>1. CASE \/ Shutdown(b) \/ StopOrchestrator(b) \/ PauseScheduler(b) \/ ClearRegistry(b)
             \/ ShutdownEnd(b)
    <2>1. UNCHANGED lifecycleVars /\ UNCHANGED <<agents, builtin>>
      BY <1>1 DEF Shutdown, StopOrchestrator, Stop, PauseScheduler, ClearRegistry, ShutdownEnd,
                  lifecycleVars
    <2>2. \/ Done(b)
          \/ \E op \in {"unregister", "stopping", "lifecycle", "clear"} :
               Do(b, op, builtin) \/ Do(b, op, <<>>) \/ Do(b, op, SetToSeq(agents))
      BY <1>1, Zenon DEF Shutdown, StopOrchestrator, PauseScheduler, ClearRegistry, ShutdownEnd
    <2> QED BY <1>s, <2>1, <2>2, LifecycleRests, ListMoves
  <1>2. CASE UnregisterBuiltin(b) \/ RemoveAgent(b)
    <2>1. /\ Todo(b) # <<>> /\ builtin' = builtin
          /\ \/ /\ Lifecycle!RemoveBegin(b, Next1(b)) /\ UNCHANGED managerVars
                /\ Do(b, "removing", Todo(b)) \/ Do(b, "clearing", Todo(b))
             \/ /\ UNCHANGED lifecycleVars
                /\ Do(b, "unregister", Tail(Todo(b))) \/ Do(b, "clear", Tail(Todo(b)))
      BY <1>2 DEF UnregisterBuiltin, RemoveAgent
    <2>2. Next1(b) \in Agents /\ Tail(Todo(b)) \in Seq(Agents)
      BY <2>1, RestOfList DEF Todo
    <2>3. agents' = agents
      BY <2>1 DEF Lifecycle!RemoveBegin, lifecycleVars
    <2>4. LifecycleStep
      BY <1>0, <2>1, <2>2, LifecycleRests, RegistryMoves
    <2>5. CASE Do(b, "removing", Todo(b)) \/ Do(b, "clearing", Todo(b))
      BY <1>s, <2>1, <2>3, <2>4, <2>5, ListMoves
    <2>6. CASE Do(b, "unregister", Tail(Todo(b))) \/ Do(b, "clear", Tail(Todo(b)))
      BY <1>s, <2>1, <2>3, <2>4, <2>6, ListShortens DEF Todo
    <2> QED BY <2>1, <2>5, <2>6
  <1>3. CASE RemoveBuiltin(b) \/ AgentRemoved(b)
    <2>1. /\ boots[b].todo # <<>> /\ Lifecycle!RemoveEnd(b) /\ UNCHANGED managerVars
          /\ builtin' = builtin \/ builtin' = Without(Next1(b))
          /\ Do(b, "unregister", Tail(Todo(b))) \/ Do(b, "clear", Tail(Todo(b)))
      BY <1>3 DEF RemoveBuiltin, AgentRemoved, At, ListsSound, ListSound
    <2>2. agents' \subseteq agents
      BY <2>1 DEF Lifecycle!RemoveEnd
    <2>3. IsFiniteSet(agents') /\ builtin' \in Seq(Agents)
      BY <1>s, <2>1, <2>2, FS_Subset, WithoutOne
    <2>4. LifecycleStep
      BY <1>0, <2>1, RegistryMoves
    <2> QED BY <1>s, <2>1, <2>2, <2>3, <2>4, ListShortens
  <1>4. CASE ShutdownAgent(b)
    <2>1. /\ Todo(b) # <<>> /\ builtin' = builtin /\ Lifecycle!Begin(b, Next1(b), "shutdown")
          /\ Do(b, "shuttingAgent", Todo(b))
      BY <1>4 DEF ShutdownAgent
    <2>2. agents' = agents
      BY <2>1 DEF Lifecycle!Begin, Lifecycle!agentRegistryVars
    <2>3. LifecycleStep
      BY <1>0, <2>1, RestOfList, LifecycleBegins DEF Todo
    <2> QED BY <1>s, <2>1, <2>2, <2>3, ListMoves
  <1>5. CASE ShutdownAgentStep(b)
    <2>1. /\ boots[b].todo # <<>> /\ builtin' = builtin /\ Lifecycle!Advance(b)
          /\ boots' = boots \/ Do(b, "lifecycle", Tail(Todo(b)))
      BY <1>5, Zenon DEF ShutdownAgentStep, At, ListsSound, ListSound
    <2>2. agents' = agents
      BY <2>1 DEF Lifecycle!Advance, Lifecycle!Find, Lifecycle!Check, Lifecycle!CheckShutdown,
                  Lifecycle!Resolve, Lifecycle!Reject, Lifecycle!agentRegistryVars
    <2>3. LifecycleStep
      BY <1>0, <2>1, LifecycleAdvances, Zenon
    <2> QED BY <1>s, <2>1, <2>2, <2>3, ListShortens
  <1> QED BY <1>1, <1>2, <1>3, <1>4, <1>5

LEMMA ListsRest ==
    ASSUME ListsSound, UNCHANGED <<agents, builtin, boots>>
    PROVE  ListsSound'
  BY DEF ListsSound, ListSound

LEMMA ListsSoundInit == ASSUME Init PROVE ListsSound
  <1>1. /\ agents = {} /\ builtin = <<>> /\ boots = [b \in Bootstraps |-> Ready]
    BY DEF Init, OrchestratorInit, Lifecycle!LifecycleInit, Lifecycle!RegistryInit
  <1>2. \A b \in Bootstraps : boots[b].todo = <<>> /\ boots[b].op = "idle"
    BY <1>1 DEF Ready
  <1>3. <<>> \in Seq(Agents) /\ DOMAIN boots = Bootstraps
    BY <1>1
  <1> QED BY <1>1, <1>2, <1>3, FS_EmptySet DEF ListsSound, ListSound

LEMMA LifecycleStepped ==
    ASSUME Booted, ListsSound, [Next]_vars
    PROVE  LifecycleStep /\ ListsSound'
  <1>1. ASSUME NEW b \in Bootstraps, Bootstrap(b) \/ StartRuntime(b) \/ Shutdown(b) \/ BootStep(b)
        PROVE  LifecycleStep /\ ListsSound'
    <2>1. CASE OrchestratorStep(b)
      <3>1. ControlStep(b) /\ UNCHANGED <<builtin, boots>>
        BY <2>1 DEF OrchestratorStep, ControlStep
      <3> QED BY <3>1, OperationsImplement, OperationsPass, ListsRest
    <2> QED BY <1>1, <2>1, BootUpImplements, BootDownImplements, Zenon DEF BootStep
  <1>2. ASSUME NEW a \in Agents, RegisterAgent(a) PROVE LifecycleStep /\ ListsSound'
    <2>1. /\ Lifecycle!Register(a) /\ UNCHANGED managerVars /\ UNCHANGED <<builtin, boots>>
          /\ agents' = agents \cup {a}
      BY <1>2 DEF RegisterAgent, Lifecycle!Register
    <2>2. IsFiniteSet(agents')
      BY <2>1, FS_AddElement DEF ListsSound
    <2>3. ListsSound'
      BY <2>1, <2>2 DEF ListsSound, ListSound
    <2> QED BY <2>1, <2>3, RegistryMoves
  <1>3. ASSUME NEW a \in Agents, AgentErrs(a) PROVE LifecycleStep /\ ListsSound'
    BY <1>3, LifecycleRests, ListsRest DEF AgentErrs, lifecycleVars, bootVars
  <1>4. CASE UseOrchestrator
    <2>1. UNCHANGED <<builtin, boots>> /\ workload.executions \subseteq Executions
      BY <1>4, BootstrapAssumption DEF UseOrchestrator, bootVars, Booted
    <2> QED BY <1>4, <2>1, ExecutionsImplement, OperationsImplement, ExecutionsPass, OperationsPass,
               ListsRest DEF UseOrchestrator
  <1>5. ASSUME NEW e \in Executions, StepExecution(e) PROVE LifecycleStep /\ ListsSound'
    BY <1>5, ExecutionsImplement, ExecutionsPass, ListsRest DEF StepExecution, bootVars
  <1>6. ASSUME NEW c \in Controllers, StepControl(c) PROVE LifecycleStep /\ ListsSound'
    BY <1>6, OperationsImplement, OperationsPass, ListsRest DEF StepControl, bootVars
  <1>7. CASE UNCHANGED vars
    BY <1>7, LifecycleRests, ListsRest DEF vars, lifecycleVars, bootVars
  <1> QED BY <1>1, <1>2, <1>3, <1>4, <1>5, <1>6, <1>7 DEF Next

\* What the platform does with its agents, through executions, bootstraps, shutdowns and
\* registrations, is something the lifecycle manager and the registry do: each step is one of
\* theirs or leaves them alone, so what is proved of these for any calls holds here.
THEOREM ImplementsLifecycle == PlatformSpec => Lifecycle!LifecycleSpec
  <1>1. PlatformInit => Lifecycle!LifecycleInit /\ Booted /\ ListsSound
    BY QuietInit, ListsSoundInit DEF PlatformInit, Init, OrchestratorInit
  <1>2. Booted /\ Operated /\ StopSound /\ ListsSound /\ [PlatformNext]_platformVars
          => (Booted /\ Operated /\ StopSound /\ ListsSound)' /\ [Lifecycle!LifecycleNext]_(Lifecycle!agentVars)
    <2>1. [PlatformNext]_platformVars => [Next]_vars
      BY DEF PlatformNext, platformVars, HealthAsked, HealthStep, Trouble, Usage
    <2> QED BY <2>1, QuietStep, LifecycleStepped DEF LifecycleStep
  <1>3. PlatformInit => Operated /\ StopSound
    BY QuietInit DEF PlatformInit
  <1> QED BY <1>1, <1>2, <1>3, PTL DEF PlatformSpec, Lifecycle!LifecycleSpec
=============================================================================
