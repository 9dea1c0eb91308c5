----------------------------- MODULE TaskBoard -----------------------------
(***************************************************************************)
(* What the agent scheduler promises, without its queues: every task is in *)
(* exactly one phase, at most MaxConcurrency tasks run, a task starts from *)
(* the ready phase only, and a task that waits becomes ready in the very   *)
(* step that completes the last dependency it was blocked on.              *)
(***************************************************************************)
EXTENDS Naturals, FiniteSets

CONSTANTS Tasks, BlockDeps, MaxConcurrency

VARIABLE phase

RunningTasks == {t \in Tasks : phase[t] = "running"}

Blocked(ph, t) == \E d \in BlockDeps[t] : ph[d] # "completed"

\* Waiting tasks that nothing blocks any more become ready.
Settle(ph) ==
    [t \in Tasks |-> IF ph[t] = "waiting" /\ ~Blocked(ph, t) THEN "ready" ELSE ph[t]]

Init == phase = [t \in Tasks |-> "absent"]

\* A task that does not run is handed in, for the first time or again.
Enter(t) ==
    /\ phase[t] # "running"
    /\ phase' = [phase EXCEPT ![t] = IF Blocked([phase EXCEPT ![t] = "absent"], t)
                                     THEN "waiting" ELSE "ready"]

Start(t) ==
    /\ phase[t] = "ready"
    /\ Cardinality(RunningTasks) < MaxConcurrency
    /\ phase' = [phase EXCEPT ![t] = "running"]

Finish(t) ==
    /\ phase[t] = "running"
    /\ \/ phase' = Settle([phase EXCEPT ![t] = "completed"])
       \/ phase' = [phase EXCEPT ![t] = "failed"]

Withdraw(t) ==
    /\ phase[t] # "absent"
    /\ phase' = [phase EXCEPT ![t] = "failed"]

Next == \E t \in Tasks : Enter(t) \/ Start(t) \/ Finish(t) \/ Withdraw(t)

Spec == Init /\ [][Next]_phase
=============================================================================
