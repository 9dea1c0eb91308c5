-------------------------- MODULE MCWorkflowEngine --------------------------
(* Three root steps, two steps nested in the second one, and one call of     *)
(* resume.  The workflows cover every mode and every type of step, both      *)
(* answers to a failure, a failure limit, compensation, the global timeout   *)
(* and a policy the registry refuses.                                        *)
EXTENDS WorkflowEngine, TLC

CONSTANT r1

MCSteps == 1 .. 5
MCRoots == <<1, 2, 3>>
MCChildren == [s \in MCSteps |-> IF s = 2 THEN <<4, 5>> ELSE <<>>]
MCBranches == [s \in MCSteps |-> [b \in {"then", "else"} |->
                 CASE s = 2 /\ b = "then" -> <<4>> [] s = 2 /\ b = "else" -> <<5>> [] OTHER -> <<>>]]
MCMaxIterations == [s \in MCSteps |-> 2]

\* The types of steps 2, 4 and 5; a workflow fails when one is unsupported.
Types(outer, four, five) ==
    [s \in MCSteps |-> CASE s = 2 -> outer [] s = 4 -> four [] s = 5 -> five [] OTHER -> "task"]
W(mode, goOn, limit, comp, timeout, type) ==
    [mode |-> mode, continueOnError |-> goOn, maxFailures |-> limit,
     compensationRequired |-> comp, enableGlobalTimeout |-> timeout, type |-> type,
     breakOnError |-> FALSE, items |-> TRUE, resumes |-> {r1}]
Unresumed(w) == [w EXCEPT !.resumes = {}]

MCWorkflows ==
    {W("sequential", FALSE, 1, TRUE, FALSE, Types("unsupported", "task", "task")),
     W("sequential", TRUE, 0, FALSE, TRUE, Types("sequence", "task", "unsupported")),
     W("sequential", FALSE, 0, FALSE, FALSE, Types("task", "task", "task")),
     W("mixed", TRUE, 1, TRUE, TRUE, Types("parallel", "unsupported", "task")),
     W("mixed", FALSE, 1, FALSE, FALSE, Types("conditional", "task", "unsupported")),
     W("parallel", TRUE, 2, TRUE, TRUE, Types("unsupported", "task", "task"))}
    \cup {Unresumed(w) : w \in
          {W("sequential", FALSE, 1, TRUE, FALSE, Types("while", "task", "unsupported")),
           [W("sequential", TRUE, 2, TRUE, TRUE, Types("while", "task", "unsupported"))
              EXCEPT !.breakOnError = TRUE],
           W("mixed", TRUE, 3, TRUE, FALSE, Types("for", "task", "task")),
           [W("sequential", FALSE, 1, TRUE, FALSE, Types("forEach", "task", "task"))
              EXCEPT !.items = FALSE],
           W("parallel", FALSE, 1, TRUE, FALSE, Types("sequence", "task", "task"))}}
SequentialOnly == {W("sequential", FALSE, 1, FALSE, FALSE, Types("sequence", "task", "task"))}
ParallelOnly == {W("parallel", FALSE, 1, FALSE, FALSE, Types("unsupported", "task", "task"))}
=============================================================================
