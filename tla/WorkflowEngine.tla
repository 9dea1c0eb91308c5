--------------------------- MODULE WorkflowEngine ---------------------------
(***************************************************************************)
(* One execution of a workflow by the workflow engine and its runner       *)
(* (agents/workflow/workflow-engine.ts, workflow-runner.ts).  The call of  *)
(* execute and every call of resume is a process walking the root steps    *)
(* and the steps nested in them; pause, cancel, the global timeout, the    *)
(* removal of the workflow from the registry and its registration again    *)
(* happen between its awaits.  A task completes; a step of a type the      *)
(* engine does not support ends FAILED.  Steps have ids of their own (the  *)
(* registry lets steps of different parents share one).                    *)
(***************************************************************************)
EXTENDS Naturals, Sequences, FiniteSets, SequencesExt

CONSTANTS
    Steps,          \* numbers; Root is not one of them
    Roots,          \* the root steps, in order
    Children,       \* the steps nested in each, in order
    Branches,       \* those of a conditional that are of its branch "then" and "else"
    MaxIterations,  \* of each loop
    Resumes,        \* calls of resume
    MaxRegistrations,   \* a bound: how often the workflow is registered
    Workflows       \* what the workflow may be: its mode and policies, each step's type, ...

Root == 0
Nodes == {Root} \cup Steps
LoopTypes == {"while", "for", "forEach"}
StepTypes == {"task", "sequence", "parallel", "conditional", "unsupported"} \cup LoopTypes
\* ... do its loops break on an error, has a forEach a collection with items, and
\* which calls of resume are made?
Workflow == [mode : {"sequential", "parallel", "mixed"}, continueOnError : BOOLEAN,
             maxFailures : Nat, compensationRequired : BOOLEAN, enableGlobalTimeout : BOOLEAN,
             type : [Steps -> StepTypes], breakOnError : BOOLEAN, items : BOOLEAN,
             resumes : SUBSET Resumes]

ASSUME WorkflowAssumption ==
    /\ Steps \subseteq Nat \ {Root}
    /\ Roots \in Seq(Steps)
    /\ Children \in [Steps -> Seq(Steps)]
    /\ Branches \in [Steps -> [{"then", "else"} -> Seq(Steps)]]
    /\ \A s \in Steps : \A b \in {"then", "else"} : ToSet(Branches[s][b]) \subseteq ToSet(Children[s])
    /\ MaxIterations \in [Steps -> Nat \ {0}]
    /\ Workflows \subseteq Workflow
    /\ MaxRegistrations \in Nat
    /\ "execute" \notin Resumes

\* No root step shares its id with a nested step.
ASSUME NestingAssumption == \A s \in Steps : ToSet(Children[s]) \cap ToSet(Roots) = {}

Runners == {"execute"} \cup Resumes

VARIABLES
    workflow,
    registered,         \* is the workflow in the workflow registry?
    registrations,      \* how often it was registered
    state,              \* execution.state, "NONE" before execute
    runner,             \* the progress of each call of execute and resume
    frame,              \* per call, what it runs of the root steps and of each step's own
    loopIteration,      \* execution.context.variables.loopIteration
    completedSteps,     \* execution.completedSteps
    failedSteps,        \* execution.failedSteps, as a set
    failureCount,       \* execution.failureCount
    compensatedSteps,   \* execution.compensatedSteps
    timer               \* the global timeout: "off", "armed" or "fired"

progress == <<completedSteps, failedSteps, failureCount>>
vars == <<workflow, registered, registrations, state, runner, frame, loopIteration, progress, compensatedSteps,
          timer>>

NotStarted == [at |-> "idle", undo |-> <<>>]
\* at: where the run of these steps is.  body: the steps.  next: the one a sequential
\* run is executing.  pending: those a parallel run awaits.  rejected: one of them threw.
NoFrame == [at |-> "none", body |-> <<>>, next |-> 0, pending |-> {}, rejected |-> FALSE,
            iterations |-> 0]

-----------------------------------------------------------------------------
(* The runner.                                                             *)

ShouldContinueOnFailure(failures) ==
    /\ workflow.continueOnError
    /\ workflow.maxFailures > 0 => failures < workflow.maxFailures

\* The head of runSequential's loop for step i, with the execution in state st:
\* cancellation throws, a pause leaves the loop, otherwise executeStep looks the
\* workflow up.
LoopHead(f, i, st) ==
    IF i > Len(f.body) THEN [f EXCEPT !.at = "ended"]
    ELSE CASE st = "CANCELLED" -> [f EXCEPT !.at = "throwing"]
           [] st = "PAUSED"    -> [f EXCEPT !.at = "ended"]
           [] OTHER            -> [f EXCEPT !.at = IF registered THEN "step" ELSE "missing",
                                            !.next = i]

RunSequential(f, steps, st) == LoopHead([f EXCEPT !.body = steps], 1, st)

\* runParallel starts every step (with the workflow gone, each is about to
\* throw) unless the execution is cancelled, when every promise rejects at once.
RunParallel(steps, st) ==
    IF st = "CANCELLED"
    THEN [NoFrame EXCEPT !.at = "spread", !.rejected = TRUE]
    ELSE [NoFrame EXCEPT !.at = IF registered THEN "spread" ELSE "lost", !.pending = ToSet(steps)]

\* runConditional: the condition may be any expression.
RunConditional(s, st) ==
    {RunSequential(NoFrame, Branches[s][b], st) : b \in {"then", "else"}}

\* executeWorkflowSteps: mixed mode runs sequentially.
ExecuteWorkflowSteps(r, st) ==
    frame' = [frame EXCEPT ![r][Root] = IF workflow.mode = "parallel" THEN RunParallel(Roots, st)
                                        ELSE RunSequential(NoFrame, Roots, st)]

IsLoop(s) == workflow.type[s] \in LoopTypes
HasBody(s) == workflow.type[s] \notin {"task", "unsupported"} /\ Children[s] # <<>>

Executing(r, s) ==
    \E n \in Nodes : IF frame[r][n].at = "step" THEN frame[r][n].body[frame[r][n].next] = s
                     ELSE frame[r][n].at = "spread" /\ s \in frame[r][n].pending

\* executeStep of a step with steps of its own.
ExecuteStep(r, s) ==
    /\ HasBody(s)
    /\ Executing(r, s)
    /\ frame[r][s] = NoFrame
    /\ \E f \in CASE workflow.type[s] = "sequence" -> {RunSequential(NoFrame, Children[s], state)}
                  [] workflow.type[s] = "parallel" -> {RunParallel(Children[s], state)}
                  [] workflow.type[s] = "conditional" -> RunConditional(s, state)
                  [] OTHER -> {[NoFrame EXCEPT !.at = "testing"]} :
         frame' = [frame EXCEPT ![r][s] = f]
    /\ UNCHANGED <<workflow, registered, registrations, state, runner, loopIteration, progress, compensatedSteps,
                   timer>>

\* How executeStep ends: what its steps' run throws makes the step FAILED.
StepState(r, s) ==
    LET at == frame[r][s].at
        completed == at = "completed" \/ (at = "ended" /\ ~IsLoop(s))
        threw == at = "failed" \/ (at = "throwing" /\ ~IsLoop(s))
    IN  CASE workflow.type[s] = "unsupported" \/ (HasBody(s) /\ threw) -> "FAILED"
          [] workflow.type[s] = "task" \/ (HasBody(s) /\ completed) -> "COMPLETED"
          [] workflow.type[s] \notin {"task", "unsupported"} /\ Children[s] = <<>> -> "COMPLETED"
          [] OTHER -> "RUNNING"

\* The step a sequential run is executing, and the run when it is over.
Current(r, n) == frame[r][n].body[frame[r][n].next]
Settles(r, n, s, f) == frame' = [frame EXCEPT ![r][n] = f, ![r][s] = NoFrame]

StepCompletes(r, n) ==
    LET f == frame[r][n]
    IN  /\ f.at = "step"
        /\ StepState(r, Current(r, n)) = "COMPLETED"
        /\ completedSteps' = Append(completedSteps, Current(r, n))
        /\ Settles(r, n, Current(r, n), LoopHead(f, f.next + 1, state))
        /\ UNCHANGED <<workflow, registered, registrations, state, runner, loopIteration, failedSteps,
                       failureCount, compensatedSteps, timer>>

\* Mutant: the failure policy is not consulted.
Proceed_Always(f, goOn) == LoopHead(f, f.next + 1, state)

Proceed(f, goOn) ==
    IF goOn THEN LoopHead(f, f.next + 1, state) ELSE [f EXCEPT !.at = "throwing"]

\* The step ended FAILED.  When the policy says stop, the exception thrown for it
\* is caught by the handler around it, which counts the failure again.
StepFails(r, n) ==
    LET goOn == ShouldContinueOnFailure(failureCount + 1)
    IN  /\ frame[r][n].at = "step"
        /\ StepState(r, Current(r, n)) = "FAILED"
        /\ failedSteps' = failedSteps \cup {Current(r, n)}
        /\ failureCount' = failureCount + (IF goOn THEN 1 ELSE 2)
        /\ Settles(r, n, Current(r, n), Proceed(frame[r][n], goOn))
        /\ UNCHANGED <<workflow, registered, registrations, state, runner, loopIteration, completedSteps,
                       compensatedSteps, timer>>

\* executeStep threw: the workflow was not in the registry.
StepThrows(r, n) ==
    /\ frame[r][n].at = "missing"
    /\ failedSteps' = failedSteps \cup {Current(r, n)}
    /\ failureCount' = failureCount + 1
    /\ frame' = [frame EXCEPT ![r][n] = Proceed(@, ShouldContinueOnFailure(failureCount + 1))]
    /\ UNCHANGED <<workflow, registered, registrations, state, runner, loopIteration, completedSteps,
                   compensatedSteps, timer>>

\* One step of a parallel run settles.  A step that ended FAILED does not reject
\* its promise.
ParallelStepSettles(r, n, s) ==
    LET f == frame[r][n]
    IN  /\ f.at = "spread"
        /\ s \in f.pending
        /\ \/ /\ StepState(r, s) = "COMPLETED"
              /\ completedSteps' = Append(completedSteps, s)
              /\ UNCHANGED <<failedSteps, failureCount>>
           \/ /\ StepState(r, s) = "FAILED"
              /\ failedSteps' = failedSteps \cup {s}
              /\ failureCount' = failureCount + 1
              /\ UNCHANGED completedSteps
        /\ Settles(r, n, s, [f EXCEPT !.pending = @ \ {s}])
        /\ UNCHANGED <<workflow, registered, registrations, state, runner, loopIteration, compensatedSteps, timer>>

\* executeStep threw for every step: the workflow was not in the registry.
ParallelStepsThrow(r, n) ==
    /\ frame[r][n].at = "lost"
    /\ failedSteps' = failedSteps \cup frame[r][n].pending
    /\ failureCount' = failureCount + Cardinality(frame[r][n].pending)
    /\ frame' = [frame EXCEPT ![r][n] = [@ EXCEPT !.at = "spread", !.pending = {}, !.rejected = TRUE]]
    /\ UNCHANGED <<workflow, registered, registrations, state, runner, loopIteration, completedSteps,
                   compensatedSteps, timer>>

ParallelEnds(r, n) ==
    /\ frame[r][n].at = "spread"
    /\ frame[r][n].pending = {}
    /\ frame' = [frame EXCEPT
                   ![r][n].at = IF frame[r][n].rejected /\ ~ShouldContinueOnFailure(failureCount)
                                THEN "throwing" ELSE "ended"]
    /\ UNCHANGED <<workflow, registered, registrations, state, runner, loopIteration, progress, compensatedSteps,
                   timer>>

\* What evaluateLoopCondition may say.  The variable of a "for" is the iteration
\* before, of whichever loop ran last; a forEach never gets to the next item.
EvaluateLoopCondition(s) ==
    CASE workflow.type[s] = "while" -> BOOLEAN
      [] workflow.type[s] = "for" -> {loopIteration < MaxIterations[s]}
      [] workflow.type[s] = "forEach" -> {workflow.items}

\* The head of runLoop: a loop that has used up its iterations fails, also one that
\* was about to end.
RunLoop(r, s) ==
    LET f == frame[r][s]
    IN  /\ f.at = "testing"
        /\ IF f.iterations >= MaxIterations[s] \/ state = "CANCELLED"
           THEN frame' = [frame EXCEPT ![r][s].at = "failed"] /\ UNCHANGED loopIteration
           ELSE \E goesOn \in EvaluateLoopCondition(s) :
                  /\ frame' = [frame EXCEPT ![r][s] =
                                 IF goesOn THEN RunSequential(f, Children[s], state)
                                 ELSE [f EXCEPT !.at = "completed"]]
                  /\ loopIteration' = IF goesOn THEN f.iterations ELSE loopIteration
        /\ UNCHANGED <<workflow, registered, registrations, state, runner, progress, compensatedSteps, timer>>

\* Mutant: an iteration that fails is not counted.
LoopBodyEnds_Forget(r, s) ==
    /\ IsLoop(s)
    /\ frame[r][s].at \in {"ended", "throwing"}
    /\ frame' = [frame EXCEPT ![r][s] = [@ EXCEPT !.at = "testing"]]
    /\ UNCHANGED <<workflow, registered, registrations, state, runner, loopIteration, progress, compensatedSteps,
                   timer>>

\* The body was run, or left because of a pause: an iteration either way.  One that
\* threw counts as well unless the loop breaks on errors.
LoopBodyEnds(r, s) ==
    LET f == frame[r][s]
    IN  /\ IsLoop(s)
        /\ f.at \in {"ended", "throwing"}
        /\ frame' = [frame EXCEPT ![r][s] =
                       IF f.at = "throwing" /\ workflow.breakOnError
                       THEN [f EXCEPT !.at = "failed"]
                       ELSE [f EXCEPT !.at = "testing", !.iterations = f.iterations + 1]]
        /\ failureCount' = IF f.at = "throwing" /\ ~workflow.breakOnError
                           THEN failureCount + 1 ELSE failureCount
        /\ UNCHANGED <<workflow, registered, registrations, state, runner, loopIteration, completedSteps,
                       failedSteps, compensatedSteps, timer>>

-----------------------------------------------------------------------------
(* The engine's operations.                                                *)

\* execute(workflowId) up to its await of registry.find, which found the workflow.
Execute ==
    /\ runner["execute"].at = "idle"
    /\ registered
    /\ runner' = [runner EXCEPT !["execute"].at = "find"]
    /\ UNCHANGED <<workflow, registered, registrations, state, frame, loopIteration, progress, compensatedSteps,
                   timer>>

\* With the definition found, though it may be gone by now, the execution is
\* stored RUNNING, the timeout armed, and the steps started.
ExecuteRuns ==
    /\ runner["execute"].at = "find"
    /\ state' = "RUNNING"
    /\ timer' = IF workflow.enableGlobalTimeout THEN "armed" ELSE "off"
    /\ runner' = [runner EXCEPT !["execute"].at = "running"]
    /\ ExecuteWorkflowSteps("execute", "RUNNING")
    /\ UNCHANGED <<workflow, registered, registrations, loopIteration, progress, compensatedSteps>>

StepsEnded(r) == runner[r].at = "running" /\ frame[r][Root].at = "ended"
StepsThrew(r) == runner[r].at = "running" /\ frame[r][Root].at = "throwing"

\* Mutant: the final state is written without looking at the present one.
FinalState_Always == "COMPLETED"

FinalState == IF state = "RUNNING" THEN "COMPLETED" ELSE state

\* The rest of execute once the steps returned.
ExecuteReturns ==
    /\ StepsEnded("execute")
    /\ state' = FinalState
    /\ timer' = IF timer = "armed" THEN "off" ELSE timer
    /\ runner' = [runner EXCEPT !["execute"].at = "done"]
    /\ UNCHANGED <<workflow, registered, registrations, frame, loopIteration, progress, compensatedSteps>>

\* Mutant: compensation in the order of execution.
Undo_InOrder == completedSteps

\* runCompensation's own copy of the completed steps.
Undo == Reverse(completedSteps)

\* Its catch block: FAILED over any state, the timer left armed.
ExecuteCatches ==
    /\ StepsThrew("execute")
    /\ state' = "FAILED"
    /\ runner' = [runner EXCEPT !["execute"] = IF workflow.compensationRequired
                                               THEN [at |-> "compensating", undo |-> Undo]
                                               ELSE [at |-> "done", undo |-> <<>>]]
    /\ UNCHANGED <<workflow, registered, registrations, frame, loopIteration, progress, compensatedSteps, timer>>

CompensateStep ==
    LET undo == runner["execute"].undo
    IN  /\ runner["execute"].at = "compensating"
        /\ IF undo = <<>>
           THEN /\ runner' = [runner EXCEPT !["execute"].at = "done"]
                /\ UNCHANGED compensatedSteps
           ELSE /\ runner' = [runner EXCEPT !["execute"].undo = Tail(undo)]
                /\ compensatedSteps' = Append(compensatedSteps, Head(undo))
        /\ UNCHANGED <<workflow, registered, registrations, state, frame, loopIteration, progress, timer>>

Cancel ==
    /\ state \in {"RUNNING", "PAUSED"}
    /\ state' = "CANCELLED"
    /\ UNCHANGED <<workflow, registered, registrations, runner, frame, loopIteration, progress, compensatedSteps,
                   timer>>

Pause ==
    /\ state = "RUNNING"
    /\ state' = "PAUSED"
    /\ UNCHANGED <<workflow, registered, registrations, runner, frame, loopIteration, progress, compensatedSteps,
                   timer>>

\* resume up to its await of registry.find; it is over when nothing was found.
Resume(r) ==
    /\ r \in workflow.resumes
    /\ runner[r].at = "idle"
    /\ state = "PAUSED"
    /\ state' = "RUNNING"
    /\ runner' = [runner EXCEPT ![r].at = IF registered THEN "find" ELSE "done"]
    /\ UNCHANGED <<workflow, registered, registrations, frame, loopIteration, progress, compensatedSteps, timer>>

\* It runs all root steps from the first one.
ResumeRuns(r) ==
    /\ r \in Resumes
    /\ runner[r].at = "find"
    /\ runner' = [runner EXCEPT ![r].at = "running"]
    /\ ExecuteWorkflowSteps(r, state)
    /\ UNCHANGED <<workflow, registered, registrations, state, loopIteration, progress, compensatedSteps, timer>>

\* Nothing marks the execution COMPLETED when a resumed run has ended; when it
\* threw, the execution is FAILED and nothing is compensated.
ResumeReturns(r) ==
    /\ r \in Resumes
    /\ StepsEnded(r) \/ StepsThrew(r)
    /\ state' = IF StepsThrew(r) THEN "FAILED" ELSE state
    /\ runner' = [runner EXCEPT ![r].at = "done"]
    /\ UNCHANGED <<workflow, registered, registrations, frame, loopIteration, progress, compensatedSteps, timer>>

\* The global timeout: the state is written, the runners are not stopped.
TimeoutFires ==
    /\ timer = "armed"
    /\ timer' = "fired"
    /\ state' = "FAILED"
    /\ UNCHANGED <<workflow, registered, registrations, runner, frame, loopIteration, progress, compensatedSteps>>

-----------------------------------------------------------------------------
(* The registry.                                                           *)

\* A policy that tolerates no failure and does not go on is refused.
ValidateFailurePolicy == workflow.maxFailures > 0 \/ workflow.continueOnError

ValidateWorkflowStructure == Roots # <<>> /\ ValidateFailurePolicy

\* registry.register(workflow) of this definition
RegisterWorkflow ==
    /\ ~registered
    /\ ValidateWorkflowStructure
    /\ registrations < MaxRegistrations
    /\ registrations' = registrations + 1
    /\ registered' = TRUE
    /\ UNCHANGED <<workflow, state, runner, frame, loopIteration, progress, compensatedSteps, timer>>

\* registry.remove(workflowId)
RemoveWorkflow ==
    /\ registered
    /\ registered' = FALSE
    /\ UNCHANGED <<workflow, registrations, state, runner, frame, loopIteration, progress, compensatedSteps, timer>>

-----------------------------------------------------------------------------
Init ==
    /\ workflow \in Workflows
    /\ registered = FALSE
    /\ registrations = 0
    /\ state = "NONE"
    /\ runner = [r \in Runners |-> NotStarted]
    /\ frame = [r \in Runners |-> [n \in Nodes |-> NoFrame]]
    /\ loopIteration = 0
    /\ completedSteps = <<>>
    /\ failedSteps = {}
    /\ failureCount = 0
    /\ compensatedSteps = <<>>
    /\ timer = "off"

\* The promises of a run in progress.
Advance(r) ==
    \/ \E n \in Nodes :
         \/ StepCompletes(r, n) \/ StepFails(r, n) \/ StepThrows(r, n)
         \/ \E s \in Steps : ParallelStepSettles(r, n, s)
         \/ ParallelStepsThrow(r, n) \/ ParallelEnds(r, n)
    \/ \E s \in Steps : ExecuteStep(r, s) \/ RunLoop(r, s) \/ LoopBodyEnds(r, s)
    \/ ResumeRuns(r) \/ ResumeReturns(r)

ExecuteAdvances == ExecuteRuns \/ ExecuteReturns \/ ExecuteCatches \/ CompensateStep

Next ==
    \/ Execute \/ ExecuteAdvances
    \/ \E r \in Runners : Advance(r)
    \/ \E r \in Resumes : Resume(r)
    \/ Cancel \/ Pause \/ TimeoutFires \/ RegisterWorkflow \/ RemoveWorkflow

Spec == Init /\ [][Next]_vars

\* A step's promise settles, and the event loop runs what was waiting for it.
FairSpec == Spec /\ (\A r \in Runners : WF_vars(Advance(r))) /\ WF_vars(ExecuteAdvances)

-----------------------------------------------------------------------------
(* Properties.                                                             *)

NeverResumed == \A r \in Resumes : runner[r].at = "idle"

\* Ended executions stay ended.  Late writes of the timeout, of execute and of
\* resumed runs may still turn COMPLETED or CANCELLED into FAILED, but nothing
\* revives an execution and nothing undoes FAILED.
EndedStaysEnded ==
    [][/\ state = "FAILED" => state' = "FAILED"
       /\ state \in {"COMPLETED", "CANCELLED"} => state' \in {state, "FAILED"}]_vars

\* In the sequential modes a failed root step that the policy does not tolerate
\* ends the execution as FAILED: no pause, resume, cancellation or timeout around
\* it lets the execution end otherwise.  (What fails within a step may be lost: in
\* a parallel step, or in a loop that does not break on errors.)
FailureSurfaces ==
    workflow.mode # "parallel" /\ ~workflow.continueOnError /\ failedSteps \cap ToSet(Roots) # {} =>
       state = "FAILED" \/ \E r \in Runners : StepsThrew(r)

\* An execution that was never resumed is COMPLETED only after every root step was
\* carried out, and every step of the sequences and parallel steps that completed:
\* none is skipped by a pause, a cancellation or a race.
CompletedRanEverything ==
    state = "COMPLETED" /\ NeverResumed =>
       LET carriedOut == ToSet(completedSteps) \cup failedSteps
       IN  /\ ToSet(Roots) \subseteq carriedOut
           /\ \A s \in ToSet(completedSteps) :
                workflow.type[s] \in {"sequence", "parallel"} => ToSet(Children[s]) \subseteq carriedOut

\* When execute has failed and compensation is required, exactly the completed
\* steps have been compensated, nested ones too, each as often as it was completed
\* and in reverse order of completion (for executions that were never resumed).
CompensationUndoesAll ==
    /\ runner["execute"].at = "done"
    /\ workflow.compensationRequired
    /\ state = "FAILED" /\ timer # "fired"
    /\ NeverResumed
    => compensatedSteps = Reverse(completedSteps)

\* The promise execute returned settles, whatever is paused, cancelled or timed
\* out meanwhile: no loop goes on for ever.
ExecuteSettles == runner["execute"].at # "idle" ~> runner["execute"].at = "done"

\* "Continue execution from where it left off": a resumed execution does not run
\* steps again that it has completed.
NoStepRepeated == \A i, j \in DOMAIN completedSteps :
                     completedSteps[i] = completedSteps[j] => i = j

\* "Check if any step failed and we should fail fast": a parallel run with a
\* failed step and no tolerance for failures does not complete.
ParallelFailFast ==
    workflow.mode = "parallel" /\ ~workflow.continueOnError /\ failedSteps # {}
       => state # "COMPLETED"
=============================================================================
