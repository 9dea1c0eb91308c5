------------------------ MODULE WorkflowEngineProofs ------------------------
(* Theorems about one execution of a workflow, for any workflow, policies    *)
(* and number of resumes.                                                    *)
EXTENDS WorkflowEngine, SequenceTheorems, TLAPS

\* The record is stored by execute, and only then can it be resumed or time out.
RecordFirst ==
    /\ DOMAIN runner = Runners
    /\ \A r \in Runners : DOMAIN runner[r] = {"at", "undo"}
    /\ state = "NONE" <=> runner["execute"].at \in {"idle", "find"}
    /\ timer = "armed" => state # "NONE"
    /\ \A r \in Resumes : runner[r].at # "idle" => state # "NONE"

\* What the steps of a run may write: neither the record nor the calls.
Walks ==
    \/ \E r \in Runners : \E n \in Nodes :
         \/ StepCompletes(r, n) \/ StepFails(r, n) \/ StepThrows(r, n)
         \/ \E s \in Steps : ParallelStepSettles(r, n, s)
         \/ ParallelStepsThrow(r, n) \/ ParallelEnds(r, n)
    \/ \E r \in Runners : \E s \in Steps : ExecuteStep(r, s) \/ RunLoop(r, s) \/ LoopBodyEnds(r, s)

ResumeGoesOn == \E r \in Runners : ResumeRuns(r) \/ ResumeReturns(r) \/ (r \in Resumes /\ Resume(r))

RegistryChanges == RegisterWorkflow \/ RemoveWorkflow

LEMMA Split ==
    ASSUME Next
    PROVE  \/ Execute \/ ExecuteRuns \/ ExecuteReturns \/ ExecuteCatches \/ CompensateStep
           \/ Walks \/ ResumeGoesOn \/ Cancel \/ Pause \/ TimeoutFires \/ RegistryChanges
  <1>1. ASSUME NEW r \in Runners, Advance(r) PROVE Walks \/ ResumeGoesOn
    BY <1>1 DEF Advance, Walks, ResumeGoesOn
  <1>2. ASSUME NEW r \in Resumes, Resume(r) PROVE ResumeGoesOn
    BY <1>2 DEF ResumeGoesOn, Runners
  <1> QED BY <1>1, <1>2 DEF Next, ExecuteAdvances, RegistryChanges

LEMMA WalksWriteNoState ==
    ASSUME Walks
    PROVE  UNCHANGED <<workflow, state, runner, timer>>
  <1>1. ASSUME NEW r \in Runners, NEW n \in Nodes,
               StepCompletes(r, n) \/ StepFails(r, n) \/ StepThrows(r, n)
                 \/ ParallelStepsThrow(r, n) \/ ParallelEnds(r, n)
        PROVE  UNCHANGED <<workflow, state, runner, timer>>
    BY <1>1 DEF StepCompletes, StepFails, StepThrows, ParallelStepsThrow, ParallelEnds
  <1>2. ASSUME NEW r \in Runners, NEW n \in Nodes, NEW s \in Steps, ParallelStepSettles(r, n, s)
        PROVE  UNCHANGED <<workflow, state, runner, timer>>
    BY <1>2 DEF ParallelStepSettles
  <1>3. ASSUME NEW r \in Runners, NEW s \in Steps,
               ExecuteStep(r, s) \/ RunLoop(r, s) \/ LoopBodyEnds(r, s)
        PROVE  UNCHANGED <<workflow, state, runner, timer>>
    BY <1>3 DEF ExecuteStep, RunLoop, LoopBodyEnds
  <1> QED BY <1>1, <1>2, <1>3, Zenon DEF Walks

LEMMA InitRecord == Init => RecordFirst
  BY DEF Init, RecordFirst, NotStarted, Runners

\* RecordFirst and EndedStaysEnded's two conjuncts, per step.
LEMMA RecordStep ==
    ASSUME RecordFirst, [Next]_vars
    PROVE  /\ RecordFirst'
           /\ state = "FAILED" => state' = "FAILED"
           /\ state \in {"COMPLETED", "CANCELLED"} => state' \in {state, "FAILED"}
  <1> DEFINE Ended == /\ state = "FAILED" => state' = "FAILED"
                      /\ state \in {"COMPLETED", "CANCELLED"} => state' \in {state, "FAILED"}
  <1> SUFFICES RecordFirst' /\ Ended
    OBVIOUS
  <1>0. "execute" \in Runners /\ Resumes \subseteq Runners /\ "execute" \notin Resumes
    BY WorkflowAssumption DEF Runners
  <1>1. CASE Execute
    BY <1>0, <1>1 DEF Execute, RecordFirst
  <1>2. CASE ExecuteRuns
    BY <1>0, <1>2 DEF ExecuteRuns, RecordFirst
  <1>3. CASE ExecuteReturns
    BY <1>0, <1>3 DEF ExecuteReturns, RecordFirst, StepsEnded, FinalState
  <1>4. CASE ExecuteCatches
    BY <1>0, <1>4 DEF ExecuteCatches, RecordFirst, StepsThrew
  <1>5. CASE CompensateStep
    BY <1>0, <1>5 DEF CompensateStep, RecordFirst
  <1>6. CASE Walks
    BY <1>6, WalksWriteNoState DEF RecordFirst
  <1>7. CASE ResumeGoesOn
    <2> PICK r \in Runners : ResumeRuns(r) \/ ResumeReturns(r) \/ (r \in Resumes /\ Resume(r))
      BY <1>7 DEF ResumeGoesOn
    <2>1. CASE ResumeRuns(r)
      BY <1>0, <2>1 DEF ResumeRuns, RecordFirst
    <2>2. CASE ResumeReturns(r)
      BY <1>0, <2>2 DEF ResumeReturns, RecordFirst, StepsEnded, StepsThrew
    <2>3. CASE r \in Resumes /\ Resume(r)
      BY <1>0, <2>3 DEF Resume, RecordFirst
    <2> QED BY <2>1, <2>2, <2>3
  <1>8. CASE Cancel
    BY <1>8 DEF Cancel, RecordFirst
  <1>9. CASE Pause
    BY <1>9 DEF Pause, RecordFirst
  <1>10. CASE TimeoutFires
    BY <1>10 DEF TimeoutFires, RecordFirst
  <1>11. CASE RegistryChanges
    BY <1>11 DEF RegistryChanges, RegisterWorkflow, RemoveWorkflow, RecordFirst
  <1>12. CASE UNCHANGED vars
    BY <1>12 DEF vars, RecordFirst
  <1> QED
    BY <1>1, <1>2, <1>3, <1>4, <1>5, <1>6, <1>7, <1>8, <1>9, <1>10, <1>11, <1>12, Split

LEMMA RecordInvariant == Spec => []RecordFirst
  <1>1. RecordFirst /\ [Next]_vars => RecordFirst'
    BY RecordStep
  <1> QED BY <1>1, InitRecord, PTL DEF Spec

\* No write of cancel, pause, resume, execute or the timer, in any order, revives
\* an execution that has ended or undoes FAILED.
THEOREM StaysEnded == Spec => EndedStaysEnded
  <1>1. RecordFirst /\ [Next]_vars =>
          [/\ state = "FAILED" => state' = "FAILED"
           /\ state \in {"COMPLETED", "CANCELLED"} => state' \in {state, "FAILED"}]_vars
    BY RecordStep
  <1> QED BY <1>1, RecordInvariant, PTL DEF Spec, EndedStaysEnded

-----------------------------------------------------------------------------
(* Failures of root steps surface.                                         *)

Frames == [at : {"none", "step", "missing", "ended", "throwing", "spread", "lost", "testing",
                 "completed", "failed"},
           body : Seq(Steps), next : Nat, pending : SUBSET Steps, rejected : BOOLEAN,
           iterations : Nat]

Within(f) == f.at \in {"step", "missing"} => f.next \in 1..Len(f.body)

\* The steps of a nested run are no root steps.
Apart(f) == ToSet(f.body) \cap ToSet(Roots) = {} /\ f.pending \cap ToSet(Roots) = {}

\* The run of the root steps goes on while its call does, and is no parallel one in
\* the other modes.
RootSound(r, f) ==
    /\ f.at \in {"step", "missing"} => runner[r].at = "running"
    /\ workflow.mode # "parallel" => f.at \notin {"spread", "lost"}

Sound(r, n, f) ==
    /\ f \in Frames
    /\ Within(f)
    /\ IF n = Root THEN RootSound(r, f) ELSE Apart(f)

FramesSound ==
    /\ frame \in [Runners -> [Nodes -> Frames]]
    /\ \A r \in Runners : \A n \in Nodes : Sound(r, n, frame[r][n])

RootFailed == failedSteps \cap ToSet(Roots) # {}

\* What a step of a run does to the frames ...
FramesMove ==
    /\ frame' \in [Runners -> [Nodes -> Frames]]
    /\ \A q \in Runners : \A m \in Nodes : Sound(q, m, frame'[q][m])
    /\ \A q \in Runners : frame[q][Root].at = "throwing" => frame'[q][Root].at = "throwing"

\* ... and when a root step fails that should not.
FailureMoves ==
    workflow.mode # "parallel" /\ ~workflow.continueOnError /\ RootFailed' =>
       RootFailed \/ \E q \in Runners : frame'[q][Root].at = "throwing" /\ runner[q].at = "running"

LEMMA Ids ==
    /\ Root \in Nodes /\ Steps \subseteq Nodes /\ Root \notin Steps
    /\ ToSet(<<>>) = {}
    /\ \A t \in Seq(Steps) : ToSet(t) \subseteq Steps
  BY WorkflowAssumption DEF Root, Nodes, ToSet

LEMMA NoFrameSound ==
    /\ NoFrame \in Frames /\ Within(NoFrame) /\ Apart(NoFrame)
    /\ \A r \in Runners : \A n \in Nodes : Sound(r, n, NoFrame)
  <1>1. NoFrame \in Frames
    BY DEF NoFrame, Frames
  <1>2. Within(NoFrame) /\ Apart(NoFrame) /\ \A r \in Runners : RootSound(r, NoFrame)
    BY Ids DEF Within, Apart, NoFrame, RootSound
  <1> QED BY <1>1, <1>2 DEF Sound

LEMMA LoopHeadSound ==
    ASSUME NEW f \in Frames, NEW i \in Nat \ {0}, NEW st
    PROVE  LET g == LoopHead(f, i, st)
           IN  /\ g \in Frames /\ Within(g)
               /\ g.body = f.body /\ g.pending = f.pending
               /\ g.at \in {"step", "missing", "ended", "throwing"}
  <1> i \in Nat /\ i >= 1 /\ Len(f.body) \in Nat
    BY DEF Frames
  <1>1. CASE i > Len(f.body)
    BY <1>1 DEF LoopHead, Frames, Within
  <1>2. CASE ~(i > Len(f.body)) /\ st = "CANCELLED"
    BY <1>2 DEF LoopHead, Frames, Within
  <1>3. CASE ~(i > Len(f.body)) /\ st = "PAUSED"
    BY <1>3 DEF LoopHead, Frames, Within
  <1>4. CASE ~(i > Len(f.body)) /\ st # "CANCELLED" /\ st # "PAUSED"
    <2>1. LoopHead(f, i, st) = [f EXCEPT !.at = IF registered THEN "step" ELSE "missing", !.next = i]
      BY <1>4 DEF LoopHead
    <2>2. i \in 1..Len(f.body)
      BY <1>4
    <2> QED BY <2>1, <2>2 DEF Frames, Within
  <1> QED BY <1>1, <1>2, <1>3, <1>4

LEMMA RunSequentialSound ==
    ASSUME NEW f \in Frames, NEW steps \in Seq(Steps), NEW st
    PROVE  LET g == RunSequential(f, steps, st)
           IN  /\ g \in Frames /\ Within(g)
               /\ g.body = steps /\ g.pending = f.pending
               /\ g.at \in {"step", "missing", "ended", "throwing"}
  <1> DEFINE h == [f EXCEPT !.body = steps]
  <1>1. h \in Frames /\ h.body = steps /\ h.pending = f.pending
    BY DEF Frames
  <1> HIDE DEF h
  <1>2. RunSequential(f, steps, st) = LoopHead(h, 1, st)
    BY DEF RunSequential, h
  <1> QED BY <1>1, <1>2, LoopHeadSound

LEMMA RunParallelSound ==
    ASSUME NEW steps \in Seq(Steps), NEW st
    PROVE  LET g == RunParallel(steps, st)
           IN  /\ g \in Frames /\ Within(g)
               /\ g.body = <<>> /\ g.pending \subseteq ToSet(steps)
               /\ g.at \in {"spread", "lost"}
  <1>1. ToSet(steps) \subseteq Steps
    BY Ids
  <1> DEFINE f == NoFrame
             g == RunParallel(steps, st)
  <1>2. f \in Frames /\ f.body = <<>> /\ f.pending = {}
    BY NoFrameSound DEF NoFrame
  <1>3. \/ g = [f EXCEPT !.at = "spread", !.rejected = TRUE]
        \/ g = [f EXCEPT !.at = "spread", !.pending = ToSet(steps)]
        \/ g = [f EXCEPT !.at = "lost", !.pending = ToSet(steps)]
    BY DEF RunParallel
  <1> HIDE DEF f, g
  <1>4. g \in Frames /\ g.body = <<>> /\ g.pending \subseteq ToSet(steps) /\ g.at \in {"spread", "lost"}
    BY <1>1, <1>2, <1>3 DEF Frames
  <1> QED BY <1>4 DEF g, Within

\* One frame is replaced by a sound one; a root run that was throwing still is.
LEMMA OneMoves ==
    ASSUME FramesSound, NEW r \in Runners, NEW n \in Nodes, NEW f, Sound(r, n, f),
           n = Root /\ frame[r][n].at = "throwing" => f.at = "throwing",
           frame' = [frame EXCEPT ![r][n] = f]
    PROVE  FramesMove /\ frame'[r][n] = f
  <1>1. f \in Frames
    BY DEF Sound
  <1>2. frame' \in [Runners -> [Nodes -> Frames]] /\ frame'[r][n] = f
    BY <1>1 DEF FramesSound
  <1>3. ASSUME NEW q \in Runners, NEW m \in Nodes, ~(q = r /\ m = n)
        PROVE  frame'[q][m] = frame[q][m]
    BY <1>3 DEF FramesSound
  <1> QED BY <1>2, <1>3, Ids DEF FramesSound, FramesMove

\* So it is when the frame of a step that settled is dropped as well.
LEMMA TwoMove ==
    ASSUME FramesSound, NEW r \in Runners, NEW n \in Nodes, NEW s \in Steps, NEW f, Sound(r, n, f),
           n = Root /\ frame[r][n].at = "throwing" => f.at = "throwing",
           Settles(r, n, s, f)
    PROVE  FramesMove /\ (n = Root => frame'[r][n] = f)
  <1>1. f \in Frames /\ s \in Nodes /\ s # Root
    BY Ids DEF Sound
  <1>2. frame' = [[frame EXCEPT ![r][n] = f] EXCEPT ![r][s] = NoFrame]
    BY <1>1 DEF Settles, FramesSound
  <1>3. frame' \in [Runners -> [Nodes -> Frames]]
    BY <1>1, <1>2, NoFrameSound DEF FramesSound
  <1>4. frame'[r][s] = NoFrame /\ (n # s => frame'[r][n] = f)
    BY <1>1, <1>2 DEF FramesSound
  <1>5. ASSUME NEW q \in Runners, NEW m \in Nodes, ~(q = r /\ m \in {n, s})
        PROVE  frame'[q][m] = frame[q][m]
    BY <1>1, <1>2, <1>5 DEF FramesSound
  <1> QED BY <1>1, <1>3, <1>4, <1>5, NoFrameSound, Ids DEF FramesSound, FramesMove

LEMMA CurrentSound ==
    ASSUME FramesSound, NEW r \in Runners, NEW n \in Nodes, frame[r][n].at \in {"step", "missing"}
    PROVE  /\ frame[r][n] \in Frames /\ frame[r][n].next + 1 \in Nat \ {0}
           /\ Current(r, n) \in Steps
           /\ n # Root => Current(r, n) \notin ToSet(Roots)
           /\ n = Root => runner[r].at = "running"
  <1>1. Sound(r, n, frame[r][n])
    BY DEF FramesSound
  <1>2. /\ frame[r][n] \in Frames /\ frame[r][n].next \in 1..Len(frame[r][n].body)
        /\ frame[r][n].body \in Seq(Steps) /\ frame[r][n].next \in Nat
    BY <1>1 DEF Sound, Within, Frames
  <1>3. Current(r, n) \in Steps /\ Current(r, n) \in ToSet(frame[r][n].body)
    BY <1>2 DEF Current, ToSet
  <1> QED BY <1>1, <1>2, <1>3 DEF Sound, Apart, RootSound

\* A sequential run that goes on, ends or throws stays sound.
LEMMA GoesOnSound ==
    ASSUME FramesSound, NEW r \in Runners, NEW n \in Nodes, frame[r][n].at \in {"step", "missing"},
           NEW g \in Frames, Within(g), g.body = frame[r][n].body, g.pending = frame[r][n].pending,
           g.at \in {"step", "missing", "ended", "throwing"}
    PROVE  Sound(r, n, g)
  <1>1. Sound(r, n, frame[r][n])
    BY DEF FramesSound
  <1> QED BY <1>1 DEF Sound, Apart, RootSound

LEMMA ProceedSound ==
    ASSUME FramesSound, NEW r \in Runners, NEW n \in Nodes, frame[r][n].at \in {"step", "missing"},
           NEW goOn \in BOOLEAN
    PROVE  /\ Sound(r, n, Proceed(frame[r][n], goOn))
           /\ ~goOn => Proceed(frame[r][n], goOn).at = "throwing"
  <1> DEFINE f == frame[r][n]
  <1>1. f \in Frames /\ f.next + 1 \in Nat \ {0}
    BY CurrentSound
  <1>2. CASE goOn
    <2>1. Proceed(f, goOn) = LoopHead(f, f.next + 1, state)
      BY <1>2 DEF Proceed
    <2> HIDE DEF f
    <2>2. /\ Proceed(f, goOn) \in Frames /\ Within(Proceed(f, goOn))
          /\ Proceed(f, goOn).body = f.body /\ Proceed(f, goOn).pending = f.pending
          /\ Proceed(f, goOn).at \in {"step", "missing", "ended", "throwing"}
      BY <1>1, <2>1, LoopHeadSound
    <2> QED BY <1>2, <2>2, GoesOnSound DEF f
  <1>3. CASE ~goOn
    <2> HIDE DEF f
    <2>1. Proceed(f, goOn) = [f EXCEPT !.at = "throwing"]
      BY <1>3 DEF Proceed
    <2>2. /\ Proceed(f, goOn) \in Frames /\ Within(Proceed(f, goOn))
          /\ Proceed(f, goOn).body = f.body /\ Proceed(f, goOn).pending = f.pending
          /\ Proceed(f, goOn).at = "throwing"
      BY <1>1, <2>1 DEF Frames, Within
    <2> QED BY <2>2, GoesOnSound DEF f
  <1> QED BY <1>2, <1>3

LEMMA StepCompletesMoves ==
    ASSUME FramesSound, NEW r \in Runners, NEW n \in Nodes, StepCompletes(r, n)
    PROVE  FramesMove /\ FailureMoves
  <1> DEFINE f == frame[r][n]
             g == LoopHead(f, f.next + 1, state)
  <1>1. f.at = "step" /\ Settles(r, n, Current(r, n), g) /\ failedSteps' = failedSteps
    BY DEF StepCompletes
  <1>2. f \in Frames /\ f.next + 1 \in Nat \ {0} /\ Current(r, n) \in Steps
    BY <1>1, CurrentSound
  <1>3. g \in Frames /\ Within(g) /\ g.body = f.body /\ g.pending = f.pending
        /\ g.at \in {"step", "missing", "ended", "throwing"}
    BY <1>2, LoopHeadSound
  <1> HIDE DEF g
  <1>4. Sound(r, n, g)
    BY <1>1, <1>3, GoesOnSound
  <1>5. FramesMove
    BY <1>1, <1>2, <1>4, TwoMove
  <1> QED BY <1>1, <1>5 DEF FailureMoves, RootFailed

LEMMA StepFailsMoves ==
    ASSUME FramesSound, NEW r \in Runners, NEW n \in Nodes, StepFails(r, n)
    PROVE  FramesMove /\ FailureMoves
  <1> DEFINE goOn == ShouldContinueOnFailure(failureCount + 1)
             g == Proceed(frame[r][n], goOn)
  <1>1. /\ frame[r][n].at = "step" /\ Settles(r, n, Current(r, n), g)
        /\ failedSteps' = failedSteps \cup {Current(r, n)}
    BY DEF StepFails
  <1>2. goOn \in BOOLEAN /\ (~workflow.continueOnError => ~goOn)
    BY DEF ShouldContinueOnFailure
  <1> HIDE DEF goOn
  <1>3. Sound(r, n, g) /\ (~goOn => g.at = "throwing")
    BY <1>1, <1>2, ProceedSound
  <1>4. /\ Current(r, n) \in Steps
        /\ n # Root => Current(r, n) \notin ToSet(Roots)
        /\ n = Root => runner[r].at = "running"
    BY <1>1, CurrentSound
  <1> HIDE DEF g
  <1>5. FramesMove /\ (n = Root => frame'[r][n] = g)
    BY <1>1, <1>3, <1>4, TwoMove
  <1> QED BY <1>1, <1>2, <1>3, <1>4, <1>5 DEF FailureMoves, RootFailed

LEMMA StepThrowsMoves ==
    ASSUME FramesSound, NEW r \in Runners, NEW n \in Nodes, StepThrows(r, n)
    PROVE  FramesMove /\ FailureMoves
  <1> DEFINE goOn == ShouldContinueOnFailure(failureCount + 1)
             g == Proceed(frame[r][n], goOn)
  <1>1. /\ frame[r][n].at = "missing"
        /\ failedSteps' = failedSteps \cup {Current(r, n)}
    BY DEF StepThrows
  <1>2. frame' = [frame EXCEPT ![r][n] = g]
    BY DEF StepThrows, FramesSound
  <1>3. goOn \in BOOLEAN /\ (~workflow.continueOnError => ~goOn)
    BY DEF ShouldContinueOnFailure
  <1> HIDE DEF goOn
  <1>4. Sound(r, n, g) /\ (~goOn => g.at = "throwing")
    BY <1>1, <1>3, ProceedSound
  <1>5. /\ n # Root => Current(r, n) \notin ToSet(Roots)
        /\ n = Root => runner[r].at = "running"
    BY <1>1, CurrentSound
  <1> HIDE DEF g
  <1>6. FramesMove /\ frame'[r][n] = g
    BY <1>1, <1>2, <1>4, OneMoves
  <1> QED BY <1>1, <1>3, <1>4, <1>5, <1>6 DEF FailureMoves, RootFailed

LEMMA ParallelStepSettlesMoves ==
    ASSUME FramesSound, NEW r \in Runners, NEW n \in Nodes, NEW s \in Steps,
           ParallelStepSettles(r, n, s)
    PROVE  FramesMove /\ FailureMoves
  <1> DEFINE f == frame[r][n]
             g == [f EXCEPT !.pending = @ \ {s}]
  <1>1. /\ f.at = "spread" /\ s \in f.pending /\ Settles(r, n, s, g)
        /\ failedSteps' = failedSteps \/ failedSteps' = failedSteps \cup {s}
    BY DEF ParallelStepSettles
  <1>2. Sound(r, n, f)
    BY DEF FramesSound
  <1> HIDE DEF f
  <1>3. /\ g \in Frames /\ g.at = f.at /\ g.body = f.body
        /\ g.pending \subseteq f.pending /\ g.next = f.next
    BY <1>2 DEF Sound, Frames
  <1>4. Sound(r, n, g)
    BY <1>1, <1>2, <1>3 DEF Sound, Within, Apart, RootSound
  <1> HIDE DEF g
  <1>5. FramesMove
    BY <1>1, <1>4, TwoMove DEF f
  <1>6. workflow.mode # "parallel" => s \notin ToSet(Roots)
    BY <1>1, <1>2 DEF Sound, Apart, RootSound
  <1> QED BY <1>1, <1>5, <1>6 DEF FailureMoves, RootFailed

LEMMA ParallelStepsThrowMoves ==
    ASSUME FramesSound, NEW r \in Runners, NEW n \in Nodes, ParallelStepsThrow(r, n)
    PROVE  FramesMove /\ FailureMoves
  <1> DEFINE f == frame[r][n]
             g == [f EXCEPT !.at = "spread", !.pending = {}, !.rejected = TRUE]
  <1>1. f.at = "lost" /\ failedSteps' = failedSteps \cup f.pending
    BY DEF ParallelStepsThrow
  <1>2. frame' = [frame EXCEPT ![r][n] = g]
    BY DEF ParallelStepsThrow, FramesSound
  <1>3. Sound(r, n, f)
    BY DEF FramesSound
  <1> HIDE DEF f
  <1>4. g \in Frames /\ g.at = "spread" /\ g.body = f.body /\ g.pending = {}
    BY <1>3 DEF Sound, Frames
  <1>5. Sound(r, n, g)
    BY <1>1, <1>3, <1>4 DEF Sound, Within, Apart, RootSound
  <1> HIDE DEF g
  <1>6. FramesMove
    BY <1>1, <1>2, <1>5, OneMoves DEF f
  <1>7. workflow.mode # "parallel" => f.pending \cap ToSet(Roots) = {}
    BY <1>1, <1>3 DEF Sound, Apart, RootSound
  <1> QED BY <1>1, <1>6, <1>7 DEF FailureMoves, RootFailed

LEMMA ParallelEndsMoves ==
    ASSUME FramesSound, NEW r \in Runners, NEW n \in Nodes, ParallelEnds(r, n)
    PROVE  FramesMove /\ FailureMoves
  <1> DEFINE f == frame[r][n]
             end == IF f.rejected /\ ~ShouldContinueOnFailure(failureCount) THEN "throwing" ELSE "ended"
             g == [f EXCEPT !.at = end]
  <1>1. f.at = "spread" /\ failedSteps' = failedSteps
    BY DEF ParallelEnds, progress
  <1>2. frame' = [frame EXCEPT ![r][n] = g]
    BY DEF ParallelEnds, FramesSound
  <1>3. Sound(r, n, f)
    BY DEF FramesSound
  <1>4. end \in {"throwing", "ended"}
    OBVIOUS
  <1> HIDE DEF f, end
  <1>5. g \in Frames /\ g.at = end /\ g.body = f.body /\ g.pending = f.pending
    BY <1>3, <1>4 DEF Sound, Frames
  <1>6. Sound(r, n, g)
    BY <1>3, <1>4, <1>5 DEF Sound, Within, Apart, RootSound
  <1> HIDE DEF g
  <1>7. FramesMove
    BY <1>1, <1>2, <1>6, OneMoves DEF f
  <1> QED BY <1>1, <1>7 DEF FailureMoves, RootFailed

\* The steps nested in a step, and those of a branch, are no root steps.
LEMMA Nested ==
    ASSUME NEW s \in Steps
    PROVE  /\ Children[s] \in Seq(Steps) /\ ToSet(Children[s]) \cap ToSet(Roots) = {}
           /\ \A b \in {"then", "else"} :
                Branches[s][b] \in Seq(Steps) /\ ToSet(Branches[s][b]) \cap ToSet(Roots) = {}
  BY WorkflowAssumption, NestingAssumption

LEMMA NestedRunSound ==
    ASSUME NEW r \in Runners, NEW s \in Steps, NEW st,
           NEW steps \in Seq(Steps), ToSet(steps) \cap ToSet(Roots) = {},
           NEW f \in Frames, f.pending = {}
    PROVE  Sound(r, s, RunSequential(f, steps, st)) /\ Sound(r, s, RunParallel(steps, st))
  <1>1. s # Root
    BY Ids
  <1> QED BY <1>1, RunSequentialSound, RunParallelSound, Ids DEF Sound, Apart

LEMMA ExecuteStepMoves ==
    ASSUME FramesSound, NEW r \in Runners, NEW s \in Steps, ExecuteStep(r, s)
    PROVE  FramesMove /\ FailureMoves
  <1>1. NoFrame \in Frames /\ NoFrame.pending = {} /\ s \in Nodes /\ s # Root
    BY NoFrameSound, Ids DEF NoFrame
  <1>2. PICK f \in CASE workflow.type[s] = "sequence" -> {RunSequential(NoFrame, Children[s], state)}
                     [] workflow.type[s] = "parallel" -> {RunParallel(Children[s], state)}
                     [] workflow.type[s] = "conditional" -> RunConditional(s, state)
                     [] OTHER -> {[NoFrame EXCEPT !.at = "testing"]} :
              frame' = [frame EXCEPT ![r][s] = f]
    BY DEF ExecuteStep
  <1>3. \/ f = RunSequential(NoFrame, Children[s], state)
        \/ f = RunParallel(Children[s], state)
        \/ \E b \in {"then", "else"} : f = RunSequential(NoFrame, Branches[s][b], state)
        \/ f = [NoFrame EXCEPT !.at = "testing"]
    BY <1>2 DEF RunConditional
  <1>5. Sound(r, s, f)
    <2>1. CASE f = RunSequential(NoFrame, Children[s], state)
      BY <1>1, <2>1, Nested, NestedRunSound
    <2>2. CASE f = RunParallel(Children[s], state)
      BY <1>1, <2>2, Nested, NestedRunSound
    <2>3. CASE \E b \in {"then", "else"} : f = RunSequential(NoFrame, Branches[s][b], state)
      <3> PICK b \in {"then", "else"} : f = RunSequential(NoFrame, Branches[s][b], state)
        BY <2>3
      <3>1. Branches[s][b] \in Seq(Steps) /\ ToSet(Branches[s][b]) \cap ToSet(Roots) = {}
        BY Nested
      <3> QED BY <1>1, <3>1, NestedRunSound
    <2>4. CASE f = [NoFrame EXCEPT !.at = "testing"]
      <3> DEFINE empty == NoFrame
      <3>1. empty \in Frames /\ empty.body = <<>> /\ empty.pending = {}
        BY NoFrameSound DEF NoFrame
      <3> HIDE DEF empty
      <3>2. f = [empty EXCEPT !.at = "testing"]
        BY <2>4 DEF empty
      <3>3. f \in Frames /\ f.at = "testing" /\ f.body = <<>> /\ f.pending = {}
        BY <3>1, <3>2 DEF Frames
      <3> QED BY <1>1, <3>3, Ids DEF Sound, Within, Apart
    <2> QED BY <1>3, <2>1, <2>2, <2>3, <2>4
  <1>6. FramesMove
    BY <1>1, <1>2, <1>5, OneMoves
  <1>7. failedSteps' = failedSteps
    BY DEF ExecuteStep, progress
  <1> QED BY <1>6, <1>7 DEF FailureMoves, RootFailed

LEMMA RunLoopMoves ==
    ASSUME FramesSound, NEW r \in Runners, NEW s \in Steps, RunLoop(r, s)
    PROVE  FramesMove /\ FailureMoves
  <1> DEFINE f == frame[r][s]
  <1>1. s \in Nodes /\ s # Root /\ f.at = "testing" /\ failedSteps' = failedSteps
    BY Ids DEF RunLoop, progress
  <1>2. PICK g : /\ frame' = [frame EXCEPT ![r][s] = g]
                 /\ \/ g = [f EXCEPT !.at = "failed"]
                    \/ g = [f EXCEPT !.at = "completed"]
                    \/ g = RunSequential(f, Children[s], state)
    BY DEF RunLoop, FramesSound
  <1>3. Sound(r, s, f)
    BY <1>1 DEF FramesSound
  <1> HIDE DEF f
  <1>4. /\ g \in Frames /\ Within(g) /\ g.pending = f.pending
        /\ g.body = f.body \/ g.body = Children[s]
    <2>1. CASE g \in {[f EXCEPT !.at = "failed"], [f EXCEPT !.at = "completed"]}
      BY <1>3, <2>1 DEF Sound, Frames, Within
    <2>2. CASE g = RunSequential(f, Children[s], state)
      BY <1>3, <2>2, Nested, RunSequentialSound DEF Sound
    <2> QED BY <1>2, <2>1, <2>2
  <1>5. Sound(r, s, g)
    BY <1>1, <1>3, <1>4, Nested DEF Sound, Apart
  <1>6. FramesMove
    BY <1>1, <1>2, <1>5, OneMoves
  <1> QED BY <1>1, <1>6 DEF FailureMoves, RootFailed

LEMMA LoopBodyEndsMoves ==
    ASSUME FramesSound, NEW r \in Runners, NEW s \in Steps, LoopBodyEnds(r, s)
    PROVE  FramesMove /\ FailureMoves
  <1> DEFINE f == frame[r][s]
  <1>1. s \in Nodes /\ s # Root /\ failedSteps' = failedSteps
    BY Ids DEF LoopBodyEnds
  <1>2. CASE f.at = "throwing" /\ workflow.breakOnError
    <2> DEFINE g == [f EXCEPT !.at = "failed"]
    <2>1. frame' = [frame EXCEPT ![r][s] = g]
      BY <1>2 DEF LoopBodyEnds, FramesSound
    <2>2. Sound(r, s, f)
      BY <1>1 DEF FramesSound
    <2> HIDE DEF f
    <2>3. g \in Frames /\ g.at = "failed" /\ g.pending = f.pending /\ g.body = f.body
      BY <2>2 DEF Sound, Frames
    <2>4. Sound(r, s, g)
      BY <1>1, <2>2, <2>3 DEF Sound, Within, Apart
    <2> HIDE DEF g
    <2>5. FramesMove
      BY <1>1, <2>1, <2>4, OneMoves
    <2> QED BY <1>1, <2>5 DEF FailureMoves, RootFailed
  <1>3. CASE ~(f.at = "throwing" /\ workflow.breakOnError)
    <2> DEFINE more == f.iterations + 1
               g == [f EXCEPT !.at = "testing", !.iterations = more]
    <2>1. frame' = [frame EXCEPT ![r][s] = g]
      BY <1>3 DEF LoopBodyEnds, FramesSound
    <2>2. Sound(r, s, f)
      BY <1>1 DEF FramesSound
    <2>3. f \in Frames /\ more \in Nat
      BY <2>2 DEF Sound, Frames
    <2> HIDE DEF f, more
    <2>4. g \in Frames /\ g.at = "testing" /\ g.pending = f.pending /\ g.body = f.body
      BY <2>3 DEF Frames
    <2>5. Sound(r, s, g)
      BY <1>1, <2>2, <2>4 DEF Sound, Within, Apart
    <2> HIDE DEF g
    <2>6. FramesMove
      BY <1>1, <2>1, <2>5, OneMoves
    <2> QED BY <1>1, <2>6 DEF FailureMoves, RootFailed
  <1> QED BY <1>2, <1>3

LEMMA WalksMove ==
    ASSUME FramesSound, Walks
    PROVE  FramesMove /\ FailureMoves
  <1>1. ASSUME NEW r \in Runners, NEW n \in Nodes,
               StepCompletes(r, n) \/ StepFails(r, n) \/ StepThrows(r, n)
                 \/ ParallelStepsThrow(r, n) \/ ParallelEnds(r, n)
        PROVE  FramesMove /\ FailureMoves
    BY <1>1, StepCompletesMoves, StepFailsMoves, StepThrowsMoves, ParallelStepsThrowMoves,
       ParallelEndsMoves
  <1>2. ASSUME NEW r \in Runners, NEW n \in Nodes, NEW s \in Steps, ParallelStepSettles(r, n, s)
        PROVE  FramesMove /\ FailureMoves
    BY <1>2, ParallelStepSettlesMoves
  <1>3. ASSUME NEW r \in Runners, NEW s \in Steps,
               ExecuteStep(r, s) \/ RunLoop(r, s) \/ LoopBodyEnds(r, s)
        PROVE  FramesMove /\ FailureMoves
    BY <1>3, ExecuteStepMoves, RunLoopMoves, LoopBodyEndsMoves
  <1> QED BY <1>1, <1>2, <1>3, Zenon DEF Walks

\* Calls move on while the frames stay: none leaves a root run under way.
LEMMA CallsMove ==
    ASSUME FramesSound, UNCHANGED <<workflow, frame>>,
           \A q \in Runners : runner[q].at = "running" =>
              runner'[q].at = "running" \/ frame[q][Root].at \notin {"step", "missing"}
    PROVE  FramesSound'
  <1>1. ASSUME NEW q \in Runners, NEW n \in Nodes
        PROVE  Sound(q, n, frame[q][n])'
    <2>1. Sound(q, n, frame[q][n])
      BY DEF FramesSound
    <2> QED BY <2>1 DEF Sound, Within, Apart, RootSound
  <1> QED BY <1>1 DEF FramesSound

LEMMA StillSurfaces ==
    ASSUME FailureSurfaces, UNCHANGED <<workflow, failedSteps>>,
           state = "FAILED" => state' = "FAILED",
           \A q \in Runners : StepsThrew(q) => StepsThrew(q)' \/ state' = "FAILED"
    PROVE  FailureSurfaces'
  BY DEF FailureSurfaces

\* execute or resume starts the root steps.
LEMMA RootStarts ==
    ASSUME FramesSound, NEW r \in Runners, NEW st, ExecuteWorkflowSteps(r, st), workflow' = workflow,
           runner'[r].at = "running", \A q \in Runners \ {r} : runner'[q] = runner[q]
    PROVE  FramesSound' /\ \A q \in Runners \ {r} : frame'[q] = frame[q]
  <1> DEFINE g == IF workflow.mode = "parallel" THEN RunParallel(Roots, st)
                  ELSE RunSequential(NoFrame, Roots, st)
  <1>1. frame' = [frame EXCEPT ![r][Root] = g]
    BY DEF ExecuteWorkflowSteps
  <1>2. g \in Frames /\ Within(g) /\ (workflow.mode # "parallel" => g.at \notin {"spread", "lost"})
    BY WorkflowAssumption, NoFrameSound, RunParallelSound, RunSequentialSound
  <1> HIDE DEF g
  <1>3. frame' \in [Runners -> [Nodes -> Frames]] /\ frame'[r][Root] = g
    BY <1>1, <1>2, Ids DEF FramesSound
  <1>4. ASSUME NEW q \in Runners, NEW n \in Nodes, ~(q = r /\ n = Root)
        PROVE  frame'[q][n] = frame[q][n]
    BY <1>1, <1>4 DEF FramesSound
  <1>5. ASSUME NEW q \in Runners, NEW n \in Nodes
        PROVE  Sound(q, n, frame[q][n])'
    <2>1. CASE q = r /\ n = Root
      BY <1>2, <1>3, <2>1 DEF Sound, RootSound, Within
    <2>2. CASE ~(q = r /\ n = Root)
      <3>1. Sound(q, n, frame[q][n]) /\ frame'[q][n] = frame[q][n]
        BY <1>4, <2>2 DEF FramesSound
      <3> QED BY <2>2, <3>1 DEF Sound, Within, Apart, RootSound
    <2> QED BY <2>1, <2>2
  <1> QED BY <1>1, <1>3, <1>5 DEF FramesSound

LEMMA SurfaceStep ==
    ASSUME RecordFirst, FramesSound, FailureSurfaces, [Next]_vars
    PROVE  FramesSound' /\ FailureSurfaces'
  <1>0. "execute" \in Runners /\ Resumes \subseteq Runners /\ "execute" \notin Resumes
    BY WorkflowAssumption DEF Runners
  <1>f. state = "FAILED" => state' = "FAILED"
    BY RecordStep
  <1>1. CASE Execute
    <2>1. \A q \in Runners : runner[q].at = "running" => runner'[q] = runner[q]
      BY <1>0, <1>1 DEF Execute, RecordFirst
    <2>2. UNCHANGED <<workflow, frame, state, failedSteps>>
      BY <1>1 DEF Execute, progress
    <2>3. FramesSound'
      BY <2>1, <2>2, CallsMove
    <2>4. \A q \in Runners : StepsThrew(q) => StepsThrew(q)'
      BY <2>1, <2>2 DEF StepsThrew
    <2> QED BY <1>f, <2>2, <2>3, <2>4, StillSurfaces
  <1>2. CASE ExecuteRuns
    <2>1. /\ runner["execute"].at = "find" /\ runner'["execute"].at = "running"
          /\ \A q \in Runners \ {"execute"} : runner'[q] = runner[q]
          /\ ExecuteWorkflowSteps("execute", "RUNNING")
          /\ UNCHANGED <<workflow, failedSteps>>
      BY <1>0, <1>2 DEF ExecuteRuns, RecordFirst, progress
    <2>2. FramesSound' /\ \A q \in Runners \ {"execute"} : frame'[q] = frame[q]
      BY <1>0, <2>1, RootStarts
    <2>3. \A q \in Runners : StepsThrew(q) => StepsThrew(q)'
      BY <2>1, <2>2 DEF StepsThrew
    <2> QED BY <1>f, <2>1, <2>2, <2>3, StillSurfaces
  <1>3. CASE ExecuteReturns \/ ExecuteCatches
    <2>1. /\ frame["execute"][Root].at \in {"ended", "throwing"}
          /\ frame["execute"][Root].at = "throwing" => state' = "FAILED"
          /\ \A q \in Runners \ {"execute"} : runner'[q] = runner[q]
          /\ UNCHANGED <<workflow, frame, failedSteps>>
      BY <1>0, <1>3 DEF ExecuteReturns, ExecuteCatches, StepsEnded, StepsThrew, RecordFirst, progress
    <2>2. FramesSound'
      BY <2>1, CallsMove
    <2>3. \A q \in Runners : StepsThrew(q) => StepsThrew(q)' \/ state' = "FAILED"
      BY <2>1 DEF StepsThrew
    <2> QED BY <1>f, <2>1, <2>2, <2>3, StillSurfaces
  <1>4. CASE CompensateStep
    <2>1. /\ runner["execute"].at = "compensating"
          /\ \A q \in Runners \ {"execute"} : runner'[q] = runner[q]
          /\ UNCHANGED <<workflow, frame, failedSteps>>
      BY <1>0, <1>4 DEF CompensateStep, RecordFirst, progress
    <2>2. FramesSound'
      BY <2>1, CallsMove
    <2>3. \A q \in Runners : StepsThrew(q) => StepsThrew(q)'
      BY <2>1 DEF StepsThrew
    <2> QED BY <1>f, <2>1, <2>2, <2>3, StillSurfaces
  <1>5. CASE Walks
    <2>1. FramesMove /\ FailureMoves
      BY <1>5, WalksMove
    <2>2. UNCHANGED <<workflow, state, runner>>
      BY <1>5, WalksWriteNoState
    <2>3. FramesSound'
      BY <2>1, <2>2 DEF FramesMove, FramesSound, Sound, Within, Apart, RootSound
    <2>4. \A q \in Runners : StepsThrew(q) => StepsThrew(q)'
      BY <2>1, <2>2 DEF FramesMove, StepsThrew
    <2>5. workflow.mode # "parallel" /\ ~workflow.continueOnError /\ RootFailed' =>
            RootFailed \/ \E q \in Runners : StepsThrew(q)'
      BY <2>1, <2>2 DEF FailureMoves, StepsThrew
    <2> QED BY <2>2, <2>3, <2>4, <2>5 DEF FailureSurfaces, RootFailed
  <1>6. CASE ResumeGoesOn
    <2> PICK r \in Runners : ResumeRuns(r) \/ ResumeReturns(r) \/ (r \in Resumes /\ Resume(r))
      BY <1>6 DEF ResumeGoesOn
    <2>1. CASE ResumeRuns(r)
      <3>1. /\ runner[r].at = "find" /\ runner'[r].at = "running"
            /\ \A q \in Runners \ {r} : runner'[q] = runner[q]
            /\ ExecuteWorkflowSteps(r, state)
            /\ UNCHANGED <<workflow, failedSteps>>
        BY <1>0, <2>1 DEF ResumeRuns, RecordFirst, progress
      <3>2. FramesSound' /\ \A q \in Runners \ {r} : frame'[q] = frame[q]
        BY <3>1, RootStarts
      <3>3. \A q \in Runners : StepsThrew(q) => StepsThrew(q)'
        BY <3>1, <3>2 DEF StepsThrew
      <3> QED BY <1>f, <3>1, <3>2, <3>3, StillSurfaces
    <2>2. CASE ResumeReturns(r)
      <3>1. /\ frame[r][Root].at \in {"ended", "throwing"}
            /\ frame[r][Root].at = "throwing" => state' = "FAILED"
            /\ \A q \in Runners \ {r} : runner'[q] = runner[q]
            /\ UNCHANGED <<workflow, frame, failedSteps>>
        BY <1>0, <2>2 DEF ResumeReturns, StepsEnded, StepsThrew, RecordFirst, progress
      <3>2. FramesSound'
        BY <3>1, CallsMove
      <3>3. \A q \in Runners : StepsThrew(q) => StepsThrew(q)' \/ state' = "FAILED"
        BY <3>1 DEF StepsThrew
      <3> QED BY <1>f, <3>1, <3>2, <3>3, StillSurfaces
    <2>3. CASE r \in Resumes /\ Resume(r)
      <3>1. /\ runner[r].at = "idle"
            /\ \A q \in Runners \ {r} : runner'[q] = runner[q]
            /\ UNCHANGED <<workflow, frame, failedSteps>>
        BY <1>0, <2>3 DEF Resume, RecordFirst, progress
      <3>2. FramesSound'
        BY <3>1, CallsMove
      <3>3. \A q \in Runners : StepsThrew(q) => StepsThrew(q)'
        BY <3>1 DEF StepsThrew
      <3> QED BY <1>f, <3>1, <3>2, <3>3, StillSurfaces
    <2> QED BY <2>1, <2>2, <2>3
  <1>7. CASE Cancel \/ Pause \/ TimeoutFires \/ RegistryChanges \/ UNCHANGED vars
    <2>1. UNCHANGED <<workflow, frame, failedSteps, runner>>
      BY <1>7 DEF Cancel, Pause, TimeoutFires, RegistryChanges, RegisterWorkflow, RemoveWorkflow,
                  vars, progress
    <2>2. FramesSound'
      BY <2>1, CallsMove
    <2>3. \A q \in Runners : StepsThrew(q) => StepsThrew(q)'
      BY <2>1 DEF StepsThrew
    <2> QED BY <1>f, <2>1, <2>2, <2>3, StillSurfaces
  <1> QED BY <1>1, <1>2, <1>3, <1>4, <1>5, <1>6, <1>7, Split

\* In the sequential modes a failed root step which the policy does not tolerate
\* ends the execution as FAILED, for every workflow, nesting, and interleaving of
\* pauses, resumes, cancellations, timeouts and changes of the registry.
THEOREM FailuresSurface == Spec => []FailureSurfaces
  <1>1. Init => FramesSound /\ FailureSurfaces
    BY NoFrameSound DEF Init, FramesSound, FailureSurfaces
  <1>2. RecordFirst /\ FramesSound /\ FailureSurfaces /\ [Next]_vars
          => RecordFirst' /\ FramesSound' /\ FailureSurfaces'
    BY RecordStep, SurfaceStep
  <1>3. Spec => [](RecordFirst /\ FramesSound /\ FailureSurfaces)
    BY <1>1, <1>2, InitRecord, PTL DEF Spec
  <1> QED BY <1>3, PTL

-----------------------------------------------------------------------------
(* What a call runs is awaited by what it runs, up to the root steps.      *)

\* The run of n is waiting for step s.
Awaits(r, n, s) ==
    \/ frame[r][n].at = "step" /\ Current(r, n) = s
    \/ frame[r][n].at = "spread" /\ s \in frame[r][n].pending

Alive(r, n) == frame[r][n].at # "none"

Closed(r, X) == Root \in X /\ \A n \in X : \A s \in Steps : Awaits(r, n, s) => s \in X

\* A call that has not started its steps runs none, and whatever is run is awaited,
\* from the root on: a set with the root and all that its members await has
\* everything that runs.
Reached(r) ==
    /\ runner[r].at \in {"idle", "find"} => \A n \in Nodes : ~Alive(r, n)
    /\ \A s \in Steps : Alive(r, s) => HasBody(s)
    /\ \A X \in SUBSET Nodes : Closed(r, X) => \A n \in Nodes \ X : ~Alive(r, n)

AllReached == \A r \in Runners : Reached(r)

LEMMA InitReached == Init => AllReached
  <1>1. Init => \A r \in Runners : \A n \in Nodes : ~Alive(r, n)
    BY DEF Init, Alive, NoFrame
  <1> QED BY <1>1, Ids DEF AllReached, Reached

\* A step that has ended awaits nothing.
LEMMA NotItself ==
    ASSUME AllReached, NEW r \in Runners, NEW n \in Nodes, NEW s \in Steps, Awaits(r, n, s),
           StepState(r, s) \in {"COMPLETED", "FAILED"}
    PROVE  n # s /\ Alive(r, n) /\ \A t \in Steps : ~Awaits(r, s, t)
  <1>1. Alive(r, s) => HasBody(s)
    BY DEF AllReached, Reached
  <1>2. frame[r][s].at \notin {"step", "spread"}
    <2> SUFFICES ASSUME frame[r][s].at \in {"step", "spread"} PROVE FALSE
      OBVIOUS
    <2>1. HasBody(s)
      BY <1>1 DEF Alive
    <2>2. workflow.type[s] \notin {"task", "unsupported"} /\ Children[s] # <<>>
      BY <2>1 DEF HasBody
    <2>3. StepState(r, s) = "RUNNING"
      BY <2>2 DEF StepState
    <2> QED BY <2>3
  <1> QED BY <1>2 DEF Awaits, Alive

\* Of all runs, only call r's of the nodes in N change.
Only(r, N) == \A q \in Runners : \A m \in Nodes : (q = r /\ m \in N) \/ frame'[q][m] = frame[q][m]

LEMMA StillAwaits ==
    ASSUME NEW r \in Runners, NEW n \in Nodes, frame'[r][n] = frame[r][n]
    PROVE  /\ Alive(r, n)' <=> Alive(r, n)
           /\ \A s \in Steps : Awaits(r, n, s)' <=> Awaits(r, n, s)
  BY DEF Alive, Awaits, Current

\* What another call runs is none of its business.
LEMMA OtherReached ==
    ASSUME AllReached, NEW q \in Runners, \A m \in Nodes : frame'[q][m] = frame[q][m],
           workflow' = workflow, runner'[q] = runner[q]
    PROVE  Reached(q)'
  <1>1. Reached(q)
    BY DEF AllReached
  <1>2. \A X : Closed(q, X)' /\ X \in SUBSET Nodes => Closed(q, X)
    BY StillAwaits DEF Closed
  <1>3. \A m \in Nodes : Alive(q, m)' <=> Alive(q, m)
    BY StillAwaits
  <1> QED BY <1>1, <1>2, <1>3, Ids DEF Reached, HasBody

\* A run that awaits nothing moves on ...
LEMMA OneReached ==
    ASSUME AllReached, NEW r \in Runners, NEW n \in Nodes, Alive(r, n),
           \A s \in Steps : ~Awaits(r, n, s), Only(r, {n}), UNCHANGED <<workflow, runner>>
    PROVE  AllReached'
  <1> SUFFICES ASSUME NEW q \in Runners PROVE Reached(q)'
    BY DEF AllReached
  <1>0. Reached(q)
    BY DEF AllReached
  <1>1. CASE q # r
    BY <1>1, OtherReached DEF Only
  <1>2. CASE q = r
    <2>1. \A m \in Nodes \ {n} : frame'[r][m] = frame[r][m]
      BY DEF Only
    <2>2. \A m \in Nodes \ {n} : Alive(r, m)' <=> Alive(r, m)
      BY <2>1, StillAwaits
    <2>3. \A m \in Nodes \ {n} : \A s \in Steps : Awaits(r, m, s)' <=> Awaits(r, m, s)
      BY <2>1, StillAwaits
    <2>4. ASSUME NEW X \in SUBSET Nodes, Closed(r, X)', NEW m \in Nodes \ X
          PROVE  ~Alive(r, m)'
      <3>1. Closed(r, X)
        BY <2>3, <2>4 DEF Closed
      <3>2. n \in X /\ ~Alive(r, m)
        BY <1>0, <1>2, <3>1 DEF Reached
      <3> QED BY <2>2, <3>2
    <2>5. runner[r].at \notin {"idle", "find"}
      BY <1>0, <1>2 DEF Reached
    <2>6. \A s \in Steps : Alive(r, s)' => HasBody(s)'
      BY <1>0, <1>2, <2>2, Ids DEF Reached, HasBody
    <2> QED BY <1>2, <2>4, <2>5, <2>6 DEF Reached
  <1> QED BY <1>1, <1>2

\* ... a step that is awaited starts ...
LEMMA StepReached ==
    ASSUME AllReached, NEW r \in Runners, NEW n \in Nodes, NEW s \in Steps, Awaits(r, n, s),
           ~Alive(r, s), HasBody(s), Only(r, {s}), UNCHANGED <<workflow, runner>>
    PROVE  AllReached'
  <1> SUFFICES ASSUME NEW q \in Runners PROVE Reached(q)'
    BY DEF AllReached
  <1>0. Reached(q) /\ s \in Nodes
    BY Ids DEF AllReached
  <1>1. CASE q # r
    BY <1>1, OtherReached DEF Only
  <1>2. CASE q = r
    <2>1. \A m \in Nodes \ {s} : frame'[r][m] = frame[r][m]
      BY DEF Only
    <2>2. \A m \in Nodes \ {s} : Alive(r, m)' <=> Alive(r, m)
      BY <2>1, StillAwaits
    <2>3. \A m \in Nodes \ {s} : \A t \in Steps : Awaits(r, m, t)' <=> Awaits(r, m, t)
      BY <2>1, StillAwaits
    <2>4. n # s /\ Alive(r, n) /\ \A t \in Steps : ~Awaits(r, s, t)
      BY DEF Awaits, Alive
    <2>5. ASSUME NEW X \in SUBSET Nodes, Closed(r, X)', NEW m \in Nodes \ X
          PROVE  ~Alive(r, m)'
      <3>1. Closed(r, X)
        BY <2>3, <2>4, <2>5 DEF Closed
      <3>2. n \in X /\ ~Alive(r, m)
        BY <1>0, <1>2, <2>4, <3>1 DEF Reached
      <3>3. s \in X
        BY <2>3, <2>4, <2>5, <3>2 DEF Closed
      <3> QED BY <2>2, <2>5, <3>2, <3>3
    <2>6. runner[r].at \notin {"idle", "find"}
      BY <1>0, <1>2, <2>4 DEF Reached
    <2>7. \A t \in Steps : Alive(r, t)' => HasBody(t)'
      BY <1>0, <1>2, <2>2, Ids DEF Reached, HasBody
    <2> QED BY <1>2, <2>5, <2>6, <2>7 DEF Reached
  <1> QED BY <1>1, <1>2

\* ... and one that has ended is awaited no longer.
LEMMA TwoReached ==
    ASSUME AllReached, NEW r \in Runners, NEW n \in Nodes, NEW s \in Steps, Awaits(r, n, s),
           StepState(r, s) \in {"COMPLETED", "FAILED"},
           Only(r, {n, s}), ~Alive(r, s)',
           \A t \in Steps : Awaits(r, n, t) => t = s \/ Awaits(r, n, t)',
           UNCHANGED <<workflow, runner>>
    PROVE  AllReached'
  <1> SUFFICES ASSUME NEW q \in Runners PROVE Reached(q)'
    BY DEF AllReached
  <1>0. Reached(q) /\ s \in Nodes
    BY Ids DEF AllReached
  <1>1. CASE q # r
    BY <1>1, OtherReached DEF Only
  <1>2. CASE q = r
    <2>1. \A m \in Nodes \ {n, s} : frame'[r][m] = frame[r][m]
      BY DEF Only
    <2>2. \A m \in Nodes \ {n, s} : Alive(r, m)' <=> Alive(r, m)
      BY <2>1, StillAwaits
    <2>3. \A m \in Nodes \ {n, s} : \A t \in Steps : Awaits(r, m, t)' <=> Awaits(r, m, t)
      BY <2>1, StillAwaits
    <2>4. n # s /\ Alive(r, n) /\ \A t \in Steps : ~Awaits(r, s, t)
      BY NotItself
    <2>5. ASSUME NEW X \in SUBSET Nodes, Closed(r, X)', NEW m \in Nodes \ X
          PROVE  ~Alive(r, m)'
      <3> DEFINE Y == X \cup {s}
      <3>1. ASSUME NEW k \in Y, NEW t \in Steps, Awaits(r, k, t)
            PROVE  t \in Y
        <4>1. k \in X /\ k # s /\ k \in Nodes
          BY <2>4, <3>1
        <4>2. CASE k = n
          BY <2>5, <3>1, <4>1, <4>2 DEF Closed
        <4>3. CASE k # n
          BY <2>3, <2>5, <3>1, <4>1, <4>3 DEF Closed
        <4> QED BY <4>2, <4>3
      <3>2. Closed(r, Y) /\ Y \in SUBSET Nodes
        BY <1>0, <2>5, <3>1 DEF Closed
      <3>3. \A k \in Nodes \ Y : ~Alive(r, k)
        BY <1>0, <1>2, <3>2 DEF Reached
      <3> QED BY <2>2, <2>4, <2>5, <3>3
    <2>6. runner[r].at \notin {"idle", "find"}
      BY <1>0, <1>2, <2>4 DEF Reached
    <2>7. \A t \in Steps : Alive(r, t)' => HasBody(t)'
      <3>1. ASSUME NEW t \in Steps, Alive(r, t)' PROVE HasBody(t)
        <4>1. t # s /\ t \in Nodes
          BY <3>1, Ids
        <4>2. Alive(r, t)
          BY <2>2, <2>4, <3>1, <4>1
        <4> QED BY <1>0, <1>2, <4>2 DEF Reached
      <3> QED BY <3>1 DEF HasBody
    <2> QED BY <1>2, <2>5, <2>6, <2>7 DEF Reached
  <1> QED BY <1>1, <1>2

LEMMA SettlesOnly ==
    ASSUME FramesSound, NEW r \in Runners, NEW n \in Nodes, NEW s \in Steps, NEW f, n # s,
           Settles(r, n, s, f)
    PROVE  Only(r, {n, s}) /\ frame'[r][n] = f /\ frame'[r][s] = NoFrame /\ ~Alive(r, s)'
  <1>1. s \in Nodes
    BY Ids
  <1>2. frame'[r][n] = f /\ frame'[r][s] = NoFrame
    BY <1>1 DEF Settles, FramesSound
  <1>3. Only(r, {n, s})
    BY <1>1 DEF Settles, FramesSound, Only
  <1> QED BY <1>2, <1>3 DEF Alive, NoFrame

LEMMA CurrentSettles ==
    ASSUME FramesSound, AllReached, NEW r \in Runners, NEW n \in Nodes, NEW f,
           frame[r][n].at = "step", StepState(r, Current(r, n)) \in {"COMPLETED", "FAILED"},
           Settles(r, n, Current(r, n), f), UNCHANGED <<workflow, runner>>
    PROVE  /\ AllReached' /\ Only(r, {n, Current(r, n)})
           /\ frame'[r][n] = f /\ frame'[r][Current(r, n)] = NoFrame
  <1>1. PICK s \in Steps : s = Current(r, n)
    BY CurrentSound
  <1>2. Awaits(r, n, s) /\ \A t \in Steps : Awaits(r, n, t) => t = s
    BY <1>1 DEF Awaits
  <1>3. StepState(r, s) \in {"COMPLETED", "FAILED"} /\ Settles(r, n, s, f)
    BY <1>1
  <1>4. n # s
    BY <1>2, <1>3, NotItself
  <1>5. Only(r, {n, s}) /\ frame'[r][n] = f /\ frame'[r][s] = NoFrame /\ ~Alive(r, s)'
    BY <1>3, <1>4, SettlesOnly
  <1>6. AllReached'
    BY <1>2, <1>3, <1>5, TwoReached
  <1> QED BY <1>1, <1>5, <1>6

LEMMA OneOnly ==
    ASSUME FramesSound, NEW r \in Runners, NEW n \in Nodes, NEW f, frame' = [frame EXCEPT ![r][n] = f]
    PROVE  Only(r, {n}) /\ frame'[r][n] = f
  BY DEF FramesSound, Only

LEMMA WalksReach ==
    ASSUME FramesSound, AllReached, Walks
    PROVE  AllReached'
  <1>0. UNCHANGED <<workflow, runner>>
    BY WalksWriteNoState
  <1>1. ASSUME NEW r \in Runners, NEW n \in Nodes, StepCompletes(r, n) \/ StepFails(r, n)
        PROVE  AllReached'
    <2>1. PICK f : /\ frame[r][n].at = "step" /\ Settles(r, n, Current(r, n), f)
                   /\ StepState(r, Current(r, n)) \in {"COMPLETED", "FAILED"}
      BY <1>1 DEF StepCompletes, StepFails
    <2> QED BY <1>0, <2>1, CurrentSettles
  <1>2. ASSUME NEW r \in Runners, NEW n \in Nodes,
               StepThrows(r, n) \/ ParallelStepsThrow(r, n) \/ ParallelEnds(r, n)
        PROVE  AllReached'
    <2>1. Only(r, {n})
      BY <1>2 DEF StepThrows, ParallelStepsThrow, ParallelEnds, FramesSound, Only
    <2>2. Alive(r, n) /\ \A s \in Steps : ~Awaits(r, n, s)
      BY <1>2 DEF StepThrows, ParallelStepsThrow, ParallelEnds, Alive, Awaits
    <2> QED BY <1>0, <2>1, <2>2, OneReached
  <1>3. ASSUME NEW r \in Runners, NEW n \in Nodes, NEW s \in Steps, ParallelStepSettles(r, n, s)
        PROVE  AllReached'
    <2> DEFINE f == frame[r][n]
               g == [f EXCEPT !.pending = @ \ {s}]
    <2>1. /\ f.at = "spread" /\ s \in f.pending /\ Settles(r, n, s, g)
          /\ StepState(r, s) \in {"COMPLETED", "FAILED"}
      BY <1>3 DEF ParallelStepSettles
    <2>2. Awaits(r, n, s)
      BY <2>1 DEF Awaits
    <2>3. n # s
      BY <2>1, <2>2, NotItself
    <2>4. f \in Frames
      BY DEF FramesSound
    <2>5. g.at = "spread" /\ g.pending = f.pending \ {s}
      <3> HIDE DEF f
      <3> QED BY <2>1, <2>4 DEF Frames
    <2> HIDE DEF g
    <2>6. Only(r, {n, s}) /\ frame'[r][n] = g /\ ~Alive(r, s)'
      BY <2>1, <2>3, SettlesOnly
    <2>7. ASSUME NEW t \in Steps, Awaits(r, n, t) PROVE t = s \/ Awaits(r, n, t)'
      BY <2>1, <2>5, <2>6, <2>7 DEF Awaits
    <2> QED BY <1>0, <2>1, <2>2, <2>6, <2>7, TwoReached
  <1>4. ASSUME NEW r \in Runners, NEW s \in Steps, ExecuteStep(r, s)
        PROVE  AllReached'
    <2>1. HasBody(s) /\ frame[r][s] = NoFrame /\ Only(r, {s}) /\ Executing(r, s)
      BY <1>4 DEF ExecuteStep, FramesSound, Only
    <2>2. PICK n \in Nodes : Awaits(r, n, s)
      BY <2>1 DEF Executing, Awaits, Current
    <2>3. ~Alive(r, s)
      BY <2>1 DEF Alive, NoFrame
    <2> QED BY <1>0, <2>1, <2>2, <2>3, StepReached
  <1>5. ASSUME NEW r \in Runners, NEW s \in Steps, RunLoop(r, s) \/ LoopBodyEnds(r, s)
        PROVE  AllReached'
    <2>1. Only(r, {s}) /\ s \in Nodes
      BY <1>5, Ids DEF RunLoop, LoopBodyEnds, FramesSound, Only
    <2>2. Alive(r, s) /\ \A t \in Steps : ~Awaits(r, s, t)
      BY <1>5 DEF RunLoop, LoopBodyEnds, Alive, Awaits
    <2> QED BY <1>0, <2>1, <2>2, OneReached
  <1> QED BY <1>1, <1>2, <1>3, <1>4, <1>5, Zenon DEF Walks

\* Calls go on: none of them is back where it has not started its steps.
LEMMA CallsReach ==
    ASSUME AllReached, UNCHANGED <<workflow, frame>>,
           \A q \in Runners : runner'[q].at \in {"idle", "find"} => runner[q].at \in {"idle", "find"}
    PROVE  AllReached'
  BY DEF AllReached, Reached, Alive, HasBody, Closed, Awaits, Current

LEMMA RootReached ==
    ASSUME FramesSound, AllReached, NEW r \in Runners, NEW st, ExecuteWorkflowSteps(r, st),
           runner[r].at = "find", runner'[r].at = "running", workflow' = workflow,
           \A q \in Runners \ {r} : runner'[q] = runner[q]
    PROVE  AllReached'
  <1>0. Only(r, {Root})
    BY DEF ExecuteWorkflowSteps, FramesSound, Only
  <1> SUFFICES ASSUME NEW q \in Runners PROVE Reached(q)'
    BY DEF AllReached
  <1>1. Reached(q)
    BY DEF AllReached
  <1>2. CASE q # r
    BY <1>0, <1>2, OtherReached DEF Only
  <1>3. CASE q = r
    <2>1. \A m \in Nodes \ {Root} : frame'[r][m] = frame[r][m] /\ ~Alive(r, m)
      BY <1>0, <1>1, <1>3 DEF Only, Reached
    <2>2. \A m \in Nodes \ {Root} : ~Alive(r, m)'
      BY <2>1, StillAwaits
    <2> QED BY <1>3, <2>2, Ids DEF Reached, Closed
  <1> QED BY <1>2, <1>3

LEMMA ReachedStep ==
    ASSUME RecordFirst, FramesSound, AllReached, [Next]_vars
    PROVE  AllReached'
  <1>0. "execute" \in Runners /\ Resumes \subseteq Runners /\ "execute" \notin Resumes
    BY WorkflowAssumption DEF Runners
  <1>1. CASE Execute \/ ExecuteReturns \/ ExecuteCatches \/ CompensateStep
    <2>1. /\ \A q \in Runners : runner'[q].at \in {"idle", "find"} => runner[q].at \in {"idle", "find"}
          /\ UNCHANGED <<workflow, frame>>
      BY <1>0, <1>1 DEF Execute, ExecuteReturns, ExecuteCatches, CompensateStep, RecordFirst
    <2> QED BY <2>1, CallsReach
  <1>2. CASE ExecuteRuns
    <2>1. /\ runner["execute"].at = "find" /\ runner'["execute"].at = "running"
          /\ \A q \in Runners \ {"execute"} : runner'[q] = runner[q]
          /\ ExecuteWorkflowSteps("execute", "RUNNING")
          /\ workflow' = workflow
      BY <1>0, <1>2 DEF ExecuteRuns, RecordFirst
    <2> QED BY <1>0, <2>1, RootReached
  <1>3. CASE Walks
    BY <1>3, WalksReach
  <1>4. CASE ResumeGoesOn
    <2> PICK r \in Runners : ResumeRuns(r) \/ ResumeReturns(r) \/ (r \in Resumes /\ Resume(r))
      BY <1>4 DEF ResumeGoesOn
    <2>1. CASE ResumeRuns(r)
      <3>1. /\ runner[r].at = "find" /\ runner'[r].at = "running"
            /\ \A q \in Runners \ {r} : runner'[q] = runner[q]
            /\ ExecuteWorkflowSteps(r, state)
            /\ workflow' = workflow
        BY <1>0, <2>1 DEF ResumeRuns, RecordFirst
      <3> QED BY <3>1, RootReached
    <2>2. CASE ResumeReturns(r) \/ (r \in Resumes /\ Resume(r))
      <3>1. /\ \A q \in Runners : runner'[q].at \in {"idle", "find"} => runner[q].at \in {"idle", "find"}
            /\ UNCHANGED <<workflow, frame>>
        BY <1>0, <2>2 DEF ResumeReturns, Resume, RecordFirst
      <3> QED BY <3>1, CallsReach
    <2> QED BY <2>1, <2>2
  <1>5. CASE Cancel \/ Pause \/ TimeoutFires \/ RegistryChanges \/ UNCHANGED vars
    <2>1. UNCHANGED <<workflow, frame, runner>>
      BY <1>5 DEF Cancel, Pause, TimeoutFires, RegistryChanges, RegisterWorkflow, RemoveWorkflow, vars
    <2> QED BY <2>1, CallsReach
  <1> QED BY <1>1, <1>2, <1>3, <1>4, <1>5, Split

\* When the run of the root steps is over, so is every other one of the call.
LEMMA RootOver ==
    ASSUME AllReached, NEW r \in Runners, frame[r][Root].at \notin {"step", "spread"}
    PROVE  \A n \in Nodes \ {Root} : ~Alive(r, n)
  <1>1. Closed(r, {Root}) /\ {Root} \in SUBSET Nodes
    BY Ids DEF Closed, Awaits
  <1> QED BY <1>1 DEF AllReached, Reached

\* Each step of a run is one of a run that is on.
LEMMA WalksAlive ==
    ASSUME Walks
    PROVE  \E r \in Runners : \E n \in Nodes :
              /\ Alive(r, n)
              /\ n = Root => frame[r][n].at \notin {"ended", "throwing"}
  <1>1. ASSUME NEW r \in Runners, NEW n \in Nodes,
               StepCompletes(r, n) \/ StepFails(r, n) \/ StepThrows(r, n)
                 \/ ParallelStepsThrow(r, n) \/ ParallelEnds(r, n)
        PROVE  Alive(r, n) /\ frame[r][n].at \notin {"ended", "throwing"}
    BY <1>1 DEF StepCompletes, StepFails, StepThrows, ParallelStepsThrow, ParallelEnds, Alive
  <1>2. ASSUME NEW r \in Runners, NEW n \in Nodes, NEW s \in Steps, ParallelStepSettles(r, n, s)
        PROVE  Alive(r, n) /\ frame[r][n].at \notin {"ended", "throwing"}
    BY <1>2 DEF ParallelStepSettles, Alive
  <1>3. ASSUME NEW r \in Runners, NEW s \in Steps, ExecuteStep(r, s)
        PROVE  \E n \in Nodes : Alive(r, n) /\ frame[r][n].at \notin {"ended", "throwing"}
    BY <1>3 DEF ExecuteStep, Executing, Alive
  <1>4. ASSUME NEW r \in Runners, NEW s \in Steps, RunLoop(r, s) \/ LoopBodyEnds(r, s)
        PROVE  Alive(r, s) /\ s \in Nodes /\ s # Root
    BY <1>4, Ids DEF RunLoop, LoopBodyEnds, Alive
  <1> QED BY <1>1, <1>2, <1>3, <1>4, Zenon DEF Walks

LEMMA RunsOfExecute ==
    ASSUME AllReached, NeverResumed, NEW r \in Runners, NEW n \in Nodes, Alive(r, n)
    PROVE  r = "execute" /\ runner[r].at \notin {"idle", "find"}
  <1>1. runner[r].at \notin {"idle", "find"}
    BY DEF AllReached, Reached
  <1> QED BY <1>1 DEF NeverResumed, Runners

LEMMA NothingWalks ==
    ASSUME AllReached, NeverResumed, frame["execute"][Root].at \in {"ended", "throwing"}
    PROVE  ~Walks
  <1>1. "execute" \in Runners /\ Root \in Nodes
    BY Ids DEF Runners
  <1>2. \A n \in Nodes \ {Root} : ~Alive("execute", n)
    BY <1>1, RootOver
  <1> QED BY <1>2, WalksAlive, RunsOfExecute

LEMMA NeverBefore ==
    ASSUME RecordFirst, [Next]_vars, NeverResumed'
    PROVE  NeverResumed /\ ~ResumeGoesOn
  <1>0. "execute" \in Runners /\ Resumes \subseteq Runners /\ "execute" \notin Resumes
    BY WorkflowAssumption DEF Runners
  <1>1. ASSUME ResumeGoesOn PROVE FALSE
    BY <1>0, <1>1 DEF ResumeGoesOn, ResumeRuns, ResumeReturns, Resume, RecordFirst, NeverResumed
  <1>2. CASE Execute \/ ExecuteRuns \/ ExecuteReturns \/ ExecuteCatches \/ CompensateStep
    <2>1. \A q \in Runners \ {"execute"} : runner'[q] = runner[q]
      BY <1>0, <1>2 DEF Execute, ExecuteRuns, ExecuteReturns, ExecuteCatches, CompensateStep, RecordFirst
    <2> QED BY <1>0, <1>1, <2>1 DEF NeverResumed
  <1>3. CASE Walks
    BY <1>1, <1>3, WalksWriteNoState DEF NeverResumed
  <1>4. CASE Cancel \/ Pause \/ TimeoutFires \/ RegistryChanges \/ UNCHANGED vars
    <2>1. runner' = runner
      BY <1>4 DEF Cancel, Pause, TimeoutFires, RegistryChanges, RegisterWorkflow, RemoveWorkflow, vars
    <2> QED BY <1>1, <2>1 DEF NeverResumed
  <1> QED BY <1>1, <1>2, <1>3, <1>4, Split

-----------------------------------------------------------------------------
(* Compensation.                                                           *)

\* The lists of the record and of execute's compensation are lists of steps.
StepLists ==
    /\ completedSteps \in Seq(Steps)
    /\ compensatedSteps \in Seq(Steps)
    /\ runner["execute"].undo \in Seq(Steps)

\* Where a call of execute that was never resumed is with its compensation.
Compensated ==
    LET e == runner["execute"]
    IN  /\ e.at \in {"idle", "find", "running"} =>
             compensatedSteps = <<>> /\ (state = "FAILED" => timer = "fired")
        /\ e.at = "compensating" => compensatedSteps \o e.undo = Reverse(completedSteps)
        /\ e.at = "done" /\ workflow.compensationRequired /\ state = "FAILED" /\ timer # "fired" =>
             compensatedSteps = Reverse(completedSteps)
        /\ e.at \in {"compensating", "done"} => frame["execute"][Root].at \in {"ended", "throwing"}

LEMMA ReverseList ==
    ASSUME NEW t \in Seq(Steps)
    PROVE  Reverse(t) \in Seq(Steps)
  <1>1. Len(t) \in Nat /\ \A i \in 1 .. Len(t) : t[i] \in Steps /\ (Len(t) - i) + 1 \in 1 .. Len(t)
    OBVIOUS
  <1>2. \A i \in 1 .. Len(t) : t[(Len(t) - i) + 1] \in Steps
    BY <1>1
  <1>3. Reverse(t) = [i \in 1 .. Len(t) |-> t[(Len(t) - i) + 1]]
    BY DEF Reverse
  <1> QED BY <1>1, <1>2, <1>3, SeqDef

LEMMA MoveOne ==
    ASSUME NEW c \in Seq(Steps), NEW u \in Seq(Steps), u # <<>>
    PROVE  Append(c, Head(u)) \o Tail(u) = c \o u /\ Append(c, Head(u)) \in Seq(Steps) /\ Tail(u) \in Seq(Steps)
  OBVIOUS

LEMMA InitCompensated == Init => StepLists /\ (NeverResumed => Compensated)
  <1> SUFFICES ASSUME Init PROVE StepLists /\ Compensated
    OBVIOUS
  <1>1. runner["execute"] = [at |-> "idle", undo |-> <<>>]
    BY DEF Init, NotStarted, Runners
  <1>2. state = "NONE" /\ completedSteps = <<>> /\ compensatedSteps = <<>>
    BY DEF Init
  <1>3. runner["execute"].at = "idle" /\ runner["execute"].undo = <<>>
    BY <1>1
  <1> QED BY <1>2, <1>3 DEF StepLists, Compensated

LEMMA WalksList ==
    ASSUME Walks, FramesSound, StepLists
    PROVE  StepLists' /\ compensatedSteps' = compensatedSteps
  <1>0. runner' = runner
    BY WalksWriteNoState
  <1>1. ASSUME NEW r \in Runners, NEW n \in Nodes, StepCompletes(r, n)
        PROVE  completedSteps' \in Seq(Steps) /\ compensatedSteps' = compensatedSteps
    <2>1. Current(r, n) \in Steps
      BY <1>1, CurrentSound DEF StepCompletes
    <2> QED BY <1>1, <2>1 DEF StepCompletes, StepLists
  <1>2. ASSUME NEW r \in Runners, NEW n \in Nodes,
               StepFails(r, n) \/ StepThrows(r, n) \/ ParallelStepsThrow(r, n) \/ ParallelEnds(r, n)
        PROVE  completedSteps' = completedSteps /\ compensatedSteps' = compensatedSteps
    BY <1>2 DEF StepFails, StepThrows, ParallelStepsThrow, ParallelEnds, progress
  <1>3. ASSUME NEW r \in Runners, NEW n \in Nodes, NEW s \in Steps, ParallelStepSettles(r, n, s)
        PROVE  completedSteps' \in Seq(Steps) /\ compensatedSteps' = compensatedSteps
    BY <1>3 DEF ParallelStepSettles, StepLists
  <1>4. ASSUME NEW r \in Runners, NEW s \in Steps,
               ExecuteStep(r, s) \/ RunLoop(r, s) \/ LoopBodyEnds(r, s)
        PROVE  completedSteps' = completedSteps /\ compensatedSteps' = compensatedSteps
    BY <1>4 DEF ExecuteStep, RunLoop, LoopBodyEnds, progress
  <1>5. completedSteps' \in Seq(Steps) /\ compensatedSteps' = compensatedSteps
    BY <1>1, <1>2, <1>3, <1>4, Zenon DEF Walks, StepLists
  <1> QED BY <1>0, <1>5 DEF StepLists

LEMMA CompensatedStep ==
    ASSUME RecordFirst, FramesSound, AllReached, StepLists, NeverResumed => Compensated, [Next]_vars
    PROVE  StepLists' /\ (NeverResumed' => Compensated')
  <1>0. "execute" \in Runners /\ Resumes \subseteq Runners /\ "execute" \notin Resumes /\ Root \in Nodes
    BY WorkflowAssumption, Ids DEF Runners
  <1>n. NeverResumed' => NeverResumed /\ Compensated /\ ~ResumeGoesOn
    BY NeverBefore
  <1> DEFINE e == runner["execute"]
  <1>1. CASE Execute
    <2>1. /\ e.at = "idle" /\ e'.at = "find" /\ e'.undo = e.undo
          /\ UNCHANGED <<state, timer, completedSteps, compensatedSteps>>
      BY <1>0, <1>1 DEF Execute, RecordFirst, progress
    <2> QED BY <1>n, <2>1 DEF StepLists, Compensated
  <1>2. CASE ExecuteRuns
    <2>1. /\ e.at = "find" /\ e'.at = "running" /\ e'.undo = e.undo /\ state' = "RUNNING"
          /\ UNCHANGED <<completedSteps, compensatedSteps>>
      BY <1>0, <1>2 DEF ExecuteRuns, RecordFirst, progress
    <2> QED BY <1>n, <2>1 DEF StepLists, Compensated
  <1>3. CASE ExecuteReturns
    <2>1. /\ e.at = "running" /\ e'.at = "done" /\ e'.undo = e.undo
          /\ state' = "FAILED" => state = "FAILED"
          /\ timer = "fired" => timer' = "fired"
          /\ frame["execute"][Root].at = "ended"
          /\ UNCHANGED <<completedSteps, compensatedSteps, workflow, frame>>
      BY <1>0, <1>3 DEF ExecuteReturns, StepsEnded, FinalState, RecordFirst, progress
    <2> QED BY <1>n, <2>1 DEF StepLists, Compensated
  <1>4. CASE ExecuteCatches
    <2>1. /\ e.at = "running" /\ frame["execute"][Root].at = "throwing"
          /\ e' = IF workflow.compensationRequired THEN [at |-> "compensating", undo |-> Undo]
                  ELSE [at |-> "done", undo |-> <<>>]
          /\ UNCHANGED <<completedSteps, compensatedSteps, workflow, frame>>
      BY <1>0, <1>4 DEF ExecuteCatches, StepsThrew, RecordFirst, progress
    <2>2. Undo = Reverse(completedSteps) /\ Undo \in Seq(Steps)
      BY ReverseList DEF Undo, StepLists
    <2>3. <<>> \o Undo = Undo
      BY <2>2
    <2>4. CASE workflow.compensationRequired
      <3>1. e'.at = "compensating" /\ e'.undo = Undo
        BY <2>1, <2>4
      <3> QED BY <1>n, <2>1, <2>2, <2>3, <3>1 DEF StepLists, Compensated
    <2>5. CASE ~workflow.compensationRequired
      <3>1. e'.at = "done" /\ e'.undo = <<>>
        BY <2>1, <2>5
      <3> QED BY <1>n, <2>1, <2>5, <3>1 DEF StepLists, Compensated
    <2> QED BY <2>4, <2>5
  <1>5. CASE CompensateStep
    <2>1. /\ e.at = "compensating"
          /\ UNCHANGED <<completedSteps, workflow, frame>>
      BY <1>5 DEF CompensateStep, progress
    <2>2. CASE e.undo = <<>>
      <3>1. e'.at = "done" /\ e'.undo = e.undo /\ compensatedSteps' = compensatedSteps
        BY <1>0, <1>5, <2>2 DEF CompensateStep, RecordFirst
      <3>2. compensatedSteps \o e.undo = compensatedSteps
        BY <2>2 DEF StepLists
      <3> QED BY <1>n, <2>1, <3>1, <3>2 DEF StepLists, Compensated
    <2>3. CASE e.undo # <<>>
      <3> DEFINE rest == Tail(e.undo)
      <3>a. runner' = [runner EXCEPT !["execute"].undo = rest]
        BY <1>5, <2>3 DEF CompensateStep
      <3>b. compensatedSteps' = Append(compensatedSteps, Head(e.undo))
        BY <1>5, <2>3 DEF CompensateStep
      <3> HIDE DEF rest
      <3>c. e'.at = "compensating" /\ e'.undo = rest
        BY <1>0, <2>1, <3>a DEF RecordFirst
      <3>1. /\ e'.at = "compensating" /\ e'.undo = Tail(e.undo)
            /\ compensatedSteps' = Append(compensatedSteps, Head(e.undo))
        BY <3>b, <3>c DEF rest
      <3>2. /\ compensatedSteps' \o e'.undo = compensatedSteps \o e.undo
            /\ compensatedSteps' \in Seq(Steps) /\ e'.undo \in Seq(Steps)
        BY <2>3, <3>1, MoveOne DEF StepLists
      <3> QED BY <1>n, <2>1, <3>1, <3>2 DEF StepLists, Compensated
    <2> QED BY <2>2, <2>3
  <1>6. CASE Walks
    <2>1. StepLists' /\ compensatedSteps' = compensatedSteps
      BY <1>6, WalksList
    <2>2. UNCHANGED <<workflow, state, runner, timer>>
      BY <1>6, WalksWriteNoState
    <2>3. ASSUME NeverResumed' PROVE e.at \notin {"compensating", "done"}
      BY <1>n, <1>6, <2>3, NothingWalks DEF Compensated
    <2> QED BY <1>n, <2>1, <2>2, <2>3 DEF Compensated
  <1>7. CASE ResumeGoesOn
    <2>1. UNCHANGED <<completedSteps, compensatedSteps>> /\ e' = e
      BY <1>0, <1>7 DEF ResumeGoesOn, ResumeRuns, ResumeReturns, Resume, RecordFirst, progress
    <2> QED BY <1>n, <1>7, <2>1 DEF StepLists
  <1>8. CASE Cancel \/ Pause \/ TimeoutFires \/ RegistryChanges \/ UNCHANGED vars
    <2>1. /\ UNCHANGED <<workflow, frame, runner, completedSteps, compensatedSteps>>
          /\ state' = "FAILED" => (state = "FAILED" /\ timer' = timer) \/ timer' = "fired"
      BY <1>8 DEF Cancel, Pause, TimeoutFires, RegistryChanges, RegisterWorkflow, RemoveWorkflow, vars, progress
    <2> QED BY <1>n, <2>1 DEF StepLists, Compensated
  <1> QED BY <1>1, <1>2, <1>3, <1>4, <1>5, <1>6, <1>7, <1>8, Split

-----------------------------------------------------------------------------
(* No step is skipped.                                                     *)

\* Something stopped the execution for good, as long as nothing resumes it.
Halted == state \in {"PAUSED", "CANCELLED", "FAILED"}
CarriedOut == ToSet(completedSteps) \cup failedSteps

\* The run of n is one of all its steps.
Whole(n) == n = Root \/ workflow.type[n] \in {"sequence", "parallel"}
Target(n) == IF n = Root THEN Roots ELSE Children[n]

\* What such a run f of n has carried out, when the steps in C were and h says
\* whether the execution was halted.
SkipsNone(n, f, C, h) ==
    /\ f.at \in {"step", "missing"} =>
         f.body = Target(n) /\ \A i \in 1 .. (f.next - 1) : f.body[i] \in C
    /\ f.at \in {"spread", "lost"} => h \/ ToSet(Target(n)) \subseteq f.pending \cup C
    /\ f.at = "ended" => h \/ ToSet(Target(n)) \subseteq C
    /\ f.at \notin {"testing", "completed", "failed"}

NothingSkipped ==
    /\ \A n \in Nodes : Whole(n) => SkipsNone(n, frame["execute"][n], CarriedOut, Halted)
    /\ \A s \in ToSet(completedSteps) :
         workflow.type[s] \in {"sequence", "parallel"} => Halted \/ ToSet(Children[s]) \subseteq CarriedOut
    /\ state = "COMPLETED" => ToSet(Roots) \subseteq CarriedOut

LEMMA TargetList ==
    ASSUME NEW n \in Nodes
    PROVE  Target(n) \in Seq(Steps)
  BY WorkflowAssumption DEF Target, Nodes

LEMMA LoopHeadSkips ==
    ASSUME NEW n \in Nodes, NEW f \in Frames, NEW i \in Nat \ {0}, NEW st, NEW C, NEW h \in BOOLEAN,
           f.body = Target(n), \A j \in 1 .. (i - 1) : f.body[j] \in C,
           st \in {"CANCELLED", "PAUSED"} => h
    PROVE  SkipsNone(n, LoopHead(f, i, st), C, h)
  <1>0. i \in Nat /\ i >= 1 /\ Len(f.body) \in Nat /\ f.body \in Seq(Steps)
    BY DEF Frames
  <1>1. CASE i > Len(f.body)
    <2>1. ToSet(Target(n)) \subseteq C
      BY <1>0, <1>1 DEF ToSet
    <2>2. LoopHead(f, i, st).at = "ended"
      BY <1>1 DEF LoopHead, Frames
    <2> QED BY <2>1, <2>2 DEF SkipsNone
  <1>2. CASE ~(i > Len(f.body)) /\ st = "CANCELLED"
    <2>1. LoopHead(f, i, st).at = "throwing"
      BY <1>2 DEF LoopHead, Frames
    <2> QED BY <2>1 DEF SkipsNone
  <1>3. CASE ~(i > Len(f.body)) /\ st = "PAUSED"
    <2>1. LoopHead(f, i, st).at = "ended"
      BY <1>3 DEF LoopHead, Frames
    <2> QED BY <1>3, <2>1 DEF SkipsNone
  <1>4. CASE ~(i > Len(f.body)) /\ st # "CANCELLED" /\ st # "PAUSED"
    <2>1. LoopHead(f, i, st) = [f EXCEPT !.at = IF registered THEN "step" ELSE "missing", !.next = i]
      BY <1>4 DEF LoopHead
    <2>2. /\ LoopHead(f, i, st).at \in {"step", "missing"}
          /\ LoopHead(f, i, st).next = i /\ LoopHead(f, i, st).body = f.body
      BY <2>1 DEF Frames
    <2> QED BY <2>2 DEF SkipsNone
  <1> QED BY <1>1, <1>2, <1>3, <1>4

LEMMA RunSequentialSkips ==
    ASSUME NEW n \in Nodes, NEW st, NEW C, NEW h \in BOOLEAN, st \in {"CANCELLED", "PAUSED"} => h
    PROVE  SkipsNone(n, RunSequential(NoFrame, Target(n), st), C, h)
  <1> DEFINE empty == NoFrame
             f == [empty EXCEPT !.body = Target(n)]
  <1>1. empty \in Frames /\ Target(n) \in Seq(Steps)
    BY NoFrameSound, TargetList
  <1>2. RunSequential(NoFrame, Target(n), st) = LoopHead(f, 1, st)
    BY DEF RunSequential
  <1> HIDE DEF empty
  <1>3. f \in Frames /\ f.body = Target(n)
    BY <1>1 DEF Frames
  <1> HIDE DEF f
  <1>4. \A j \in 1 .. (1 - 1) : f.body[j] \in C
    OBVIOUS
  <1> QED BY <1>2, <1>3, <1>4, LoopHeadSkips

LEMMA RunParallelSkips ==
    ASSUME NEW n \in Nodes, NEW st, NEW C, NEW h \in BOOLEAN, st \in {"CANCELLED", "PAUSED"} => h
    PROVE  SkipsNone(n, RunParallel(Target(n), st), C, h)
  <1> DEFINE empty == NoFrame
             g == RunParallel(Target(n), st)
  <1>1. empty \in Frames
    BY NoFrameSound
  <1>2. \/ g = [empty EXCEPT !.at = "spread", !.rejected = TRUE] /\ h
        \/ g = [empty EXCEPT !.at = "spread", !.pending = ToSet(Target(n))]
        \/ g = [empty EXCEPT !.at = "lost", !.pending = ToSet(Target(n))]
    BY DEF RunParallel
  <1> HIDE DEF empty, g
  <1>3. g.at \in {"spread", "lost"} /\ (h \/ g.pending = ToSet(Target(n)))
    BY <1>1, <1>2 DEF Frames
  <1> QED BY <1>3 DEF SkipsNone, g

\* A step that completed skipped none of its own.
LEMMA StepSkipsNone ==
    ASSUME NothingSkipped, NEW s \in Steps, StepState("execute", s) = "COMPLETED",
           workflow.type[s] \in {"sequence", "parallel"}
    PROVE  Halted \/ ToSet(Children[s]) \subseteq CarriedOut
  <1>1. s \in Nodes /\ s # Root /\ Whole(s)
    BY Ids DEF Whole
  <1>2. SkipsNone(s, frame["execute"][s], CarriedOut, Halted) /\ Target(s) = Children[s]
    BY <1>1 DEF NothingSkipped, Target
  <1>3. frame["execute"][s].at \in {"completed", "ended"} \/ Children[s] = <<>>
    BY DEF StepState
  <1>4. CASE Children[s] = <<>>
    BY <1>4, Ids
  <1>5. CASE Children[s] # <<>>
    BY <1>2, <1>3, <1>5 DEF SkipsNone
  <1> QED BY <1>4, <1>5

\* The runs of execute change so that none skips a step.
SkipsMove ==
    /\ \A n \in Nodes : frame'["execute"][n] = frame["execute"][n] \/
         (Whole(n) => SkipsNone(n, frame'["execute"][n], CarriedOut', Halted))
    /\ CarriedOut \subseteq CarriedOut'
    /\ \A s \in ToSet(completedSteps)' : s \in ToSet(completedSteps) \/
         (workflow.type[s] \in {"sequence", "parallel"} => Halted \/ ToSet(Children[s]) \subseteq CarriedOut)

LEMMA SkipsKept ==
    ASSUME NothingSkipped, SkipsMove, workflow' = workflow, Halted => Halted',
           state' = "COMPLETED" => state = "COMPLETED" \/ ToSet(Roots) \subseteq CarriedOut
    PROVE  NothingSkipped'
  <1>1. ASSUME NEW n \in Nodes, Whole(n)'
        PROVE  SkipsNone(n, frame'["execute"][n], CarriedOut', Halted')
    <2>1. Whole(n) /\ SkipsNone(n, frame["execute"][n], CarriedOut, Halted)
      BY <1>1 DEF Whole, NothingSkipped
    <2>2. SkipsNone(n, frame'["execute"][n], CarriedOut', Halted)
      BY <2>1 DEF SkipsMove, SkipsNone
    <2> QED BY <2>2 DEF SkipsNone
  <1>2. ASSUME NEW s \in ToSet(completedSteps)', workflow.type[s] \in {"sequence", "parallel"}
        PROVE  Halted' \/ ToSet(Children[s]) \subseteq CarriedOut'
    BY <1>2 DEF SkipsMove, NothingSkipped
  <1>3. state' = "COMPLETED" => ToSet(Roots) \subseteq CarriedOut'
    BY DEF SkipsMove, NothingSkipped
  <1> QED BY <1>1, <1>2, <1>3 DEF NothingSkipped

LEMMA ProceedSkips ==
    ASSUME FramesSound, NEW n \in Nodes, frame["execute"][n].at \in {"step", "missing"},
           NEW C, NEW h \in BOOLEAN, SkipsNone(n, frame["execute"][n], C, h), Current("execute", n) \in C,
           state \in {"CANCELLED", "PAUSED"} => h
    PROVE  /\ SkipsNone(n, LoopHead(frame["execute"][n], frame["execute"][n].next + 1, state), C, h)
           /\ \A goOn \in BOOLEAN : SkipsNone(n, Proceed(frame["execute"][n], goOn), C, h)
  <1> DEFINE f == frame["execute"][n]
             i == f.next + 1
  <1>1. f \in Frames /\ i \in Nat \ {0} /\ f.next \in Nat
    BY CurrentSound DEF Runners, Frames
  <1>2. f.body = Target(n) /\ \A j \in 1 .. (f.next - 1) : f.body[j] \in C
    BY DEF SkipsNone
  <1>3. f.body[f.next] \in C
    BY DEF Current
  <1> HIDE DEF f
  <1>4. \A j \in 1 .. (i - 1) : f.body[j] \in C
    <2>1. \A j \in 1 .. (i - 1) : j \in 1 .. (f.next - 1) \/ j = f.next
      BY <1>1
    <2> QED BY <1>2, <1>3, <2>1
  <1> HIDE DEF i
  <1>5. SkipsNone(n, LoopHead(f, i, state), C, h)
    BY <1>1, <1>2, <1>4, LoopHeadSkips
  <1>6. [f EXCEPT !.at = "throwing"].at = "throwing"
    BY <1>1 DEF Frames
  <1>7. SkipsNone(n, [f EXCEPT !.at = "throwing"], C, h)
    BY <1>6 DEF SkipsNone
  <1> QED BY <1>5, <1>7 DEF Proceed, f, i

LEMMA Grows ==
    ASSUME StepLists, NEW s \in Steps, completedSteps' = Append(completedSteps, s)
    PROVE  ToSet(completedSteps)' = ToSet(completedSteps) \cup {s}
  BY DEF StepLists, ToSet

LEMMA StepCompletesSkips ==
    ASSUME FramesSound, AllReached, StepLists, NothingSkipped, NEW n \in Nodes, StepCompletes("execute", n)
    PROVE  SkipsMove
  <1> DEFINE r == "execute"
             f == frame[r][n]
             g == LoopHead(f, f.next + 1, state)
  <1>0. r \in Runners /\ Halted \in BOOLEAN
    BY DEF Runners, Halted
  <1>1. /\ f.at = "step" /\ Settles(r, n, Current(r, n), g) /\ failedSteps' = failedSteps
        /\ StepState(r, Current(r, n)) = "COMPLETED" /\ completedSteps' = Append(completedSteps, Current(r, n))
        /\ UNCHANGED <<workflow, runner>>
    BY DEF StepCompletes
  <1>2. PICK s \in Steps : s = Current(r, n)
    BY <1>0, <1>1, CurrentSound
  <1>3. ToSet(completedSteps)' = ToSet(completedSteps) \cup {s}
    BY <1>1, <1>2, Grows
  <1>4. CarriedOut \subseteq CarriedOut' /\ s \in CarriedOut'
    BY <1>1, <1>3 DEF CarriedOut
  <1>5. /\ Only(r, {n, s}) /\ frame'[r][n] = g /\ frame'[r][s] = NoFrame
    BY <1>0, <1>1, <1>2, CurrentSettles
  <1>6. Whole(n) => SkipsNone(n, f, CarriedOut', Halted)
    BY <1>4 DEF NothingSkipped, SkipsNone
  <1>7. Whole(n) => SkipsNone(n, g, CarriedOut', Halted)
    BY <1>0, <1>1, <1>2, <1>4, <1>6, ProceedSkips DEF Halted
  <1>8. SkipsNone(s, NoFrame, CarriedOut', Halted)
    BY DEF SkipsNone, NoFrame
  <1>9. workflow.type[s] \in {"sequence", "parallel"} => Halted \/ ToSet(Children[s]) \subseteq CarriedOut
    BY <1>1, <1>2, StepSkipsNone
  <1> HIDE DEF f, g
  <1>10. ASSUME NEW m \in Nodes
         PROVE  frame'[r][m] = frame[r][m] \/ (Whole(m) => SkipsNone(m, frame'[r][m], CarriedOut', Halted))
    <2>1. CASE m = n
      BY <1>5, <1>7, <2>1
    <2>2. CASE m = s
      BY <1>5, <1>8, <2>2
    <2>3. CASE m \notin {n, s}
      BY <1>0, <1>5, <2>3 DEF Only
    <2> QED BY <2>1, <2>2, <2>3
  <1> QED BY <1>3, <1>4, <1>9, <1>10 DEF SkipsMove

LEMMA StepFailsSkips ==
    ASSUME FramesSound, AllReached, StepLists, NothingSkipped, NEW n \in Nodes, StepFails("execute", n)
    PROVE  SkipsMove
  <1> DEFINE r == "execute"
             f == frame[r][n]
             goOn == ShouldContinueOnFailure(failureCount + 1)
             g == Proceed(f, goOn)
  <1>0. r \in Runners /\ Halted \in BOOLEAN
    BY DEF Runners, Halted
  <1>1. /\ f.at = "step" /\ Settles(r, n, Current(r, n), g)
        /\ failedSteps' = failedSteps \cup {Current(r, n)}
        /\ StepState(r, Current(r, n)) = "FAILED" /\ completedSteps' = completedSteps
        /\ UNCHANGED <<workflow, runner>>
    BY DEF StepFails
  <1>g. goOn \in BOOLEAN
    BY DEF ShouldContinueOnFailure
  <1> HIDE DEF goOn
  <1>2. PICK s \in Steps : s = Current(r, n)
    BY <1>0, <1>1, CurrentSound
  <1>4. CarriedOut \subseteq CarriedOut' /\ s \in CarriedOut'
    BY <1>1, <1>2 DEF CarriedOut
  <1>5. /\ Only(r, {n, s}) /\ frame'[r][n] = g /\ frame'[r][s] = NoFrame
    BY <1>0, <1>1, <1>2, CurrentSettles
  <1>6. Whole(n) => SkipsNone(n, f, CarriedOut', Halted)
    BY <1>4 DEF NothingSkipped, SkipsNone
  <1>7. Whole(n) => SkipsNone(n, g, CarriedOut', Halted)
    BY <1>0, <1>g, <1>1, <1>2, <1>4, <1>6, ProceedSkips DEF Halted
  <1>8. SkipsNone(s, NoFrame, CarriedOut', Halted)
    BY DEF SkipsNone, NoFrame
  <1> HIDE DEF f, g
  <1>10. ASSUME NEW m \in Nodes
         PROVE  frame'[r][m] = frame[r][m] \/ (Whole(m) => SkipsNone(m, frame'[r][m], CarriedOut', Halted))
    <2>1. CASE m = n
      BY <1>5, <1>7, <2>1
    <2>2. CASE m = s
      BY <1>5, <1>8, <2>2
    <2>3. CASE m \notin {n, s}
      BY <1>0, <1>5, <2>3 DEF Only
    <2> QED BY <2>1, <2>2, <2>3
  <1> QED BY <1>1, <1>4, <1>10 DEF SkipsMove

LEMMA StepThrowsSkips ==
    ASSUME FramesSound, NothingSkipped, NEW n \in Nodes, StepThrows("execute", n)
    PROVE  SkipsMove
  <1> DEFINE r == "execute"
             f == frame[r][n]
             goOn == ShouldContinueOnFailure(failureCount + 1)
             g == Proceed(f, goOn)
  <1>0. r \in Runners /\ Halted \in BOOLEAN
    BY DEF Runners, Halted
  <1>1. /\ f.at = "missing" /\ failedSteps' = failedSteps \cup {Current(r, n)}
        /\ completedSteps' = completedSteps
    BY DEF StepThrows
  <1>2. frame' = [frame EXCEPT ![r][n] = g]
    BY <1>0 DEF StepThrows, FramesSound
  <1>g. goOn \in BOOLEAN
    BY DEF ShouldContinueOnFailure
  <1> HIDE DEF goOn
  <1>4. CarriedOut \subseteq CarriedOut' /\ Current(r, n) \in CarriedOut'
    BY <1>1 DEF CarriedOut
  <1>5. Only(r, {n}) /\ frame'[r][n] = g
    BY <1>0, <1>2, OneOnly
  <1>6. Whole(n) => SkipsNone(n, f, CarriedOut', Halted)
    BY <1>4 DEF NothingSkipped, SkipsNone
  <1>7. Whole(n) => SkipsNone(n, g, CarriedOut', Halted)
    BY <1>0, <1>g, <1>1, <1>4, <1>6, ProceedSkips DEF Halted
  <1> QED BY <1>0, <1>1, <1>4, <1>5, <1>7 DEF SkipsMove, Only

LEMMA ParallelStepSettlesSkips ==
    ASSUME FramesSound, AllReached, StepLists, NothingSkipped, NEW n \in Nodes, NEW s \in Steps,
           ParallelStepSettles("execute", n, s)
    PROVE  SkipsMove
  <1> DEFINE r == "execute"
             f == frame[r][n]
             g == [f EXCEPT !.pending = @ \ {s}]
  <1>0. r \in Runners
    BY DEF Runners
  <1>1. /\ f.at = "spread" /\ s \in f.pending /\ Settles(r, n, s, g)
        /\ StepState(r, s) \in {"COMPLETED", "FAILED"}
    BY DEF ParallelStepSettles
  <1>2. Awaits(r, n, s)
    BY <1>1 DEF Awaits
  <1>3. n # s
    BY <1>0, <1>1, <1>2, NotItself
  <1>4. f \in Frames
    BY <1>0 DEF FramesSound
  <1>5. g.at = "spread" /\ g.pending = f.pending \ {s}
    <2> HIDE DEF f
    <2> QED BY <1>1, <1>4 DEF Frames
  <1> HIDE DEF g
  <1>6. Only(r, {n, s}) /\ frame'[r][n] = g /\ frame'[r][s] = NoFrame
    BY <1>0, <1>1, <1>3, SettlesOnly
  <1>7. /\ CarriedOut \subseteq CarriedOut' /\ s \in CarriedOut'
        /\ \A t \in ToSet(completedSteps)' : t \in ToSet(completedSteps) \/
             (t = s /\ StepState(r, s) = "COMPLETED")
    <2>1. CASE StepState(r, s) = "COMPLETED" /\ completedSteps' = Append(completedSteps, s) /\ failedSteps' = failedSteps
      BY <2>1, Grows DEF CarriedOut
    <2>2. CASE failedSteps' = failedSteps \cup {s} /\ completedSteps' = completedSteps
      BY <2>2 DEF CarriedOut
    <2> QED BY <2>1, <2>2 DEF ParallelStepSettles
  <1>8. \A t \in ToSet(completedSteps)' : t \in ToSet(completedSteps) \/
          (workflow.type[t] \in {"sequence", "parallel"} => Halted \/ ToSet(Children[t]) \subseteq CarriedOut)
    BY <1>7, StepSkipsNone
  <1>9. Whole(n) => SkipsNone(n, f, CarriedOut, Halted)
    BY DEF NothingSkipped
  <1>10. Whole(n) => SkipsNone(n, g, CarriedOut', Halted)
    BY <1>1, <1>5, <1>7, <1>9 DEF SkipsNone
  <1>11. SkipsNone(s, NoFrame, CarriedOut', Halted)
    BY DEF SkipsNone, NoFrame
  <1> HIDE DEF f
  <1>12. ASSUME NEW m \in Nodes
         PROVE  frame'[r][m] = frame[r][m] \/ (Whole(m) => SkipsNone(m, frame'[r][m], CarriedOut', Halted))
    <2>1. CASE m = n
      BY <1>6, <1>10, <2>1
    <2>2. CASE m = s
      BY <1>6, <1>11, <2>2
    <2>3. CASE m \notin {n, s}
      BY <1>0, <1>6, <2>3 DEF Only
    <2> QED BY <2>1, <2>2, <2>3
  <1> QED BY <1>7, <1>8, <1>12 DEF SkipsMove

LEMMA ParallelStepsThrowSkips ==
    ASSUME FramesSound, NothingSkipped, NEW n \in Nodes, ParallelStepsThrow("execute", n)
    PROVE  SkipsMove
  <1> DEFINE r == "execute"
             f == frame[r][n]
             g == [f EXCEPT !.at = "spread", !.pending = {}, !.rejected = TRUE]
  <1>0. r \in Runners
    BY DEF Runners
  <1>1. f.at = "lost" /\ failedSteps' = failedSteps \cup f.pending /\ completedSteps' = completedSteps
    BY DEF ParallelStepsThrow
  <1>2. frame' = [frame EXCEPT ![r][n] = g]
    BY <1>0 DEF ParallelStepsThrow, FramesSound
  <1>3. f \in Frames
    BY <1>0 DEF FramesSound
  <1>4. g.at = "spread" /\ g.pending = {}
    <2> HIDE DEF f
    <2> QED BY <1>3 DEF Frames
  <1>5. CarriedOut \subseteq CarriedOut' /\ f.pending \subseteq CarriedOut'
    BY <1>1 DEF CarriedOut
  <1>6. Whole(n) => SkipsNone(n, f, CarriedOut, Halted)
    BY DEF NothingSkipped
  <1> HIDE DEF g
  <1>7. Whole(n) => SkipsNone(n, g, CarriedOut', Halted)
    BY <1>1, <1>4, <1>5, <1>6 DEF SkipsNone
  <1>8. Only(r, {n}) /\ frame'[r][n] = g
    BY <1>0, <1>2, OneOnly
  <1> QED BY <1>0, <1>1, <1>5, <1>7, <1>8 DEF SkipsMove, Only

LEMMA ParallelEndsSkips ==
    ASSUME FramesSound, NothingSkipped, NEW n \in Nodes, ParallelEnds("execute", n)
    PROVE  SkipsMove
  <1> DEFINE r == "execute"
             f == frame[r][n]
             end == IF f.rejected /\ ~ShouldContinueOnFailure(failureCount) THEN "throwing" ELSE "ended"
             g == [f EXCEPT !.at = end]
  <1>0. r \in Runners
    BY DEF Runners
  <1>1. f.at = "spread" /\ f.pending = {} /\ CarriedOut' = CarriedOut /\ completedSteps' = completedSteps
    BY DEF ParallelEnds, progress, CarriedOut
  <1>2. frame' = [frame EXCEPT ![r][n] = g]
    BY <1>0 DEF ParallelEnds, FramesSound
  <1>3. f \in Frames
    BY <1>0 DEF FramesSound
  <1>4. g.at \in {"throwing", "ended"}
    <2>1. end \in {"throwing", "ended"}
      OBVIOUS
    <2> HIDE DEF f, end
    <2> QED BY <1>3, <2>1 DEF Frames
  <1>6. Whole(n) => SkipsNone(n, f, CarriedOut, Halted)
    BY DEF NothingSkipped
  <1> HIDE DEF g
  <1>7. Whole(n) => SkipsNone(n, g, CarriedOut', Halted)
    BY <1>1, <1>4, <1>6 DEF SkipsNone
  <1>8. Only(r, {n}) /\ frame'[r][n] = g
    BY <1>0, <1>2, OneOnly
  <1> QED BY <1>0, <1>1, <1>7, <1>8 DEF SkipsMove, Only

LEMMA ExecuteStepSkips ==
    ASSUME FramesSound, NothingSkipped, NEW s \in Steps, ExecuteStep("execute", s)
    PROVE  SkipsMove
  <1> DEFINE r == "execute"
  <1>0. r \in Runners /\ s \in Nodes /\ s # Root
    BY Ids DEF Runners
  <1>1. PICK f \in CASE workflow.type[s] = "sequence" -> {RunSequential(NoFrame, Children[s], state)}
                     [] workflow.type[s] = "parallel" -> {RunParallel(Children[s], state)}
                     [] workflow.type[s] = "conditional" -> RunConditional(s, state)
                     [] OTHER -> {[NoFrame EXCEPT !.at = "testing"]} :
              frame' = [frame EXCEPT ![r][s] = f]
    BY DEF ExecuteStep
  <1>2. /\ workflow.type[s] = "sequence" => f = RunSequential(NoFrame, Target(s), state)
        /\ workflow.type[s] = "parallel" => f = RunParallel(Target(s), state)
    BY <1>0, <1>1 DEF Target
  <1>h. Halted \in BOOLEAN /\ (state \in {"CANCELLED", "PAUSED"} => Halted)
    BY DEF Halted
  <1>3. Whole(s) => SkipsNone(s, f, CarriedOut, Halted)
    <2>1. CASE workflow.type[s] = "sequence"
      BY <1>0, <1>h, <1>2, <2>1, RunSequentialSkips
    <2>2. CASE workflow.type[s] = "parallel"
      BY <1>0, <1>h, <1>2, <2>2, RunParallelSkips
    <2> QED BY <1>0, <2>1, <2>2 DEF Whole
  <1>4. Only(r, {s}) /\ frame'[r][s] = f
    BY <1>0, <1>1, OneOnly
  <1>5. UNCHANGED <<completedSteps, CarriedOut>>
    BY DEF ExecuteStep, progress, CarriedOut
  <1> QED BY <1>0, <1>3, <1>4, <1>5 DEF SkipsMove, Only

LEMMA LoopSkips ==
    ASSUME FramesSound, NothingSkipped, NEW s \in Steps, RunLoop("execute", s) \/ LoopBodyEnds("execute", s)
    PROVE  SkipsMove
  <1>0. "execute" \in Runners /\ s \in Nodes /\ s # Root
    BY Ids DEF Runners
  <1>1. Only("execute", {s}) /\ CarriedOut' = CarriedOut /\ completedSteps' = completedSteps
    BY <1>0 DEF RunLoop, LoopBodyEnds, progress, CarriedOut, FramesSound, Only
  <1>2. ~Whole(s)
    <2>1. CASE RunLoop("execute", s)
      BY <1>0, <2>1 DEF RunLoop, NothingSkipped, SkipsNone
    <2>2. CASE LoopBodyEnds("execute", s)
      BY <1>0, <2>2 DEF LoopBodyEnds, IsLoop, LoopTypes, Whole
    <2> QED BY <2>1, <2>2
  <1> QED BY <1>0, <1>1, <1>2 DEF SkipsMove, Only

LEMMA WalksSkip ==
    ASSUME FramesSound, AllReached, StepLists, NeverResumed, NothingSkipped, Walks
    PROVE  SkipsMove
  <1>1. ASSUME NEW r \in Runners, NEW n \in Nodes,
               StepCompletes(r, n) \/ StepFails(r, n) \/ StepThrows(r, n)
                 \/ ParallelStepsThrow(r, n) \/ ParallelEnds(r, n)
        PROVE  SkipsMove
    <2>1. Alive(r, n)
      BY <1>1 DEF StepCompletes, StepFails, StepThrows, ParallelStepsThrow, ParallelEnds, Alive
    <2>2. r = "execute"
      BY <2>1, RunsOfExecute
    <2> QED BY <1>1, <2>2, StepCompletesSkips, StepFailsSkips, StepThrowsSkips, ParallelStepsThrowSkips,
               ParallelEndsSkips
  <1>2. ASSUME NEW r \in Runners, NEW n \in Nodes, NEW s \in Steps, ParallelStepSettles(r, n, s)
        PROVE  SkipsMove
    <2>1. Alive(r, n)
      BY <1>2 DEF ParallelStepSettles, Alive
    <2>2. r = "execute"
      BY <2>1, RunsOfExecute
    <2> QED BY <1>2, <2>2, ParallelStepSettlesSkips
  <1>3. ASSUME NEW r \in Runners, NEW s \in Steps, ExecuteStep(r, s)
        PROVE  SkipsMove
    <2>1. \E n \in Nodes : Alive(r, n)
      BY <1>3 DEF ExecuteStep, Executing, Alive
    <2>2. r = "execute"
      BY <2>1, RunsOfExecute
    <2> QED BY <1>3, <2>2, ExecuteStepSkips
  <1>4. ASSUME NEW r \in Runners, NEW s \in Steps, RunLoop(r, s) \/ LoopBodyEnds(r, s)
        PROVE  SkipsMove
    <2>1. Alive(r, s) /\ s \in Nodes
      BY <1>4, Ids DEF RunLoop, LoopBodyEnds, Alive
    <2>2. r = "execute"
      BY <2>1, RunsOfExecute
    <2> QED BY <1>4, <2>2, LoopSkips
  <1> QED BY <1>1, <1>2, <1>3, <1>4, Zenon DEF Walks

LEMMA InitSkips == Init => NothingSkipped
  <1>1. Init => /\ \A n \in Nodes : frame["execute"][n].at = "none"
                /\ completedSteps = <<>> /\ state = "NONE"
    BY DEF Init, NoFrame, Runners
  <1> QED BY <1>1, Ids DEF NothingSkipped, SkipsNone

LEMMA SkipsStep ==
    ASSUME RecordFirst, FramesSound, AllReached, StepLists, NeverResumed => NothingSkipped, [Next]_vars
    PROVE  NeverResumed' => NothingSkipped'
  <1> SUFFICES ASSUME NeverResumed' PROVE NothingSkipped'
    OBVIOUS
  <1>0. "execute" \in Runners /\ Root \in Nodes /\ Whole(Root) /\ Target(Root) = Roots
    BY Ids DEF Runners, Whole, Target
  <1>n. NeverResumed /\ NothingSkipped /\ ~ResumeGoesOn
    BY NeverBefore
  <1>1. CASE ExecuteRuns
    <2>1. /\ ExecuteWorkflowSteps("execute", "RUNNING") /\ state' = "RUNNING" /\ workflow' = workflow
          /\ UNCHANGED <<completedSteps, CarriedOut>> /\ runner["execute"].at = "find"
      BY <1>1 DEF ExecuteRuns, progress, CarriedOut
    <2>2. PICK g : frame' = [frame EXCEPT !["execute"][Root] = g] /\
                   (g = RunParallel(Roots, "RUNNING") \/ g = RunSequential(NoFrame, Roots, "RUNNING"))
      BY <2>1 DEF ExecuteWorkflowSteps
    <2>3. \A h \in BOOLEAN : SkipsNone(Root, g, CarriedOut, h)
      BY <1>0, <2>2, RunSequentialSkips, RunParallelSkips
    <2>4. Only("execute", {Root}) /\ frame'["execute"][Root] = g
      BY <1>0, <2>2, OneOnly
    <2>5. SkipsMove
      <3>0. Halted \in BOOLEAN
        BY DEF Halted
      <3>1. SkipsNone(Root, g, CarriedOut, Halted) /\ CarriedOut' = CarriedOut
        BY <2>1, <2>3, <3>0
      <3>2. \A n \in Nodes : n = Root \/ frame'["execute"][n] = frame["execute"][n]
        BY <1>0, <2>4 DEF Only
      <3>3. \A n \in Nodes : frame'["execute"][n] = frame["execute"][n] \/
                               (Whole(n) => SkipsNone(n, frame'["execute"][n], CarriedOut', Halted))
        BY <2>4, <3>1, <3>2
      <3>4. ToSet(completedSteps)' = ToSet(completedSteps)
        BY <2>1
      <3> QED BY <3>1, <3>3, <3>4 DEF SkipsMove
    <2>6. state = "NONE"
      BY <2>1 DEF RecordFirst
    <2> QED BY <1>n, <2>1, <2>5, <2>6, SkipsKept DEF Halted
  <1>2. CASE Walks
    <2>1. UNCHANGED <<workflow, state>>
      BY <1>2, WalksWriteNoState
    <2> QED BY <1>n, <1>2, <2>1, WalksSkip, SkipsKept DEF Halted
  <1>3. CASE ExecuteReturns
    <2>1. /\ frame["execute"][Root].at = "ended"
          /\ state' = IF state = "RUNNING" THEN "COMPLETED" ELSE state
          /\ UNCHANGED <<workflow, frame, completedSteps, CarriedOut>>
      BY <1>3 DEF ExecuteReturns, StepsEnded, FinalState, progress, CarriedOut
    <2>2. Halted \/ ToSet(Roots) \subseteq CarriedOut
      BY <1>0, <1>n, <2>1 DEF NothingSkipped, SkipsNone
    <2>3. SkipsMove
      BY <2>1 DEF SkipsMove
    <2> QED BY <1>n, <2>1, <2>2, <2>3, SkipsKept DEF Halted
  <1>4. CASE \/ Execute \/ ExecuteCatches \/ CompensateStep \/ Cancel \/ Pause \/ TimeoutFires
             \/ RegistryChanges \/ UNCHANGED vars
    <2>1. /\ state' = state \/ state' \in {"FAILED", "CANCELLED", "PAUSED"}
          /\ UNCHANGED <<workflow, frame, completedSteps, CarriedOut>>
      BY <1>4 DEF Execute, ExecuteCatches, CompensateStep, Cancel, Pause, TimeoutFires, RegistryChanges,
                  RegisterWorkflow, RemoveWorkflow, vars, progress, CarriedOut
    <2>2. SkipsMove
      BY <2>1 DEF SkipsMove
    <2> QED BY <1>n, <2>1, <2>2, SkipsKept DEF Halted
  <1> QED BY <1>n, <1>1, <1>2, <1>3, <1>4, Split

-----------------------------------------------------------------------------
\* The invariant of the engine, each part of which a step keeps with the help of those
\* above it.
EngineInv ==
    /\ RecordFirst
    /\ FramesSound
    /\ FailureSurfaces
    /\ AllReached
    /\ StepLists
    /\ NeverResumed => Compensated
    /\ NeverResumed => NothingSkipped

LEMMA EngineInvariant == Spec => []EngineInv
  <1>1. Init => EngineInv
    <2>1. Init => FramesSound /\ FailureSurfaces
      BY NoFrameSound DEF Init, FramesSound, FailureSurfaces
    <2> QED BY <2>1, InitRecord, InitReached, InitCompensated, InitSkips DEF EngineInv
  <1>2. EngineInv /\ [Next]_vars => EngineInv'
    <2> SUFFICES ASSUME EngineInv, [Next]_vars PROVE EngineInv'
      OBVIOUS
    <2>1. RecordFirst' /\ FramesSound' /\ FailureSurfaces'
      BY RecordStep, SurfaceStep DEF EngineInv
    <2>2. AllReached'
      BY ReachedStep DEF EngineInv
    <2>3. StepLists' /\ (NeverResumed' => Compensated')
      BY CompensatedStep DEF EngineInv
    <2>4. NeverResumed' => NothingSkipped'
      BY SkipsStep DEF EngineInv
    <2> QED BY <2>1, <2>2, <2>3, <2>4 DEF EngineInv
  <1> QED BY <1>1, <1>2, PTL DEF Spec

\* When execute has failed and compensation is required, what was compensated is
\* what was completed, step by step in the reverse order, whatever was nested, run
\* in parallel or repeated by loops.
THEOREM CompensatesInReverse == Spec => []CompensationUndoesAll
  <1>1. EngineInv => CompensationUndoesAll
    BY DEF EngineInv, Compensated, CompensationUndoesAll
  <1> QED BY <1>1, EngineInvariant, PTL

\* An execution that was never resumed is COMPLETED only after it has carried out
\* every root step, and every step of the sequences and parallel steps it completed.
THEOREM NoStepSkipped == Spec => []CompletedRanEverything
  <1>1. EngineInv => CompletedRanEverything
    BY DEF EngineInv, NothingSkipped, CompletedRanEverything, CarriedOut, Halted
  <1> QED BY <1>1, EngineInvariant, PTL
=============================================================================
