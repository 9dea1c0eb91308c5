SPECIFICATION Spec
CONSTANTS
    Steps <- MCSteps
    Roots <- MCRoots
    Children <- MCChildren
    Branches <- MCBranches
    MaxIterations <- MCMaxIterations
    r1 = r1
    Resumes = {r1}
    MaxRegistrations = 1
    Workflows <- SequentialOnly
INVARIANT NoStepRepeated
CHECK_DEADLOCK FALSE
