SPECIFICATION Spec
CONSTANTS
    Steps <- MCSteps
    Roots <- MCRoots
    Children <- MCChildren
    Branches <- MCBranches
    MaxIterations <- MCMaxIterations
    r1 = r1
    Resumes = {r1}
    MaxRegistrations = 1
    Workflows <- ParallelOnly
INVARIANT ParallelFailFast
CHECK_DEADLOCK FALSE
