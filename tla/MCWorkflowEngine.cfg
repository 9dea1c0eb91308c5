SPECIFICATION FairSpec
CONSTANTS
    Steps <- MCSteps
    Roots <- MCRoots
    Children <- MCChildren
    Branches <- MCBranches
    MaxIterations <- MCMaxIterations
    r1 = r1
    Resumes = {r1}
    MaxRegistrations = 1
    Workflows <- MCWorkflows
INVARIANTS FailureSurfaces CompletedRanEverything CompensationUndoesAll
PROPERTIES EndedStaysEnded ExecuteSettles
CHECK_DEADLOCK FALSE
