SPECIFICATION Spec
CONSTANTS
    Size = 2
    CompSize = 0
    Programs <- MCPrograms
INVARIANT
    RunsLikeSource
CHECK_DEADLOCK FALSE
