SPECIFICATION Spec
CONSTANTS
    Size = 4
    CompSize = 3
    Programs <- MCPrograms
INVARIANTS
    TypeOK
    PlainIfsRun
    PlainProgramsAreAccepted
CHECK_DEADLOCK FALSE
