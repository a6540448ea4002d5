SPECIFICATION FlowSpec
CONSTANTS
    Name = {}
    Node = {}
    File = {me}
    Self = me
    None = None
    InitialLevels = 2
    MaxLevel = 4
    MaxGlobals = 0
    MaxPending = 7
    Construct = {"block", "fn", "else", "elseif", "while", "for", "break", "continue"}
INVARIANTS
    LevelsMatchVisits
    RejectedFunctionsFallThrough
CHECK_DEADLOCK FALSE
