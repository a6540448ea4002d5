SPECIFICATION FlowSpec
CONSTANTS
    Name = {}
    Node = {}
    File = {me}
    Self = me
    None = None
    InitialLevels = 2
    MaxLevel = 2
    MaxGlobals = 0
    MaxPending = 3
    Construct = {"else"}
INVARIANT AcceptedFunctionsReturn
CHECK_DEADLOCK FALSE
