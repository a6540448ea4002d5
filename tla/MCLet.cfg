SPECIFICATION Spec
CONSTANTS
    Fields <- MCFields
    Declared <- MCDeclared
    Starts <- MCStarts
    Members <- MCMembers
    CastTypes <- MCCastTypes
    DeclTypes <- MCDeclTypes
    NewNames <- MCNewNames
    MaxSize = 2
CHECK_DEADLOCK FALSE
INVARIANT LetIsKept
