SPECIFICATION Spec
CONSTANTS
    Fields <- MCFields
    Declared <- MCDeclared
    Starts <- MCStarts
    Members <- MCMembers
    CastTypes <- MCCastTypes
    DeclTypes <- MCDeclTypes
    NewNames <- MCNewNames
    MaxSize = 4
CHECK_DEADLOCK FALSE
INVARIANTS TypeOK PlainMeansSource PlainCompiles ImmutableIsKept
