SPECIFICATION Spec
CONSTANTS
    small = small
    large = large
    p = p
    q = q
    r = r
    Type = {small, large}
    Unresolved = Unresolved
    Unknown = Unknown
    None = None
    Coerces <- Widening
    Overloads <- MCOverloads
    Arguments <- MCArguments
INVARIANTS
    TypeOK
    RejectedAreDuplicates
    EqualLengthsResolve
    OverloadedCallsEmit
    ArgumentsReachParameters
