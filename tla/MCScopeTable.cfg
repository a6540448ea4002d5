SPECIFICATION Spec
CONSTANTS
    Name = {x}
    Node = {n1, n2}
    File = {me, lib}
    Self = me
    None = None
    InitialLevels = 1
    MaxLevel = 2
    MaxGlobals = 2
SYMMETRY Symmetry
INVARIANTS
    TypeOK
    BelowIsClean
    LevelAllocated
PROPERTIES
    ImplementsLexicalScopes
    ResolutionStable
    LoadingKeepsMeaning
    FlagOutlivesScope
