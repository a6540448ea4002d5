SPECIFICATION Spec
CONSTANTS
    Half = 8
    Literals <- MCLiterals
CHECK_DEADLOCK FALSE
INVARIANTS TypeOK ConstantsMeanTheirSource ElementsInOrder
PROPERTY LoopsEnd
