SPECIFICATION FairSpec
CONSTANTS
    main = main
    a = a
    b = b
    f = f
    g = g
    h = h
    al = al
    Path = {main, a, b}
    MainPath = main
    Root = 2
    Name = {f, g, h, al}
    None = None
    Program <- Programs
    Debug = TRUE
INVARIANTS
    OneModulePerFile
    StackIsImportChain
    PlainNamesOnlyInCycles
    OnlyImportedSymbols
    UnknownMeansUndeclared
PROPERTY Terminates
