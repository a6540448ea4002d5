SPECIFICATION FairSpec
CONSTANT Sources <- Short
INVARIANTS
    TypeOK
    WindowIsConsecutive
    OnlyCommentsAreSkipped
    WindowIsTheRest
    ReportShowsToken
PROPERTY EarlierLinesAreReported
