SPECIFICATION Spec
CONSTANTS
    BlockSize = 8
    NodeSizes = {1, 2, 4, 5, 7}
    FileSizes = {0, 3}
    Ids = 2
    MaxBlocks = 4
    MaxNodes = 6
    MaxFiles = 3
CHECK_DEADLOCK FALSE
INVARIANTS TypeOK NodesApart SourcesFound
