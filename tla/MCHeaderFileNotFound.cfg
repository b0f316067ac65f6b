SPECIFICATION FileSpec
CONSTANTS
    Header <- MCHeader
    Genesis = 0
    NoHeader <- MCNoHeader
    Prev <- MCPrev
    Work <- MCWork
    ValidPow <- MCHeader
    ChunkRecords = 3
    MaxErrors = 0
INVARIANTS
    NotFoundMeansMissing
