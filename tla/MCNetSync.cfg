SPECIFICATION Spec
CONSTANTS
    NoBlock = NoBlock
    Genesis = 0
    Blocks <- LinearBlocks
    Path <- LinearPath
    ChainWork <- LinearWork
    BlockTxs <- LinearTxs
    Ours = {"a", "b", "c"}
    StartHeight = 1
    SkipsKnown = TRUE
    MaxConnects = 2
    MaxVaultOps = 0
INVARIANTS
    SynchedMeansStored
    CompleteMeansConfirmed
PROPERTIES
    SyncCompletes
CHECK_DEADLOCK FALSE
