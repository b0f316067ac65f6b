SPECIFICATION Spec
CONSTANTS
    NoBlock = NoBlock
    Genesis = 0
    Blocks <- DeepBlocks
    Path <- DeepPath
    ChainWork <- DeepWork
    BlockTxs <- DeepTxs
    Ours = {"a", "b"}
    StartHeight = 1
    SkipsKnown = TRUE
    MaxConnects = 1
    MaxVaultOps = 1
INVARIANTS
    VaultIsChain
    QueueIsRestOfBlock
    BlockCompletesQueue
PROPERTIES
    PushedOffGoesToMempool
CHECK_DEADLOCK FALSE
