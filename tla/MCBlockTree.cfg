SPECIFICATION Spec
CONSTANTS
    Header <- MCHeader
    Genesis = 0
    NoHeader <- MCNoHeader
    Prev <- MCPrev
    Work <- MCWork
    ValidPow <- MCValidPow
INVARIANTS
    BestChainIsPath
    HeightMapIndexesBestChain
    TipHasMostWork
    Inv
PROPERTIES
    HeadOnlyGainsWork
    InsertReturns
    ImplementsHeaderTree
