SPECIFICATION Spec
CONSTANTS
    Vaults = {u, v, w}
    Accounts = {a, b}
    MAX_RECENTS = 2
    MaxSignals = 1
    MaxCommands = 1
    MaxKeychains = 2
    None = None
INVARIANTS
    NoDanglingVault
    AccountRowsMirrorVault
    SelectionShowsItsTxs
    ThrowsOnlyAfterLostVault
    RecentsHeadIsOpenVault
