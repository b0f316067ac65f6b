SPECIFICATION Spec
CONSTANTS
    a = a
    b = b
    i = i
    p = p
    q = q
    None = None
    Names = {a, b}
    Ids = {i}
    Passphrases = {p, q}
    Files <- MCFiles
    Collisions <- MCCollisions
    OpenedVaults <- MCOpenedVaults
SYMMETRY MCSymmetry
INVARIANTS
    SealedTogether
    ShownSecretsWereUnlocked
    RowsMirrorVault
PROPERTIES
    ReadersRelock
    NothingLost
