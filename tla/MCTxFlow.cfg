CONSTANTS
    Txs = {t1, t2}
    Keychains = {a, b}
    Private = {a, b}
    Encrypted = {a, b}
    MinSigs = 2
    t1 = t1
    t2 = t2
    Inputs <- ChainInputs
    Segwit = FALSE
    MaxSignals = 1
    None = None
SPECIFICATION Spec
INVARIANTS SentHasMinSigs RefreshIsQueued
PROPERTIES SignedStaysSigned DeletesWhatWasAsked
SYMMETRY KeychainSymmetry
