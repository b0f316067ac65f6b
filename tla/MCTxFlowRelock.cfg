CONSTANTS
    Txs = {t1}
    Keychains = {a, b}
    Private = {a, b}
    Encrypted = {a}
    MinSigs = 2
    t1 = t1
    t2 = t2
    Inputs <- NoInputs
    Segwit = FALSE
    MaxSignals = 1
    None = None
SPECIFICATION Spec
PROPERTIES AddSignatureRelocks
