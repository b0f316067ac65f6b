SPECIFICATION Spec
CONSTANTS
    MaxStarts = 3
    MaxFaults = 1
    MaxQueue = 1
    MaxPings = 1
INVARIANTS
    PopsWhatItWrote
    NothingFromEarlierConnection
    VersionFirst
    QueueHasWriter
PROPERTIES
    FirstConnectionOpens
CHECK_DEADLOCK FALSE
