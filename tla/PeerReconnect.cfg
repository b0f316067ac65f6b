SPECIFICATION Spec
CONSTANTS
    MaxStarts = 2
    MaxFaults = 1
    MaxQueue = 1
    MaxPings = 0
PROPERTIES
    ReconnectOpens
CHECK_DEADLOCK FALSE
