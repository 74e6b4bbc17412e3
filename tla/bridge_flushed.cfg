SPECIFICATION Spec
CONSTANTS
    History = 1
    HistoryCap = 0
    FlushedBefore = {}
    MaxLive = 1
    MaxTransports = 2
    MaxSessions = 2
    MaxFaults = 1
CHECK_DEADLOCK FALSE
INVARIANTS FlushedWereDelivered
