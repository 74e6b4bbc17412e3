SPECIFICATION FairSpec
CONSTANTS
    History = 2
    HistoryCap = 1
    FlushedBefore = {2}
    MaxLive = 2
    MaxTransports = 2
    MaxSessions = 2
    MaxFaults = 1
CHECK_DEADLOCK FALSE
INVARIANTS TypeOK GateFollowsFlush LiveInOrder HistoryFirst FlushedUnlessCutOff
PROPERTIES ImplementsFeeds GateDrains
