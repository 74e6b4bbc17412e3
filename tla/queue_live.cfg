SPECIFICATION FairSpec
CONSTANTS
    w1 = w1
    d1 = d1
    s1 = s1
    r1 = r1
    Workers <- OneWorker
    Docs <- NoTokens
    MaxMemo = 1
    Scans <- OneScan
    Rebuilds <- NoTokens
    MaxHour = 0
    MaxVersion = 1
    MaxAttempts = 2
    MaxJobsPerCycle = 1
    MaxFaults = 1
    MaxRequests = 2
PROPERTIES EveryCurrentMemoAnalysed EveryJobSettles
