SPECIFICATION FairSpec
CONSTANTS
    w1 = w1
    d1 = d1
    s1 = s1
    r1 = r1
    Workers <- OneWorker
    Docs <- OneDoc
    MaxMemo = 0
    Scans <- NoTokens
    Rebuilds <- NoTokens
    MaxHour = 1
    MaxVersion = 2
    MaxAttempts = 1
    MaxJobsPerCycle = 1
    MaxFaults = 1
    MaxRequests = 0
PROPERTIES EveryCurrentDocumentAnalysed
