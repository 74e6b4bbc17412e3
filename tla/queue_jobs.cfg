SPECIFICATION Spec
CONSTANTS
    w1 = w1
    d1 = d1
    s1 = s1
    r1 = r1
    Workers <- OneWorker
    Docs <- NoTokens
    MaxMemo = 2
    Scans <- NoTokens
    Rebuilds <- OneRebuild
    MaxHour = 0
    MaxVersion = 1
    MaxAttempts = 2
    MaxJobsPerCycle = 2
    MaxFaults = 1
    MaxRequests = 2
INVARIANTS TypeOK RetryBudget WorkerOwnsItsJob GivesUpExhausted
PROPERTIES ImplementsLifecycle RebuildOnce
