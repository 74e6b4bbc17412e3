SPECIFICATION FairSpec
CONSTANTS
    MaxQueueSize = 2
    MaxBatchSize = 2
    MaxConsecutiveFailures = 2
    MaxBurst = 1
    MaxMessages = 4
    MaxCalls = 4
CHECK_DEADLOCK FALSE
INVARIANTS TypeOK WrittenMeansDelivered NotOvertaken QueueBounded NobodyIsForgotten
PROPERTIES ImplementsFeed CallersReturn
