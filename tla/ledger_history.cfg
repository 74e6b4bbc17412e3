SPECIFICATION Spec
CONSTANTS
    i1 = i1
    i2 = i2
    s1 = s1
    s2 = s2
    s3 = s3
    r1 = r1
    r2 = r2
    NoItem = NoItem
    Items <- TwoItems
    Readings <- ThreeReadings
    Candidates <- TwoKeys
    Sources <- ThreeSources
    Rebuilds <- LastSource
    Rules <- NoneOfThem
    DefaultRules <- NoneOfThem
    Legacy <- OldItem
    MaxLen = 2
    MaxNo = 4
    MaxAttempts = 3
    MaxDay = 0
INVARIANTS TypeOK HistoryIsDocumented
PROPERTIES ImplementsHistory
