SPECIFICATION FairSpec
CONSTANTS
    i1 = i1
    i2 = i2
    s1 = s1
    s2 = s2
    s3 = s3
    r1 = r1
    r2 = r2
    NoItem = NoItem
    Items <- OneItem
    Readings <- TwoReadings
    Candidates <- MixedKey
    Sources <- TwoSources
    Rebuilds <- NoneOfThem
    Rules <- OneRule
    DefaultRules <- OneRule
    Legacy <- NoLegacy
    MaxLen = 1
    MaxNo = 2
    MaxAttempts = 2
    MaxDay = 1
INVARIANTS AlertsHaveEvidence
PROPERTIES SnoozedAlertsReturn
