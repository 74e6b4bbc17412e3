SPECIFICATION Spec
CONSTANTS
    i1 = i1
    i2 = i2
    s1 = s1
    s2 = s2
    s3 = s3
    r1 = r1
    r2 = r2
    NoItem = NoItem
    Items <- OneItem
    Readings <- DatedReadings
    Candidates <- DatedKey
    Sources <- OneSource
    Rebuilds <- NoneOfThem
    Rules <- OneRule
    DefaultRules <- OneRule
    Legacy <- NoLegacy
    MaxLen = 1
    MaxNo = 1
    MaxAttempts = 1
    MaxDay = 1
PROPERTIES DueRemindersIssued
