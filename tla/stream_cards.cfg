SPECIFICATION FairSpec
CONSTANTS
    e1 = e1
    Prompts <- OnePrompt
    PageSize = 1
    MaxPages = 1
    MaxItems = 0
    MaxParks = 3
    MaxBinds = 1
    MaxFaults = 1
CHECK_DEADLOCK FALSE
PROPERTIES VerdictsStand CardsSettle
