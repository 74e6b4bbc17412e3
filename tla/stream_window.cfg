SPECIFICATION Spec
CONSTANTS
    e1 = e1
    Prompts <- NoPrompts
    PageSize = 1
    MaxPages = 2
    MaxItems = 3
    MaxParks = 0
    MaxBinds = 2
    MaxFaults = 1
CHECK_DEADLOCK FALSE
INVARIANTS TypeOK EachItemOnce
PROPERTIES ReconnectClosesTheGap HeldItemsStay ScrollUpLeavesNoGap
