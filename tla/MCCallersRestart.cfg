SPECIFICATION CSpec
CONSTANTS
    x = x
    y = y
    z = z
    none = none
    NoName = none
    Callers = {1, 2, 3, 4}
    MaxEntryID = 4
    MaxEntries = 4
    MaxRuns = 3
    Conditions <- MCConditions
    Plans <- Stopping
INVARIANT StopWaitReturns
CHECK_DEADLOCK FALSE
