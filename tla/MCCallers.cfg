SPECIFICATION CSpec
CONSTANTS
    x = x
    y = y
    z = z
    none = none
    NoName = none
    Callers = {1, 2, 3, 4}
    MaxEntryID = 4
    MaxEntries = 4
    MaxRuns = 3
    Conditions <- MCConditions
    Plans <- MCPlans
INVARIANTS
    GTypeOK
    IndexesMirror
    NoDanglingEdge
    Acyclic
    SearchIsExact
    NoStaleRun
    WaitsCover
    AllOrNothing
CHECK_DEADLOCK FALSE
