SPECIFICATION WFairSpec
CONSTANTS
    MaxEntryID = 4
    Conditions <- AllConditions
    Graphs <- ReducedGraphs
    Roots = {1, 2}
    RunOnce = {}
    Pausable = {3}
    Retention = 0
    DoneCapacity = 2
    MaxExecs = 1
    MaxEdits = 0
INVARIANTS
    DispatchedOnce
    NoStuckExecution
    QuietWhenComplete
PROPERTIES
    ResultsJustified
    ExecutionCompletes
CHECK_DEADLOCK FALSE
