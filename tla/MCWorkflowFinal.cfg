SPECIFICATION WSpec
CONSTANTS
    MaxEntryID = 4
    Conditions <- AllConditions
    Graphs <- PipelineGraphs
    Roots = {1}
    RunOnce = {}
    Pausable = {}
    Retention = 1
    DoneCapacity = 2
    MaxExecs = 1
    MaxEdits = 0
INVARIANTS
    QuietWhenComplete
CHECK_DEADLOCK FALSE
