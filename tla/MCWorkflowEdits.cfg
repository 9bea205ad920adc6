SPECIFICATION WSpec
CONSTANTS
    MaxEntryID = 3
    Conditions <- EditConditions
    Graphs <- EditGraphs
    Roots = {1, 2}
    RunOnce = {2}
    Pausable = {}
    Retention = 1
    DoneCapacity = 1
    MaxExecs = 2
    MaxEdits = 2
INVARIANTS
    WTypeOK
    LiveJobsBelong
PROPERTIES
    ResultsJustified
    ImplementsGraph
CHECK_DEADLOCK FALSE
