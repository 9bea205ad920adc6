SPECIFICATION HSpec
CONSTANTS
    a = a
    none = none
    Names <- MCNames
    NoName = none
    Schedules <- TableSchedules
    JobSpecs <- TableSpecs
    MaxEntries = 2
    MaxMissedRuns = 2
    MaxEntryID = 3
    Horizon = 2
    MaxJumps = 0
INVARIANTS
    TypeOK
    IndexesAgree
    CountExact
PROPERTIES
    RunOnceLeaves
    RunStartsUncancelled
