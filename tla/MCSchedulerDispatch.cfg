SPECIFICATION HSpec
CONSTANTS
    a = a
    none = none
    Names <- MCNames
    NoName = none
    Schedules <- DispatchSchedules
    JobSpecs <- DispatchSpecs
    MaxEntries = 2
    MaxMissedRuns = 1
    MaxEntryID = 2
    Horizon = 4
    MaxJumps = 0
INVARIANTS
    NextFromSchedule
PROPERTIES
    NoActivationTwice
    PausedRunsOnlyCatchUp
