SPECIFICATION HFairSpec
CONSTANTS
    a = a
    none = none
    Names <- MCNames
    NoName = none
    Schedules <- TableSchedules
    JobSpecs <- LiveSpecs
    MaxEntries = 2
    MaxMissedRuns = 1
    MaxEntryID = 2
    Horizon = 2
    MaxJumps = 1
PROPERTIES
    PlannedIsServed
