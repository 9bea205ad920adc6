CONSTANTS
    SecondsIn = 3
    MinutesIn = 2
    HoursIn = 3
    DaysIn = 7
    MaxLate = 1
    MaxPaused = 1
    MonthDays <- MCMonthDays
    Zones <- MCZones
    Scenes <- MCScenes
SPECIFICATION Spec
INVARIANTS NextIsLeast PrevIsGreatest RepeatRunsOnce FieldsAsWritten HashFair
PROPERTY NoRunLost
CHECK_DEADLOCK FALSE
