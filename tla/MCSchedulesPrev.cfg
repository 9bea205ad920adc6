CONSTANTS
    SecondsIn = 3
    MinutesIn = 2
    HoursIn = 3
    DaysIn = 7
    MaxLate = 1
    MaxPaused = 1
    MonthDays <- MCMonthDays
    Zones <- MCZones
    Scenes <- PrevScenes
SPECIFICATION Spec
INVARIANT WalksAgree
CHECK_DEADLOCK FALSE
