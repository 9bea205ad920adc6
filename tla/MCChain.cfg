SPECIFICATION FairSpec
CONSTANTS
    r1 = r1 r2 = r2 r3 = r3
    a = a b = b g = g h = h
    Runs = {r1, r2, r3}
    Jobs = {a, b}
    JobOf <- MCJobOf
    ScheduledTime <- MCScheduledTime
    Manual = manual
    WorkflowRuns = {r1, r3}
    Configs <- MCConfigs
    Cancellable = {r1}
    Depth = 3
    Threshold = 1
    Cooldown = 2
    Keys <- MCKeys
    Callers <- MCCallers
    Ttls = {1}
    MinSweep = 1
    MaxTime = 2
INVARIANTS
    SlotsExact
    JobsWithinLimit
    FailuresSurface
    SkipsReported
    ReservationsStand
    OncePerScheduledTime
    OpenCircuitBars
PROPERTY RunsReturn
CHECK_DEADLOCK FALSE
