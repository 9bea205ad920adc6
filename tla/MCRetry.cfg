SPECIFICATION Spec
CONSTANTS
    MaxRetries <- UnlimitedRetries
    InitialDelay = 1
    MaxDelay = 4
    Multiplier = 2
    MaxDuration = 576460752
    MaxAttempt = 32
INVARIANT BackoffWithinCap
CHECK_DEADLOCK FALSE
