-------------------------------- MODULE Retry --------------------------------
(***************************************************************************)
(* The loop of RetryWithBackoff and RetryOnError of retry.go, for a job    *)
(* that may fail at every attempt.                                         *)
(*                                                                         *)
(* A time.Duration has 64 bits.  The constants count it in units large     *)
(* enough for the largest one to be a number TLC can hold.                 *)
(***************************************************************************)
EXTENDS Integers

CONSTANTS
    MaxRetries,     \* negative: unlimited
    InitialDelay, MaxDelay, Multiplier,
    MaxDuration,    \* the largest time.Duration
    MaxAttempt      \* bound: attempts considered, at which the exact delay is a number TLC holds

VARIABLES attempt, delay, outcome

retryVars == <<attempt, delay, outcome>>

Unlimited == 0
ComputeMaxAttempts(maxRetries) == IF maxRetries < 0 THEN Unlimited ELSE maxRetries + 1

MayRetry(maxRetries, n) ==
    ComputeMaxAttempts(maxRetries) = Unlimited \/ n < ComputeMaxAttempts(maxRetries)

Power[k \in 0..MaxAttempt] == IF k = 0 THEN 1 ELSE Multiplier * Power[k - 1]

Minimum == -MaxDuration - 1
Wrapped(d) == ((d - Minimum) % (2 * (MaxDuration + 1))) + Minimum

\* What time.Duration makes of a float64.  One that does not fit is left to
\* the implementation: arm64 takes the largest duration, amd64 the smallest.
Converted(d) == IF d <= MaxDuration THEN {d} ELSE {MaxDuration, Minimum}

\* The values of calculateBackoffDelay, with the extremes and the middle of
\* the jitter.
BackoffDelay(n) ==
    LET exact == InitialDelay * Power[n - 2]
        bases == {IF d < MaxDelay THEN d ELSE MaxDelay : d \in Converted(exact)}
    IN  UNION {{Wrapped(d - d \div 10), d, Wrapped(d + d \div 10)} : d \in bases}

Init ==
    /\ attempt = 1
    /\ delay = 0
    /\ outcome = "running"

Succeed ==
    /\ outcome = "running"
    /\ outcome' = "ok"
    /\ UNCHANGED <<attempt, delay>>

\* An attempt fails, and the next one starts after a delay.
FailAndRetry ==
    /\ outcome = "running"
    /\ MayRetry(MaxRetries, attempt) /\ attempt < MaxAttempt
    /\ attempt' = attempt + 1
    /\ delay' \in BackoffDelay(attempt + 1)
    /\ UNCHANGED outcome

Exhausted ==
    /\ outcome = "running"
    /\ ~MayRetry(MaxRetries, attempt)
    /\ outcome' = "panicked"
    /\ UNCHANGED <<attempt, delay>>

Next == Succeed \/ FailAndRetry \/ Exhausted

Spec == Init /\ [][Next]_retryVars

-----------------------------------------------------------------------------
\* "The base delay grows [...], capped at maxDelay" (retry.go:241-243), and
\* the jitter is a tenth: every retry waits at least nine tenths of the
\* smaller of the initial and the largest delay, and at most eleven tenths of
\* the largest.
BackoffWithinCap ==
    attempt > 1 =>
        LET least == IF InitialDelay < MaxDelay THEN InitialDelay ELSE MaxDelay
        IN  least - least \div 10 <= delay /\ delay <= MaxDelay + MaxDelay \div 10
=============================================================================
