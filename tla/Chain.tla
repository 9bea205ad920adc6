-------------------------------- MODULE Chain --------------------------------
(***************************************************************************)
(* Runs of jobs that are wrapped by the wrappers of chain.go, groups.go,   *)
(* locker.go and retry.go.  A chain m1, m2, m3 calls m1(m2(m3(job))): level *)
(* i of a run is the call of its i-th wrapper, the level after the last    *)
(* one is the job itself.  A level waits in phase "entered", has called    *)
(* the next level in phase "inside", and ends in "returned" or "panicked". *)
(* The levels below a timeout run in a goroutine of their own, which goes  *)
(* on when the timeout has returned.                                       *)
(*                                                                         *)
(* Sleeps, delays between attempts and durations of jobs are left open;    *)
(* the clock serves the locker and the circuit breaker.                    *)
(***************************************************************************)
EXTENDS Locker, Sequences

CONSTANTS
    Runs, Jobs,
    JobOf,          \* run -> its job
    ScheduledTime,  \* run -> the time it was scheduled for
    Manual,         \* the ScheduledTime of a run triggered otherwise
    WorkflowRuns,   \* the runs that belong to a workflow execution
    Configs,        \* chains the jobs may have
    Cancellable,    \* bound: the runs whose context may be cancelled
    Depth,          \* bound: wrappers in a chain
    Threshold, Cooldown     \* of the circuit breaker

Levels == 1..(Depth + 1)

Kinds == {"Recover", "Jitter", "Timeout", "TimeoutWithContext", "Delay", "Skip", "MaxConcurrent",
          "MaxConcurrentSkip", "Retry", "Circuit", "Exclusive", "Dedup"}

\* A chain holds at most one circuit breaker, since all of them share one state
\* here.  The locker knows each level as a caller, and the keys it may ask for.
ASSUME ChainAssumption ==
    /\ IsFiniteSet(Runs) /\ Depth \in Nat /\ Runs \X Levels \subseteq Callers
    /\ Threshold \in Nat /\ Cooldown \in Nat
    /\ JobOf \in [Runs -> Jobs] /\ WorkflowRuns \subseteq Runs
    /\ \A c \in Configs, j \in Jobs :
          /\ Len(c[j]) \in 0..Depth /\ DOMAIN c[j] = 1..Len(c[j])
          /\ \A i \in DOMAIN c[j] :
                /\ c[j][i].kind \in Kinds /\ c[j][i].n \in Nat
                /\ c[j][i].kind \in {"Exclusive", "Dedup"} => c[j][i].n \in Ttls
                /\ c[j][i].kind = "Exclusive" => <<c[j][i].shared, 0>> \in Keys
                /\ c[j][i].kind = "Dedup" =>
                      \A r \in Runs : ScheduledTime[r] # Manual =>
                                         <<c[j][i].shared, ScheduledTime[r]>> \in Keys
          /\ \A i, k \in DOMAIN c[j] :
                c[j][i].kind = "Circuit" /\ c[j][k].kind = "Circuit" => i = k

VARIABLES
    chains,     \* job -> its wrappers, outermost first
    phase,      \* run -> level -> phase
    used,       \* slots taken: channel length, locked mutex, missing token
    cancelled,  \* runs whose entry context is cancelled
    expired,    \* run -> levels whose TimeoutWithContext context is cancelled
    attempt,    \* run -> attempts started by its retry wrapper
    skipped,    \* runs that markRunSkipped marked
    failures, lastFail,     \* circuitState
    seen,       \* run -> the failures it loaded
    stamp,      \* run -> the time of the last failure it loaded, or of its own
    ran,        \* history: runs whose job has started
    failed,     \* history: runs whose job panicked when it ran last
    barred      \* history: run -> end of the cooldown that it met at the breaker

ctxVars     == <<cancelled, expired>>
circuitVars == <<failures, lastFail, seen, stamp>>
otherVars   == <<chains, skipped, ran, failed>>
vars == <<lockerVars, phase, used, ctxVars, attempt, circuitVars, otherVars, barred>>

-----------------------------------------------------------------------------
(* Wrappers *)

Limiting == {"Delay", "Skip", "MaxConcurrent", "MaxConcurrentSkip"}
Dropping == {"Retry", "Circuit"}    \* call Job.Run, which starts from context.Background
Finished == {"returned", "panicked"}

Wrapper(r, i) == chains[JobOf[r]][i]
Body(r)       == Len(chains[JobOf[r]]) + 1
Kind(r, i)    == IF i < Body(r) THEN Wrapper(r, i).kind ELSE "Job"

\* What a limiting wrapper shares: Delay and Skip with the runs of the job
\* they wrap, the others with every job that the wrapper or group wraps.
Resource(j, i) == IF chains[j][i].kind \in {"Delay", "Skip"}
                  THEN <<j, i>> ELSE <<chains[j][i].shared, 0>>
SlotsOneMore(w) == w.n + 1    \* mutant: off by one
Slots(w)       == IF w.kind \in {"Delay", "Skip"} THEN 1 ELSE w.n

Places(c, kinds) ==
    {p \in Jobs \X Levels : p[2] \in DOMAIN c[p[1]] /\ c[p[1]][p[2]].kind \in kinds}

\* ConcurrencyGroups.sem and MaxConcurrent panic for any other chain.
Accepted(c) ==
    \A p, q \in Places(c, {"MaxConcurrent", "MaxConcurrentSkip"}) :
        /\ c[p[1]][p[2]].n > 0
        /\ c[p[1]][p[2]].shared = c[q[1]][q[2]].shared => c[p[1]][p[2]].n = c[q[1]][q[2]].n

Dropped(r, from, i) == \E k \in from..(i - 1) : Kind(r, k) \in Dropping

\* The context that level i receives still carries the values of the run.
HasValues(r, i) == ~Dropped(r, 1, i)

CtxDone(r, i) ==
    \/ r \in cancelled /\ HasValues(r, i)
    \/ \E k \in expired[r] : k < i /\ ~Dropped(r, k + 1, i)

At(r, i, kinds, p) == phase[r][i] = p /\ Kind(r, i) \in kinds

Call(r, i)     == phase' = [phase EXCEPT ![r] = [@ EXCEPT ![i] = "inside", ![i + 1] = "entered"]]
Becomes(r, i, p) == phase' = [phase EXCEPT ![r] = [@ EXCEPT ![i] = p]]
Inner(r, i)    == phase[r][i + 1]

MarkSkippedAlways(r, i) == skipped' = skipped \union {r}   \* mutant
MarkSkipped(r, i) == skipped' = IF HasValues(r, i) /\ r \in WorkflowRuns
                                THEN skipped \union {r} ELSE skipped

-----------------------------------------------------------------------------
Init ==
    /\ LInit
    /\ chains \in {c \in Configs : Accepted(c)}
    /\ phase = [r \in Runs |-> [i \in Levels |-> "idle"]]
    /\ used = [s \in {Resource(p[1], p[2]) : p \in Places(chains, Limiting)} |-> 0]
    /\ cancelled = {} /\ expired = [r \in Runs |-> {}]
    /\ attempt = [r \in Runs |-> 0]
    /\ failures = 0 /\ lastFail = -Cooldown
    /\ seen = [r \in Runs |-> 0] /\ stamp = [r \in Runs |-> 0]
    /\ skipped = {} /\ ran = {} /\ failed = {} /\ barred = [r \in Runs |-> 0]

\* The scheduler starts a run: RunJob of the outermost wrapper.
StartRun(r) ==
    /\ phase[r][1] = "idle"
    /\ Becomes(r, 1, "entered")
    /\ UNCHANGED <<lockerVars, used, ctxVars, attempt, circuitVars, otherVars>>

\* The entry is removed or its job replaced, or the scheduler stopped.
CancelRun(r) ==
    /\ r \in Cancellable \ cancelled /\ phase[r][1] \notin {"idle"} \union Finished
    /\ cancelled' = cancelled \union {r}
    /\ UNCHANGED <<lockerVars, phase, used, expired, attempt, circuitVars, otherVars>>

\* Recover and Jitter call the next level at once, and so do the timeouts, in
\* a new goroutine.
PassIn(r, i) ==
    /\ At(r, i, {"Recover", "Jitter", "Timeout", "TimeoutWithContext"}, "entered")
    /\ Call(r, i)
    /\ UNCHANGED <<lockerVars, used, ctxVars, attempt, circuitVars, otherVars>>

JitterReturns(r, i) ==
    /\ At(r, i, {"Jitter"}, "inside") /\ Inner(r, i) \in Finished
    /\ Becomes(r, i, Inner(r, i))
    /\ UNCHANGED <<lockerVars, used, ctxVars, attempt, circuitVars, otherVars>>

RepanicsNever(r, i) == FALSE   \* mutant: Recover swallows every panic
Repanics(r, i) == r \in WorkflowRuns /\ HasValues(r, i)

RecoverReturns(r, i) ==
    /\ At(r, i, {"Recover"}, "inside") /\ Inner(r, i) \in Finished
    /\ Becomes(r, i, IF Repanics(r, i) THEN Inner(r, i) ELSE "returned")
    /\ UNCHANGED <<lockerVars, used, ctxVars, attempt, circuitVars, otherVars>>

\* The slot, lock or token is free.
Acquire(r, i) ==
    /\ At(r, i, Limiting, "entered")
    /\ LET s == Resource(JobOf[r], i)
       IN  /\ used[s] < Slots(Wrapper(r, i))
           /\ used' = [used EXCEPT ![s] = @ + 1]
    /\ Call(r, i)
    /\ UNCHANGED <<lockerVars, ctxVars, attempt, circuitVars, otherVars>>

GiveUpFreeing(r, i) ==   \* mutant: the release is deferred before the select
    /\ At(r, i, {"MaxConcurrent"}, "entered") /\ CtxDone(r, i)
    /\ used' = [used EXCEPT ![Resource(JobOf[r], i)] = @ - 1]
    /\ Becomes(r, i, "returned")
    /\ UNCHANGED <<lockerVars, ctxVars, attempt, circuitVars, otherVars>>

\* No slot and not willing to wait, or the context ends, when a free slot may
\* as well be taken.
GiveUp(r, i) ==
    /\ \/ /\ At(r, i, {"Skip", "MaxConcurrentSkip"}, "entered")
          /\ used[Resource(JobOf[r], i)] = Slots(Wrapper(r, i))
       \/ At(r, i, {"MaxConcurrent"}, "entered") /\ CtxDone(r, i)
    /\ Becomes(r, i, "returned")
    /\ UNCHANGED <<lockerVars, used, ctxVars, attempt, circuitVars, otherVars>>

FreedOnReturn(r, i) == Inner(r, i) = "returned"   \* mutant: not deferred
Freed(r, i) == Inner(r, i) \in Finished

\* The deferred release: it also runs when the inner level panics.
Vacate(r, i) ==
    /\ At(r, i, Limiting, "inside") /\ Inner(r, i) \in Finished
    /\ used' = [used EXCEPT ![Resource(JobOf[r], i)] = IF Freed(r, i) THEN @ - 1 ELSE @]
    /\ Becomes(r, i, Inner(r, i))
    /\ UNCHANGED <<lockerVars, ctxVars, attempt, circuitVars, otherVars>>

-----------------------------------------------------------------------------
(* Timeouts *)

\* The inner goroutine is done in time, or within the grace period.
TimeoutReturns(r, i) ==
    /\ \/ At(r, i, {"Timeout", "TimeoutWithContext"}, "inside")
       \/ At(r, i, {"TimeoutWithContext"}, "grace")
    /\ Inner(r, i) \in Finished
    /\ Becomes(r, i, Inner(r, i))
    /\ expired' = IF Kind(r, i) = "Timeout" THEN expired
                  ELSE [expired EXCEPT ![r] = @ \union {i}]
    /\ UNCHANGED <<lockerVars, used, cancelled, attempt, circuitVars, otherVars>>

\* The deadline passes, or the context of the run ends.
Deadline(r, i) ==
    /\ At(r, i, {"TimeoutWithContext"}, "inside")
    /\ Becomes(r, i, "grace")
    /\ expired' = [expired EXCEPT ![r] = @ \union {i}]
    /\ UNCHANGED <<lockerVars, used, cancelled, attempt, circuitVars, otherVars>>

\* The wrapper returns and leaves the inner goroutine behind.
Abandon(r, i) ==
    /\ \/ At(r, i, {"Timeout"}, "inside")
       \/ At(r, i, {"TimeoutWithContext"}, "grace")
    /\ Becomes(r, i, "returned")
    /\ UNCHANGED <<lockerVars, used, ctxVars, attempt, circuitVars, otherVars>>

-----------------------------------------------------------------------------
(* Retry and circuit breaker *)

Attempt(r, i) ==
    /\ At(r, i, {"Retry"}, "entered")
    /\ attempt' = [attempt EXCEPT ![r] = 1]
    /\ Call(r, i)
    /\ UNCHANGED <<lockerVars, used, ctxVars, circuitVars, otherVars>>

Again(r, i) ==
    /\ At(r, i, {"Retry"}, "inside") /\ Inner(r, i) = "panicked"
    /\ attempt[r] <= Wrapper(r, i).n
    /\ attempt' = [attempt EXCEPT ![r] = @ + 1]
    /\ phase' = [phase EXCEPT ![r] = [k \in Levels |-> IF k <= i THEN @[k]
                                        ELSE IF k = i + 1 THEN "entered" ELSE "idle"]]
    /\ expired' = [expired EXCEPT ![r] = {k \in @ : k <= i}]
    /\ UNCHANGED <<lockerVars, used, cancelled, circuitVars, otherVars>>

RetryReturns(r, i) ==
    /\ At(r, i, {"Retry"}, "inside") /\ Inner(r, i) \in Finished
    /\ Inner(r, i) = "panicked" => attempt[r] > Wrapper(r, i).n
    /\ Becomes(r, i, Inner(r, i))
    /\ UNCHANGED <<lockerVars, used, ctxVars, attempt, circuitVars, otherVars>>

\* isOpen loads the failures, then the time of the last one, and then reads
\* the clock.
LoadFailures(r, i) ==
    /\ At(r, i, {"Circuit"}, "entered")
    /\ Becomes(r, i, "loaded")
    /\ seen' = [seen EXCEPT ![r] = failures]
    /\ UNCHANGED <<lockerVars, used, ctxVars, attempt, failures, lastFail, stamp, otherVars>>

LoadFailTime(r, i) ==
    /\ At(r, i, {"Circuit"}, "loaded")
    /\ Becomes(r, i, "timed")
    /\ stamp' = [stamp EXCEPT ![r] = lastFail]
    /\ UNCHANGED <<lockerVars, used, ctxVars, attempt, failures, lastFail, seen, otherVars>>

IsOpenAbove(r) == seen[r] > Threshold /\ now - stamp[r] < Cooldown   \* mutant: off by one
IsOpen(r) == seen[r] >= Threshold /\ now - stamp[r] < Cooldown

Decide(r, i) ==
    /\ At(r, i, {"Circuit"}, "timed")
    /\ IF IsOpen(r) THEN Becomes(r, i, "returned") ELSE Call(r, i)
    /\ UNCHANGED <<lockerVars, used, ctxVars, attempt, circuitVars, otherVars>>

\* circuitState.mu is held by recordFailure, which adds the failure, reads the
\* clock and stores the time.
Locked == \E r \in Runs, i \in Levels : phase[r][i] \in {"recording", "stamped"}

AddFailure(r, i) ==
    /\ At(r, i, {"Circuit"}, "inside") /\ Inner(r, i) = "panicked" /\ ~Locked
    /\ failures' = failures + 1
    /\ Becomes(r, i, "recording")
    /\ UNCHANGED <<lockerVars, used, ctxVars, attempt, lastFail, seen, stamp, otherVars>>

ReadFailureTime(r, i) ==
    /\ At(r, i, {"Circuit"}, "recording")
    /\ Becomes(r, i, "stamped")
    /\ stamp' = [stamp EXCEPT ![r] = now]
    /\ UNCHANGED <<lockerVars, used, ctxVars, attempt, failures, lastFail, seen, otherVars>>

StoreFailureTime(r, i) ==
    /\ At(r, i, {"Circuit"}, "stamped")
    /\ lastFail' = stamp[r]
    /\ Becomes(r, i, "panicked")
    /\ UNCHANGED <<lockerVars, used, ctxVars, attempt, failures, seen, stamp, otherVars>>

ResetOnSuccess(r, i) ==
    /\ At(r, i, {"Circuit"}, "inside") /\ Inner(r, i) = "returned" /\ ~Locked
    /\ failures' = 0
    /\ Becomes(r, i, "returned")
    /\ UNCHANGED <<lockerVars, used, ctxVars, attempt, lastFail, seen, stamp, otherVars>>

-----------------------------------------------------------------------------
(* Wrappers that reserve a key *)

Needs(r, i) ==
    \/ Kind(r, i) = "Exclusive"
    \/ Kind(r, i) = "Dedup" /\ HasValues(r, i) /\ ScheduledTime[r] # Manual
KeyOf(r, i) == <<Wrapper(r, i).shared,
                 IF Kind(r, i) = "Dedup" THEN ScheduledTime[r] ELSE 0>>

Reserve(r, i) ==
    /\ At(r, i, {"Exclusive", "Dedup"}, "entered") /\ Needs(r, i)
    /\ TryLock(<<r, i>>, KeyOf(r, i), Wrapper(r, i).n)
    /\ Call(r, i)
    /\ UNCHANGED <<used, ctxVars, attempt, circuitVars, otherVars>>

\* SkipDuplicateRuns asks nobody about a run that no other instance shares.
Unshared(r, i) ==
    /\ At(r, i, {"Dedup"}, "entered") /\ HasValues(r, i) /\ ScheduledTime[r] = Manual
    /\ Call(r, i)
    /\ UNCHANGED <<lockerVars, used, ctxVars, attempt, circuitVars, otherVars>>

\* The key is taken, the locker fails, or the context carries no RunInfo.
Refuse(r, i) ==
    /\ At(r, i, {"Exclusive", "Dedup"}, "entered")
    /\ HasValues(r, i) => Needs(r, i)
    /\ Becomes(r, i, "returned")
    /\ MarkSkipped(r, i)
    /\ UNCHANGED <<lockerVars, used, ctxVars, attempt, circuitVars, chains, ran, failed>>

ReleaseReturns(r, i) ==
    /\ At(r, i, {"Exclusive"}, "inside") /\ Inner(r, i) \in Finished
    /\ Release(<<r, i>>)
    /\ Becomes(r, i, Inner(r, i))
    /\ UNCHANGED <<used, ctxVars, attempt, circuitVars, otherVars>>

DedupReleases(r, i) ==   \* mutant: releases the key of a run that is over
    /\ At(r, i, {"Dedup"}, "inside") /\ Inner(r, i) \in Finished
    /\ Release(<<r, i>>)
    /\ Becomes(r, i, Inner(r, i))
    /\ UNCHANGED <<used, ctxVars, attempt, circuitVars, otherVars>>

DedupReturns(r, i) ==
    /\ At(r, i, {"Dedup"}, "inside") /\ Inner(r, i) \in Finished
    /\ Becomes(r, i, Inner(r, i))
    /\ UNCHANGED <<lockerVars, used, ctxVars, attempt, circuitVars, otherVars>>

-----------------------------------------------------------------------------
(* The job, the environment and the specification *)

JobStarts(r) ==
    /\ phase[r][Body(r)] = "entered"
    /\ Becomes(r, Body(r), "inside")
    /\ ran' = ran \union {r}
    /\ UNCHANGED <<lockerVars, used, ctxVars, attempt, circuitVars, chains, skipped, failed>>

JobEnds(r) ==
    /\ phase[r][Body(r)] = "inside"
    /\ \E p \in Finished :
          /\ Becomes(r, Body(r), p)
          /\ failed' = IF p = "panicked" THEN failed \union {r} ELSE failed \ {r}
    /\ UNCHANGED <<lockerVars, used, ctxVars, attempt, circuitVars, chains, skipped, ran>>

TimePasses ==
    /\ Tick
    /\ UNCHANGED <<phase, used, ctxVars, attempt, circuitVars, otherVars>>

Step(r) ==
    \/ JobStarts(r) \/ JobEnds(r)
    \/ \E i \in 1..(Body(r) - 1) :
          \/ PassIn(r, i) \/ JitterReturns(r, i) \/ RecoverReturns(r, i)
          \/ Acquire(r, i) \/ GiveUp(r, i) \/ Vacate(r, i)
          \/ TimeoutReturns(r, i)
          \/ Attempt(r, i) \/ Again(r, i) \/ RetryReturns(r, i)
          \/ LoadFailures(r, i) \/ LoadFailTime(r, i) \/ Decide(r, i)
          \/ AddFailure(r, i) \/ ReadFailureTime(r, i) \/ StoreFailureTime(r, i)
          \/ ResetOnSuccess(r, i)
          \/ Reserve(r, i) \/ Unshared(r, i) \/ Refuse(r, i)
          \/ ReleaseReturns(r, i) \/ DedupReturns(r, i)

AtBreaker(r) == \E i \in Levels : At(r, i, {"Circuit"}, "entered")

\* A run that waits at the breaker while the failures reach the threshold
\* meets the cooldown of the last one; a success clears what all runs met.
Watch == barred' = [r \in Runs |-> IF failures' < Threshold THEN 0
                                  ELSE IF AtBreaker(r)' THEN lastFail' + Cooldown
                                  ELSE barred[r]]

Next ==
    /\ \/ TimePasses
       \/ \E r \in Runs :
             \/ StartRun(r) \/ CancelRun(r) \/ Step(r)
             \/ \E i \in Levels : Deadline(r, i) \/ Abandon(r, i)
    /\ Watch

Spec == Init /\ [][Next]_vars

\* Some run goes on as long as one can.
FairSpec == Spec /\ WF_vars((\E r \in Runs : Step(r)) /\ Watch)

-----------------------------------------------------------------------------
(* Properties *)

Timing == {"Timeout", "TimeoutWithContext"}

\* The levels that are inside a limit, lock or token of resource s.
Holders(s) == {p \in Runs \X Levels : /\ At(p[1], p[2], Limiting, "inside")
                                       /\ Resource(JobOf[p[1]], p[2]) = s}

\* Every slot, lock and token that is taken belongs to a level that is still
\* inside: none leaks when a job panics, a timeout leaves it behind or a
\* context ends.
SlotsExact == \A s \in DOMAIN used : used[s] = Cardinality(Holders(s))

\* The jobs that execute behind a limit are at most as many as its slots, also
\* when a wrapper outside it has timed out; a timeout inside the limit would
\* free the slot of a job that goes on.
JobsWithinLimit ==
    \A p \in Places(chains, Limiting) :
        LET s == Resource(p[1], p[2])
            behind == {r \in Runs : \E i \in Levels :
                          /\ phase[r][Body(r)] = "inside"
                          /\ Kind(r, i) \in Limiting /\ Resource(JobOf[r], i) = s
                          /\ \A k \in i..Body(r) : Kind(r, k) \notin Timing}
        IN  Cardinality(behind) <= IF chains[p[1]][p[2]].kind \in {"Delay", "Skip"}
                                   THEN 1 ELSE chains[p[1]][p[2]].n

\* What returns without a call, so that a retry of the job comes to nothing.
Declining == {"Skip", "MaxConcurrentSkip", "Circuit", "Exclusive", "Dedup"}

\* In a workflow the failure of the job, when it ran last, reaches the
\* scheduler through every chain, Recover included (chain.go:177-179), but for
\* the runs a timeout gave up on, for a Recover behind a wrapper that drops the
\* context, and for a retry that a wrapper inside it declines, which counts as
\* its success (retry.go:366-368).
FailuresSurface ==
    \A r \in WorkflowRuns :
        phase[r][1] = "returned" /\ r \in failed =>
            \E i \in Levels : \/ Kind(r, i) \in Timing
                              \/ Kind(r, i) = "Recover" /\ ~HasValues(r, i)
                              \/ /\ Kind(r, i) = "Retry"
                                 /\ \E k \in Levels : k > i /\ Kind(r, k) \in Declining

\* A workflow counts a run as skipped only if its job never started, and a run
\* that a locker kept from starting is counted so unless a wrapper outside
\* dropped the context (locker.go:152-153, 220).
SkipsReported ==
    \A r \in WorkflowRuns :
        /\ r \in skipped => r \notin ran
        /\ /\ phase[r][1] = "returned" /\ r \notin ran
           /\ \A i \in Levels : Kind(r, i) \in {"Exclusive", "Dedup", "Recover", "Jitter", "Job"}
           => r \in skipped

\* SkipDuplicateRuns lets a scheduled time of a job start once in any stretch
\* as long as the reservation, whichever job or instance asks and however
\* short the run was.
OncePerScheduledTime ==
    \A r, q \in Runs, i, k \in Levels :
        LET x == reserved[<<r, i>>]
            y == reserved[<<q, k>>]
        IN  /\ x.token # 0 /\ y.token # 0
            /\ Kind(r, i) = "Dedup" /\ Kind(q, k) = "Dedup"
            /\ x.token < y.token /\ x.key = y.key
            => y.until - Wrapper(q, k).n >= x.until

\* A run that meets an open breaker does not start the job before the
\* cooldown that it met is over, unless the breaker closes, though it loads
\* the failures, the time of the last one and the clock separately while other
\* runs record theirs.  A failure stored between the last two may have begun
\* another cooldown (retry.go:541-542).
OpenCircuitBars ==
    \A r \in Runs, i \in Levels :
        Kind(r, i) = "Circuit" /\ phase[r][i] \in {"inside", "recording", "stamped"} =>
            barred[r] <= now

\* Every run ends if the jobs do, for chains that take groups in one order.
RunsReturn ==
    \A r \in Runs : phase[r][1] = "entered" ~> phase[r][1] \in Finished
=============================================================================
