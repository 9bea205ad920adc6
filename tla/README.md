# Verification of go-cron

TLA+ models of `github.com/netresearch/go-cron`, checked with TLC on small
instances and, where stated, proved with TLAPS for every value of the
constants. Paths below are relative to the repository's `src/`.

## 1. The system

A `Cron` holds a table of entries. While it runs, one goroutine, `run()`
(`cron.go:1479`), owns the table: every public operation takes `runningMu`,
sends a request over a channel and waits for the reply; while it does not run,
the caller changes the table itself. The loop sleeps on a timer set to the
earliest `Next`, runs what is due in goroutines of its own, and receives the
reports of workflow jobs over `jobDone`. What it runs is a job behind a chain
of wrappers; when it runs is up to a schedule that the parser made of an
expression.

| Component | State | Operations | Interacts with | What is hard | What makes it correct |
|---|---|---|---|---|---|
| Entry table and run loop (`cron.go`, `heap.go`, `option.go`) | `running`, `entries` (heap), `entryIndex`, `nameIndex`, `entryCount`, `nextID`, entry fields, the timer, `baseCtx` | `ScheduleJob`, `Remove`, `UpdateSchedule`/`UpdateEntry`, `PauseEntry`/`ResumeEntry`, `TriggerEntry`, `Start`, `Stop`, the wake | clock, missed runs, executions, wrappers, hooks | requests between the expiry of the timer and its receipt, clock jumps, restarts, six operations on four structures | structures agree; the limit is exact; no activation twice or lost; planned activations are served; runs begin with a live context |
| Missed runs (`missed.go`) | `Prev`, `MissedPolicy`, grace | catch-up in `run()` and in the add case | run loop | `Prev` is the only memory of what ran; several writers | each missed activation at most once; policy and grace respected |
| Dependency graph (`workflow.go`, `cron.go:2566-2702`) | `entryDeps`, `parentToChildren` | `AddDependency`, `RemoveDependency`, removal of an entry | entry table, executions | two indexes, edges in any order | acyclic, mirrored, nothing dangles |
| Workflow executions (`cron.go:1657-1850`, `workflow.go`) | `activeExecutions`, `completedExecutions`, `jobDone` | fire, job reports, trigger/skip of children, retention | graph, entry table, job goroutines | reports in any order, edits under way, re-entrance of `evaluateChildren` | each step once, results explain what ran, executions complete |
| Workflow registration (`AddWorkflow`, `workflow.go` builder) | the above | validation, check of names, registration, wiring, rollback | entry table, graph | many requests, each of which may fail, on a running scheduler | all or nothing |
| Job replacement and waiting (`UpsertJob`, `DrainAndUpsertJob`, `RemoveAndWait`, `WaitForJob`, `jobTracker`) | `jobTracker` of an entry | compositions of requests with waits between | entry table | look-up then act; pause state restored; bursts | no run of the old job under way at the swap; the waited-for runs have ended |
| Shutdown (`Stop`, `StopAndWait`, `StopWithTimeout`, `jobWaiter`) | wait group | stop, wait, start again | run loop | timeout against late jobs, restart | every run of before is waited for |
| Daylight-saving guard (`cron.go:1204-1362`) | `fallBackRuns` | filter on `Next` | schedules, run loop | a wall time that happens twice | each reading once on the fall-back day, nothing else lost |
| Entry heap (`heap.go`) | array with stored indexes | push, pop, update, remove | entry table | stored index after swaps | heap order and index invariant |
| Job wrappers (`chain.go`, `groups.go`) | mutexes, semaphores, contexts | Recover, Skip, Delay, Timeout, MaxConcurrent, groups, Jitter | jobs | timeouts that leave a run behind, shared slots | limits, release, failures reach the workflow |
| Retry and circuit breaker (`retry.go`) | atomics | retry loop, open/half-open/closed | jobs | unsynchronised pairs of atomics, overflow of the delay | an open breaker bars; delays within the cap |
| Lockers (`locker.go`) | map of locks with expiry and token | lock, release, expiry, sweep | wrappers | a release after expiry | the lock of another holder is never released |
| Schedules (`spec.go`, `constantdelay.go`, `aligned.go`, `union.go`, `introspect.go`) | none | `Next`, `Prev`, `Between`, `Matches` | parser | calendar search, gaps, repeats | the least, the greatest time that matches |
| Parser and validation (`parser.go`, `validate.go`) | spec cache | `Parse`, hashes, ranges | schedules | bit sets, steps, wrap-around | a field holds what is written |
| Clocks (`clock.go`) | fake time, timers | `Advance`, `Set`, `Stop`, `Reset` | run loop | stale values in channels | timers fire in order, once |
| Logging, hooks (`logger.go`, `observability.go`) | none | callbacks | run loop | a hook that calls back | (no state of its own) |

Status and the reason for each part that is left out are in `PROJECT.json`
(`components`); what is hard to test, line by line, is in `hazards`.

## 2. Modules

| Module | Models | Extends |
|---|---|---|
| `Scheduler` | entry table, run loop, timer, missed runs | |
| `SchedulerHistory` | what each entry has run, for properties that relate a run to earlier ones | `Scheduler` |
| `SchedulerProofs` | theorems | `SchedulerHistory` |
| `DependencyGraph` | edges, both indexes, `hasCycle`, over sets: the abstract specification of the graph | |
| `DependencyGraphProofs` | theorems | `DependencyGraph` |
| `Callers` | calls of several requests, waits, shutdown, `AddWorkflow`, by goroutines that interleave | `DependencyGraph` |
| `CallersProofs` | theorems; `Callers` implements `DependencyGraph` | `Callers`, `DependencyGraphProofs` |
| `Workflow` | executions and `jobDone`; its graph part implements `DependencyGraph` | |
| `WorkflowProofs` | theorems; the graph part of `Workflow` implements `DependencyGraph` | `Workflow` (and `DependencyGraphProofs` as an instance) |
| `WorkflowOnceProofs` | theorems about graphs without edges that skip over a longer path | `WorkflowProofs` |
| `Locker` | `MemoryLocker` | |
| `LockerProofs` | theorems | `Locker` |
| `Chain` | concurrent runs through chains of wrappers | `Locker` |
| `ChainProofs` | theorems | `Chain`, `LockerProofs` |
| `Retry` | the attempts and delays of one job | |
| `Calendar` | dates, wall clocks and zones of Go's `time` package, with small radices | |
| `SpecSchedule` | `spec.go`: the searches forward and backward | `Calendar` |
| `CronField` | `parser.go`: fields, ranges, steps, hashes, constraints | `SpecSchedule` |
| `Schedules` | the other kinds of schedules, introspection, the daylight-saving guard and an entry that is planned, late and paused | `CronField` |
| `SchedulesProofs` | theorems | `Schedules` |
| `MCScheduler`, `MCWorkflow`, `MCCallers`, `MCChain`, `MCRetry`, `MCSchedules` | the instances for TLC | |

Operators whose comment begins with "mutant" are variants of the
definition below them with a plausible bug, none of them used by a
specification; `PROJECT.json` pairs each with a property it violates.

### Scheduler

`entry` maps IDs to the fields of `Entry` the loop reads; `heap` is the set of
entries in `Cron.entries`; `entryIndex` and `nameIndex` are the maps' keys and
contents. A schedule is its set of activation times and `NextOf` its `Next`.
`timer.left` counts down to the expiry, `timer.fired` is the value waiting in
the timer's channel; between `TimerFire` and `Wake` the loop may serve any
request, so the time the loop then uses is stale.

- `AddEntry`, `AddDuplicateName`: `ScheduleJob` admitted, and rejected because
  of its name. `Remove`, `Update`, `SetPaused`, `Trigger`: the other requests.
  Each holds `runningMu` and is answered before it returns, hence one action;
  `Serving` says who executes it. An operation that changes nothing (not
  found, no room) is a stutter and has no action.
- `Start` sets `running`; the goroutine's first steps are `RunInit`, and
  anything may happen to the clock in between.
- `Wake` is the timer case: `handleTimeBackwards`, `processDueEntries` and the
  next arming of the timer. The iteration over the heap is one step, since
  every entry it handles gets a `Next` after the loop's `now` (or leaves), and
  entries are independent of each other there.
- `started` is the set of runs the last step launched, with the trigger kind and
  the scheduled time of their `RunInfo`.

Abstractions: the order in which entries due at one wake are dispatched (heap
order, priority) is not represented; `TriggerEntryWithInfo`'s caller-supplied
`RunInfo` is not (no field of it is read by the scheduler); a wake of an idle
loop after `maxIdleDuration` does nothing and is omitted; daylight saving is
the subject of `Schedules`. The job, its end, and `jobTracker` are in `Callers`
and `Chain`.

### DependencyGraph and Workflow

`DependencyGraph` states what the graph operations promise over sets.
`Workflow` has the code's slices, whose order decides in which order children are
evaluated, and shows `ImplementsGraph`: its graph steps are steps of
`DependencyGraph` or stutters under `ChildSets`.

`EvaluateChildren` is the recursion of `evaluateChildren` and
`triggerWorkflowChild` as a walk over a list of work: a call of `evaluateChildren` puts the
children it iterates over in front of those its callers have yet to visit, and
`Visit` takes the first. The walk is a function of the number of visits;
`MaxVisits` is more than any evaluation takes, since each entry is resolved at
most once. `Graphs` are the graphs a run starts from; the assumption `Sound`
says of them what `AddDependency` establishes for every graph it builds.
A job is a goroutine in `jobs` from its start until it has sent its event
(`Report`), which waits while the channel is full, or given up because its
context is cancelled (`Abandon`). `Process` is `processWorkflowEvent`. `Fire`
stands for both a due activation and a manual trigger of an entry with
dependents; when they occur is `Scheduler`'s subject. The entries exist from
the beginning; adding entries while executions run affects none of them, as
participants are collected at the start.

### Callers

Each member of `Callers` makes one call (`plan.calls`); `call[p].pc` is how far
it has come, and one step is one request, one look-up or one wait. The
requests act on the entries and edges of `DependencyGraph`, on the names, the
`Paused` fields and the runs under way (`flight`). When an entry is due does
not matter here.

- `Fire`: any entry that is not paused may run while the loop serves, as
  `processDueEntries` and the triggers pass over a paused one.
- `Start` of a stopped scheduler leaves it `starting`: `run` catches up missed
  runs before its loop, and any entry may have some (`CatchUp`), a paused one,
  too, since `processMissedRuns` does not ask for `Paused`. Until `LoopBegins` no
  `Request` is served; waits, deadlines and ends of runs go on.
- `Launch` is what the two have in common: `startJob` and the tracker's `start`.
- `LookUp`, `Update`, `Create`: `UpsertJob` and `upsertScheduled`, where an entry that
  is gone by the time of the update is created anew.
- `DrainPause`, `DrainFind`, `TakeChannel`, `ChannelClosed`, `Update`,
  `DrainResume`: the steps (1) to (4) of `DrainAndUpsertJob`.
- `channel` is `jobTracker.done`: the number of the run that began the burst
  stands for the channel it made, and the channel is closed when the tracker
  no longer holds it.
- `RemoveRequest` with a wait is `RemoveAndWait`: the tracker is taken in the
  same step as the entry leaves (`removeTracked`).
- `Stop` leaves a goroutine (`waiter`) that waits for `jobWaiter`. A
  `sync.WaitGroup` wakes its sleepers at the last `Done`, and one that finds the
  group in use again panics (`GroupReturn`); `Deadline` is the time of
  `StopWithTimeout` and the context of `RemoveAndWait`.
- `Validate`, `CheckName`, `Register`, `Wire`, `Rollback`: `AddWorkflow`, one
  request a step. `Wires` adds the edges of a final step; `Valid` is `validate`.
- `Edit` is a caller without a plan: additions, removals and edges, for ever.

Left out: schedules and jobs; `RemoveByTag`, which is `RemoveByName` for every
entry of a snapshot. A run's end is one step: the tracker's `finish` and the
group's `Done` follow each other in one deferred call.

### Locker and Chain

`Locker` is `MemoryLocker`: `TryLock` with its sweep and `Release`, each under
the mutex; `reserved` is what the release function of a caller captured. A
release may come late, after the expiry, or again.

`Chain` runs several jobs through their wrappers. A run has a level for each
wrapper and one for the job; `phase[r][i]` says what the level does. The levels
below a timeout run in another goroutine, so they go on when the timeout has
returned (`Abandon`). `used` counts what semaphores, mutexes and tokens are taken.
`HasValues` and `CtxDone` follow the context down the chain: `Retry` and
`Circuit` call `Job.Run`, which starts from `context.Background`. A panic is the end
of a level in phase `"panicked"`. The breaker's accesses to `circuitState` are steps
of their own: `LoadFailures`, `LoadFailTime` and `Decide`, which reads the clock,
make up `isOpen`; `AddFailure`, `ReadFailureTime` and `StoreFailureTime` make up
`recordFailure`, under its mutex (`Locked`), which `isOpen` does not take. Two
histories are for properties: `failed` are the runs whose job panicked when it last
ran, and a retry that does not reach the job leaves it as it is; `barred` is the
end of the cooldown that a run met at the breaker, until the breaker closes.
Durations of jobs, delays and jitter are left open; the clock counts for the
lockers and the breaker.

`Retry` is the loop of `RetryWithBackoff` alone, with the delay as the code
computes it: a float converted to 64 bits, then capped, then jittered.

### Calendar, SpecSchedule, CronField and Schedules

A calendar with days of 3 hours of 2 minutes of 3 seconds has everything the
searches step over, and few enough instants for TLC to try all. `SpecSchedule`
follows `spec.go` function by function, since what could be wrong is in their
interplay: how each field's advance sets the lower ones back, across gaps,
repeats and days that do not exist. `CronField` follows `parser.go` from the items
of a field to its bits. `Schedules` adds intervals, unions and introspection,
and the entry's life: `Add` parses and plans, `Tick` is the clock, `Run` and
`SkipPaused` are the two branches of `processDueEntries`. The meaning the
searches are checked against (`Selects`, `RunsGap`, `Walk`) is stated without
search: which readings a set of fields selects and which values an item writes.

## 3. Runs

All bounds are the constants of the `.cfg` files and the sets of the `MC`
modules.

| Run | Instance | Distinct states | Shows |
|---|---|---|---|
| `table` | limit 2, 3 IDs, named and unnamed run-once entries, 2 ticks | 1.6 M | `TypeOK`, `IndexesAgree`, `CountExact`, `RunOnceLeaves`, `RunStartsUncancelled` |
| `dispatch` | 2 entries (catch-up of all and run-immediately, catch-up of one with a grace period), 4 ticks, updates to another schedule | 1.9 M | `NextFromSchedule`, `NoActivationTwice`, `PausedRunsOnlyCatchUp` |
| `live` | 2 entries, one clock jump, requests without end | 90 k | `PlannedIsServed` |
| `workflow` | all graphs of four entries with one condition an edge and no edge that skips over a longer path, up to the exchange of success and failure (1286); two roots, a step that is paused and resumed at any time | 173 k | `DispatchedOnce`, `NoStuckExecution`, `QuietWhenComplete`, `ResultsJustified`, `ExecutionCompletes` |
| `workflow_edits` | 3 entries, 2 executions, channel of one event, retention 1, two edits or stops | 1.1 M | `LiveJobsBelong`, `ResultsJustified`, `ImplementsGraph`, retention (in `WTypeOK`) |
| `callers` | four goroutines, 4 IDs, 3 runs: replacing, stopping, starting, registering, editing | 0.5 M | `NoStaleRun`, `WaitsCover`, `AllOrNothing` and the invariants of the graph |
| `chains` | three runs of two jobs, eleven accepted pairs of chains up to three deep; a breaker that opens at one failure, for 2 of the 2 ticks there are | 230 k | `SlotsExact`, `JobsWithinLimit`, `FailuresSurface`, `SkipsReported`, `ReservationsStand`, `OncePerScheduledTime`, `OpenCircuitBars`, `RunsReturn` |
| `schedules` | 30 expressions from an hour before a zone change to a day after it, 20 of them in each of ten zones and four in all 13, and some 1700 expressions parsed on their own | 67 k | `NextIsLeast`, `PrevIsGreatest`, `RepeatRunsOnce`, `NoRunLost`, `FieldsAsWritten`, `HashFair` |

Why the bounds are enough.

- Scheduler: the requests of one entry touch only that entry and the shared
  timer, so two entries show every interference; the limit of two with three IDs
  has a full table, a rejected addition and a reused place; four ticks hold a
  missed activation, one that is due and one ahead on both sides of an update;
  the cap on catch-ups is 1 in `dispatch`, below what a start may have missed.
- Workflow: four entries are the least with a diamond and the least with a chain
  and an alternative; reports of two executions or two branches already arrive
  in either order, and one slot in `jobDone` makes the second sender wait.
- Callers: one goroutine creates the entry, one drains it or removes it and
  waits, and one does anything else with it; three runs are a burst of two and the next one, or an old run and
  one after a restart. A drain, alone or with another one, meets a scheduler that is
  stopped and starts, so a catch-up comes before, during and after its wait. Two workflows of the same names with three steps, one of them
  final, and a third caller that removes a step or an edge, or closes a cycle,
  make every request of a registration fail. The caller that edits reaches
  every graph of four entries.
- Chains: two runs of a job contend for its own locks and the third, of another
  job, for shared ones. Every wrapper occurs outside and inside another one that
  could upset it: timeouts outside limits, limits behind limits, `Retry` outside
  whatever reads the context, `Recover` around and below. A twelfth pair, which
  gives one group two sizes, must be rejected (`Accepted`). As for the breaker, a
  failure at 0 opens it, a run meets it open, another failure is stored at 1 or 2, and
  at 2 the cooldown of the first is over while that of the second goes on.
- Schedules: the zones have forward and backward changes by an hour, by half an
  hour, by a length no unit divides, by two hours and by a day, at midnight and
  within a day, east and west of UTC, and two changes two days apart; they fall about
  the end of a year, a month and a week at once. The loop may be late by one
  second, so that it runs a reading after its neighbour, and one due activation may
  meet a paused entry. The `H` fields are tried with every hash of a period.

`CHECK_DEADLOCK FALSE` is set where the modelled system has nothing more to do
at some point: when the calls have returned and the runs are used up
(`callers`), the runs have returned (`chains`), the stretch of time is over
(`schedules`), the attempts are (`retry_backoff`), or all executions have
completed (the workflow runs). In the scheduler runs requests never end.

### Fairness

- `Scheduler`: weak fairness of `Tick`, `TimerFire` and `RunInit` (time passes,
  timers expire, goroutines are scheduled) and strong fairness of `Wake`: a
  re-armed timer makes the case not ready again, and Go's `select` chooses among
  ready cases at random, so a case that is ready again and again is received.
- `Workflow`: weak fairness of `JobEnds` (some job ends; executions wait for
  jobs, however long) and strong fairness of `JobDone`, for the same reason.
- `Chain`: weak fairness of the steps of all runs together. Go schedules
  goroutines, and jobs end; nothing is assumed of which of two waiting runs gets
  a slot, nor of deadlines, cancellation or the clock.

Users are never assumed to act.

### Where the code and its documentation disagree

Each of these is a run that TLC must find violated.

- `workflow_final`, `QuietWhenComplete`: with the README's pipeline
  (`README.md:354-363`), when the first step fails the final step is started
  more than once, and `OnWorkflowComplete` comes while a run of it goes on. The
  cause is an edge that skips over a longer path (1 to 4 beside 1, 2, 4): the
  child becomes ready in the recursion and again in the caller's loop. Whether
  it happens also depends on the order in which the edges were added. This is
  why `workflow` has no such edges.
- `prev_walk`, `WalksAgree`: east of UTC, when the last hour of a day is
  skipped, walking backwards from after the gap misses the runs of that day,
  although walking back is to mirror walking forward
  (`dst_gap_test.go:114`).
- `retry_backoff`, `BackoffWithinCap`: `calculateBackoffDelay` converts a float
  to `time.Duration` before it takes the minimum with `maxDelay`. Once the value no longer
  fits, Go leaves the result open, and on amd64 it is the smallest duration: retries
  without end then no longer wait (`retry.go:241-246`).
- `stop_restart`, `StopWaitReturns`: a `Start` after `Stop` has returned, but
  while the goroutine it left is being woken by the last job, lets a new run
  reuse the wait group, and the goroutine panics; `docs/PERFORMANCE.md:236`
  recommends "Stop, rebuild, start". A start before the last job ends only
  makes the wait longer.

Seen while modelling, without a run of their own.

*Scheduler.* A manual trigger served between the expiry of the timer and its
receipt sets `Prev` after the time the loop will use; `handleTimeBackwards`
takes it for a clock that jumped back, and the due activation is dropped
(`cron.go:1366-1381`, `2134`, against `cron.go:1428-1429`). `Stop` cancels
`baseCtx`, which only `New` creates, so after a restart every run starts with a
cancelled context (`cron.go:2404`, against `cron.go:64-66`, `414-416`);
`RunStartsUncancelled` is about the time before. A paused entry runs its
catch-ups (`cron.go:393-395` against `missed.go:233`; `PausedRunsOnlyCatchUp`
shows that nothing else runs it). Activations passed over while paused are
caught up at the next start (`README.md:330`). At the cap `MissedRunOnce` keeps the
oldest activations and runs the last of those, not the most recent
(`missed.go:41` against `137`). An activation exactly at the time of a start is
neither caught up nor planned (`missed.go:141`). The comments call the limit on
entries approximate while the scheduler runs, and let the count exceed it for a
while (`cron.go:974-976`, `option.go:187-188`); the code never does: additions
hold `runningMu`, and `tryIncrementEntryCount` takes a place by compare-and-swap
(`cron.go:2502-2521`). `CountExact` states what the code does.

*Workflows.* An entry that is started twice (see `workflow_final`) reports
twice, and the second report replaces the first result (`cron.go:1720-1727`). With
the edges 1 to 2 on failure, 1 to 3 and 2 to 3 on completion and 3 to 4 on
success, 3 may succeed and then fail, and 4 has run although its condition does
not hold of the final result. A final step after two steps that have no parents never runs, since a
parent outside the execution counts as unresolved (against
`workflow.go:283-286`); the liveness properties are stated for executions that
contain the parents of their entries (`SelfContained`). A removed entry's
result stays pending, although
`docs/plans/2026-02-14-dag-dependencies-design.md:328` has it skipped.

*Callers.* Two drains of one entry at a time may leave it paused for ever: the second
finds it paused by the first and restores that (`cron.go:2342-2344` speak of
the caller's intent); a pause by a user during a drain is undone. `DrainAndUpsertJob` promises that "no
invocation can start under the stale schedule" and excepts removals, resumes and
triggers by others (`cron.go:2303`, `2311-2313`), but not `Start`: if the scheduler
is stopped when the drain finds nothing to wait for, a start after that catches up
missed runs of the old job, paused or not (`cron.go:1484-1487`, `missed.go:233`), and
the update comes while they go on. `NoStaleRun` excludes this order, by the mark of
`PastWait`, and no other one with a start. The steps of
`AddWorkflow` are registered one at a time, so on a running scheduler a root
may fire before it is wired. Two calls of `RemoveByName` may both report the
removal. `WaitForJob` waits for the whole burst, as long as runs overlap.

*Chains.* A run that `SkipIfStillRunning` or `MaxConcurrentSkip` drops counts as
a success in a workflow, one that a locker drops as skipped. `Retry` outside
`Recover` drops the context of the workflow, so `Recover` swallows the panic
and the step succeeds. A retry that does not reach the job, because a limit,
a locker or a breaker inside `Retry` drops it, returns normally and is logged
as "retry succeeded" (`retry.go:366-368`), so the panic before it does not reach the
workflow, against `chain.go:177-179`. `FailuresSurface` excludes both by
name. `isOpen` reads the clock after it has loaded the time of the last failure
(`retry.go:541-542`): when a late failure is stored and the cooldown before it
ends between the two, the job starts although the breaker has been open all the
time, and the new cooldown goes on, against "skipping execution for the cooldown
duration" (`retry.go:587-588`). `OpenCircuitBars` therefore is about the cooldown
that the run met. Groups taken in
opposite orders by two chains wait for each other; `RunsReturn` is for one
order. After the cooldown every run that starts before the first result is a
probe, though `retry.go:588-589` has "a single probe attempt", and a late failure
reports a transition from half-open that another run has made before
(`retry.go:630`).

*Schedules.* These shapes are not among the scenes because the code
differs there from the meaning: a fall-back that goes back over a midnight
already begun (St. John's until 2010, Casey 2010); a fall-back at midnight west of
UTC (Santiago, Nuuk), of whose second copy `Prev` misses the runs; gaps that are
no whole minutes and begin off the hour; a new zone that begins at second 59,
which `retreatSecond` (`>`) and `advanceSecond` (`<=`) treat differently; a day
skipped at the end of a year (Kiritimati 1994) with a year field. In a union an
`@every` never counts as firing (`firesAt`), so the guard may pass over an
instant at which it is due, though intervals are exempt (`cron.go:1216-1219`);
the properties of the guard are for unions without one (`fixed`). `Between`
excludes its start, although its comment gives `[start, end)`.

## 4. Proofs

`SchedulerProofs` proves, for every value of the constants under
`ConstantsAssumption`, `Spec => []TypeOK`, `[]IndexesAgree` and `[]CountExact`.
The invariant is their conjunction `Inv`, and none of the three is inductive
alone: that removing an ID clears the right name needs the indexes to agree;
that the count is exact after a removal needs the removed entry to be in the
index exactly when it is in the heap; that a new ID is free needs the bound by
`nextID`; and all of it needs the types. `TypeStep` and `InvStep` have one step
per action, on top of lemmas about `NextOf`, the catch-ups, `RemoveEntries`
and cardinalities.

On top of `Inv`, it proves the invariant `NextFromSchedule` and
the action properties of the `table` and `dispatch` runs.

- `LoopInv` adds to `Inv` that `running` holds exactly while a loop exists (an
  entry gets its `Next` from the caller or from the loop, according to
  `running`, and one that got it from neither would keep the `Next` of an
  old schedule), that the slots of IDs not handed out are fresh, and
  that contexts are live until `Stop`. With it, one step of the scheduler
  suffices for `PausedRunsOnlyCatchUp`, `RunStartsUncancelled` and
  `RunOnceLeaves`.
- `RanInv` is what `NoActivationTwice` needs: as long as the clock has not
  jumped, all that has run is not after the clock, nor after the time a fired
  timer holds; `Prev` covers every activation that has run, since the catch-ups
  start from there; and `Next` is beyond it while the loop selects. The
  properties hold because every writer of `Prev` and `Next` keeps all three.

`DependencyGraphProofs` proves `GraphInv` inductive for any number of entries
and any conditions: types, mirrored indexes, no dangling edge, no cycle; each is
a theorem of its own, too. Acyclicity is stated without paths: every
non-empty set of entries has a member with no parent in the set.
`AddDependency` keeps it since `HasCycle` is the least closed set containing
the new parent, and that set, cut with a would-be cycle, would be a smaller
one. `SearchAlwaysExact` shows that the search of the code decides the same, whatever
the order in which it pops its stack. What a search state finds has an explicit
form, `Finds`, which satisfies the recursion, so the recursive function exists and unfolds
(`SearchDefined`); one step changes neither side (`StepFinds`); and every step makes
a measure smaller, the number of entries yet to visit, weighted, plus the size of the
stack, over which the proof is an induction (`SearchFinds`).

`CallersProofs` is about any number of callers, entries, runs and plans.

- `CallersImplementGraph`: `CSpec => GSpec`. A request changes the graph as
  a step of `DependencyGraph` or not at all. That needs `KnownInv`: types, that
  a call about to change an edge knows entries (`EntryKnown`), and that one that
  wires a workflow has validated it and is at one of its edges (`WireKnown`).
  `CallersKeepAcyclic` follows from `GraphStaysAcyclic`.
- `WaitsAlwaysCover` and `NeverAStaleRun` from `WaitInv`. `Bursts` ties the
  channel of an entry to its runs: it is 0 exactly when no run is under way, and
  no two runs have the same number. `CallInv` says what each call may rely on where it
  is: before it takes the channel, the runs it must wait for belong to its
  entry; while it is blocked, they are over once the channel is another one; a
  drain that nobody disturbed has its entry paused, so no new run starts but a
  catch-up, which joins the burst the drain waits for, or marks the drain if it is
  past its wait (`PastWait`); the
  waiter of a stop that has returned has none left. It is stated about one call
  and the parts of the state it depends on, so that a step of another caller,
  a run that starts or one that ends each need one lemma only.
- `WorkflowsAllOrNothing` from `RegInv`, which also is about one call: where it
  registers, it holds an ID for every step before the current one; where it wires,
  every edge before the current one is there, unless an end was removed or the
  call is marked; where it rolls back, what it registered up to the current
  step is gone. What is gone stays gone since no ID is given twice, and an edge
  between entries that stay is lost only to `RemoveDependency`, which marks the
  workflow it belongs to (`EdgeKept`, `RemovalMarks`).

`WorkflowProofs` is about any number of entries and executions, any sound graphs,
any conditions, roots and retention.

- `ImplementsDependencyGraph`: every step of `Workflow` is a step of
  `DependencyGraph` or a stutter, under the sets of the lists of children.
  `slices.Index` and `slices.Delete` remove a child because a list holds it at most
  once; that removing an entry visits only the lists of its parents and the
  dependencies of its children is enough because the indexes mirror each
  other. So `GraphInv`, proved in `DependencyGraphProofs`, holds of the slices.
- `WorkflowTypesCorrect`, `WorkflowJobsBelong` and `ExecutionsNeverStuck` from
  `WInv`. `NoStuckExecution` is not inductive: `WInv` says, entry by entry, why an
  entry is pending (`PendingExplained`: its job or event is under way, or it is not the root and
  a parent is unresolved), that what is under way is known to its
  execution (`StepsKnown`), that an active execution is not complete
  (`NoneComplete`), and that only disturbed executions have cancelled runs, which may
  end without a report (`CancelledDisturbed`). That an execution is not stuck follows
  since the graph is acyclic: among the pending entries one has no pending
  parent.
- `EvaluateFacts` is the lemma behind the step of the run loop: whatever graph, an evaluation
  leaves no pending child of a resolved entry behind whose parents are all
  resolved, unless it started it. It rests on an induction over the visits
  (`VisitsKeep`) and on a measure that shows that `MaxVisits` are enough
  (`WorkShrinks`, `VisitsEnd`). These are inductions over natural numbers for one
  named set each (`SetInduction`, from well-founded induction), not over data with a
  predicate as a parameter.

`WorkflowOnceProofs` proves `DispatchedOnce`, `QuietWhenComplete` and `ResultsJustified`
(`EntriesStartOnce`, `CompletionIsQuiet`, `CompletionIsJustified`) for any
number of entries and executions, under the hypothesis `[]NoShortcut`: no child of an
entry is below another child of it. It is a hypothesis about every state,
since edits change the graph, and it is needed: `workflow_final` shows a graph with such an
edge, where an evaluation starts a child, and starts it again when it comes to it
by the longer path. All graphs of four entries that the run `workflow` starts from satisfy it.

- What an evaluation has still to visit is ordered: an entry yet to come is at or below a
  sibling of those that come after it (`Apart`), hence a different one, and so is all
  that is reached from it. So an evaluation starts no entry twice (`EvaluateOnce`).
- `OnceInv` carries this from step to step, for the executions nobody disturbed.
  `Settled`: what was started or has a result has all its parents resolved; what was
  started has the parents' results its conditions ask for; what has a result and
  was not started was skipped, because of those results or of a pause. `Single`
  and `OnceAt`: there is at most one run or event under way for an entry, which
  was started and whose result is pending.
  `Unstarted`: a slot of an execution not yet begun has started nothing. An event
  so turns a pending result into a final one, and no other step of its execution can do it.

`SchedulesProofs` proves what the parser makes of the fields of an expression,
for any radices, limits, expressions and zones. `EntryInv` says that an entry
added has the schedule the parser gives for its expression, which no later step
changes; the rest is about the parser.

- `FieldsAlwaysAsWritten`. The code works on numbers that go beyond the limit of
  a field and wraps or masks them, where the meaning (`Walk`) counts hops on the
  cycle of distinct values. `RangeParts` and `WalkParts` read an item the same way;
  then each way of the code to collect bits is shown to go through the same
  values: straight on (`CycleStraight`), around the end (`CycleOver`), the whole
  field, and the ranges of weekdays, whose Sunday is both the first value and one past the
  last (`PlainField`, `WeekField` with `SundayOnce`, `WeekToSaturday`, `WeekWrap`). A range
  wraps at most once, so a remainder is the number, or the number plus or minus
  the length (`ModSmall`, `ModBelow`, `ModWrap`), and no division is left to
  the solver. `ListAsWritten` joins the items, `ParsedField` leads from the field to
  the schedule.
- `HashAlwaysFair`. A hash is a quotient and a remainder; `LandingEven` counts the hashes
  of a period that land on a value and finds as many for each. `SingleLands` and
  `StepLands` say which hashes choose the k-th value of a range: those with one
  remainder, and, of the remainders that stand for no value (a step's past the end of
  the range, a second Sunday), those with one quotient. `RekeyedAccepted` shows that
  no key makes the parser reject an expression that it accepts with another, apart
  from `StrictDays`, which looks at the date the key chose; the property leaves that
  option out.

`LockerProofs` proves `ReservationsStand` from `LockerInv`: tokens are
unique, so a late release compares its token with another one and keeps
the key; a sweep keeps what is in force.

`ChainProofs` is about any number of runs and jobs and any chains, nested as
deep as one likes, under `ChainAssumption`: a wrapper is of one of the known
kinds, the locker has a caller for each level and the keys and times of the
reserving wrappers, and no chain has two breakers (all of them share one state
in the model). A step of the chains is a move of the levels of one run, or of
none (`StepMoves`); what a move does is stated of the kinds and phases of
one line of levels (`Move`), so that most lemmas are about functions on levels
and not about the state.

- `LinesInv` is behind all the rest. `Nested`: below a level that has not called
  nothing goes on; a panic of a level is that of the job; a level whose successor
  lives is itself inside, unless a timeout lies between.
- `FailuresAlwaysSurface` from `SurfacesInv`. `Surfaces` says of a run whose job
  panicked when it last ran, level by level, that one that waits to be entered, or has
  not been, does so because of a retry, and that one that returned hides the panic: by a
  timeout, a `Recover` that lost the context, or a retry that a wrapper inside it
  declined. The property is the latter at the first level.
- `SkipsAlwaysReported` from `ReportsInv`: a run is marked skipped only by a level
  that still carries its values, which has returned for good, so that the job is
  out of reach (`Stopped`), and conversely a run whose job has started has no
  such level waiting (`Started`). `Retry` cannot bring one back, since what is
  below it carries no values.
- `SlotsAlwaysExact` and `JobsAlwaysWithinLimit` from `SlotsInv`: each count is the
  number of levels inside, and at most the slots. Only `Acquire` and `Vacate`
  change whether a limiting level is inside (`OtherLevelsKept`; a retry clears
  only levels that have panicked). A job under way behind a limit, with no
  timeout between, makes its limiting level one that is inside, and that
  is an injection.
- `OpenCircuitAlwaysBars` from `ClockInv`, `RecordersInv` and `BarredInv`. Times
  that were stored or read are not after the clock, and one that is about to be
  stored is not before the last one, since one run at a time records. So a run that met an open
  breaker has loaded, if it has, failures that reach the threshold, and a time
  at which a cooldown began that ends no earlier than the one it met: while that
  lasts, its decision is that of an open breaker, although its two loads and its
  reading of the clock are three steps.
- `ChainReservationsStand` takes over `LockerInv`, as every step of a chain is one of
  the locker or leaves it alone (`LockerSteps`). `AlwaysOncePerScheduledTime`
  needs that `SkipDuplicateRuns` never releases (`DedupKeeps`): then a
  second reservation of the key comes after the end of the first.

Assumed are only the named assumptions on constants
(`ConstantsAssumption`, `GraphAssumption`, `CallersAssumption`,
`PlansAssumption`, `LockerAssumption`, `WorkflowAssumption`, `ChainAssumption`,
`FieldsAssumption`, `ScenesAssumption`), which TLC evaluates on the
instances. The last two say that every value of a field is a bit below
`starBit` and that no other field has the limits by which the code knows the days of
the week, and that an expression has all its parts and no step a sign.

Only model-checked:

- liveness (`PlannedIsServed`, `ExecutionCompletes`, `RunsReturn`), out of the prover's reach;
- `NextIsLeast` and `PrevIsGreatest`, and `RepeatRunsOnce` and `NoRunLost`, which rest
  on them. The searches do not find what the fields mean in every zone: section 3
  names shapes of zone changes where they differ. A theorem would have to say which
  zones are good, and be an induction through six nested searches that restart
  each other;
- `ResultsJustified`, `DispatchedOnce` and `QuietWhenComplete` on graphs with
  edges that skip over a longer path: none of them holds of all such graphs, as
  section 3 shows. The graphs of `workflow_edits` have three entries, too few for
  `ResultsJustified` to fail;
- `Retry`, whose `BackoffWithinCap` is a statement of the source that a run refutes.

## 5. Not modelled

- `heap.go`: one data structure of one goroutine; `Scheduler` takes it as the set
  it represents.
- `FakeClock`, which tests use; `validate.go`, which reports what `Parse`
  rejects; the text of expressions, their normalisation and the spec cache.
- `MissedRunOnce` and `MissedRunAll` on a fall-back day (`skipMissed`): the guard
  and the catch-ups are modelled apart.
- Leap years and fractions of a second; gaps and repeats of the shapes named in
  section 3.
- The predicates and callbacks of `RetryOnError`; events of the breaker.
- Hooks, logging, `doc.go`; 64-bit wrap-around of IDs and counters, which no
  program reaches; jobs themselves.
