------------------------------ MODULE Scheduler ------------------------------
(***************************************************************************)
(* The entry table, the clock and the run loop of cron.go / missed.go.     *)
(*                                                                         *)
(* Every public operation holds runningMu, and while the scheduler runs it *)
(* hands a request to the run loop and waits for the reply, so each is one *)
(* atomic action here, taken by the run loop ("select") or, while nothing  *)
(* runs, by the caller.  The timer of the run loop is the one asynchronous *)
(* party: it puts the time at which it fired in a channel (timer.fired),   *)
(* and the loop may serve any number of requests before it receives it.    *)
(*                                                                         *)
(* Times are 1..Horizon; 0 is Go's zero time.  A Schedule is the set of    *)
(* its activation times, {} being TriggeredSchedule; wall clocks do not    *)
(* repeat (no daylight saving), so the fall-back guard skips nothing.      *)
(* Jobs are outside: starting one is an element of "started".              *)
(***************************************************************************)
EXTENDS Integers, FiniteSets, FiniteSetsExt

CONSTANTS
    Names,          \* the non-empty names entries may carry
    NoName,         \* the empty name
    Schedules,      \* schedules a caller may pass, sets of times
    JobSpecs,       \* the (schedule, options) a caller may add
    MaxEntries,     \* WithMaxEntries; 0 is unlimited
    MaxMissedRuns,  \* const maxMissedRuns, 100 in the code
    MaxEntryID,     \* bound: IDs handed out
    Horizon,        \* bound: the last clock value
    MaxJumps        \* bound: how often the wall clock jumps backwards

Zero  == 0
Times == 1..Horizon
Ids   == 1..MaxEntryID
Idle  == -1         \* timer.left when the timer sleeps maxIdleDuration

Policies == {"MissedSkip", "MissedRunOnce", "MissedRunAll"}
Kinds    == {"scheduled", "immediate", "catchup", "manual"}

JobSpec == [name : Names \union {NoName}, sched : SUBSET Times, prev : Times \union {Zero},
            paused : BOOLEAN, runOnce : BOOLEAN, runImmediately : BOOLEAN,
            policy : Policies, grace : Nat]

Entry == [name : Names \union {NoName}, sched : SUBSET Times,
          next : Times \union {Zero}, prev : Times \union {Zero},
          paused : BOOLEAN, runOnce : BOOLEAN, runImmediately : BOOLEAN,
          immediateDue : BOOLEAN, policy : Policies, grace : Nat,
          ctxLive : BOOLEAN]

ASSUME ConstantsAssumption ==
    /\ NoName \notin Names
    /\ Schedules \subseteq SUBSET Times
    /\ JobSpecs \subseteq JobSpec
    /\ {MaxEntries, MaxEntryID, MaxJumps} \subseteq Nat
    /\ {MaxMissedRuns, Horizon} \subseteq Nat \ {0}

VARIABLES
    running,        \* Cron.running
    loop,           \* the run goroutine: "none", "starting" or "select"
    clock,          \* the wall clock
    jumps,          \* backward jumps so far (bound MaxJumps)
    timer,          \* left: ticks to go; fired: the time in its channel
    heap,           \* the entries of Cron.entries
    entryIndex,     \* the keys of Cron.entryIndex
    nameIndex,      \* Cron.nameIndex, Zero where a name is free
    entryCount,     \* Cron.entryCount
    nextID,         \* Cron.nextID
    entry,          \* the Entry structs
    baseCancelled,  \* Cron.baseCtx is cancelled
    started         \* the job runs the last step launched

table == <<heap, entryIndex, nameIndex, entryCount, nextID, entry>>
vars  == <<running, loop, clock, jumps, timer, table, baseCancelled, started>>

-----------------------------------------------------------------------------
(* Schedules and entries *)

\* Schedule.Next: the first activation strictly after t, or the zero time.
NextOf(s, t) ==
    LET later == {u \in s : u > t} IN IF later = {} THEN Zero ELSE Min(later)

\* calculateMissedRuns: the activations between Prev and now that are to be
\* caught up, the oldest MaxMissedRuns of them.
MissedRunsFromPrev(e, now) ==   \* mutant: Prev itself counts as missed
    IF e.prev = Zero \/ e.policy = "MissedSkip" \/ e.runOnce
    THEN {} ELSE {t \in e.sched : e.prev <= t /\ t < now}

MissedRuns(e, now) ==
    LET eligible == {t \in e.sched : /\ e.prev < t /\ t < now
                                     /\ e.grace > 0 => now - t <= e.grace}
    IN  IF e.prev = Zero \/ e.policy = "MissedSkip" \/ e.runOnce
        THEN {}
        ELSE {t \in eligible : Cardinality({u \in eligible : u < t}) < MaxMissedRuns}

\* handleMissedRuns: which of them run, and the Prev they leave behind.
CatchUps(e, now) ==
    LET missed == MissedRuns(e, now)
    IN  IF e.policy = "MissedRunOnce" /\ missed # {} THEN {Max(missed)} ELSE missed

AfterCatchUp(e, now) ==
    [e EXCEPT !.prev = IF MissedRuns(e, now) = {} THEN @ ELSE Max(MissedRuns(e, now))]

Reschedule(e, now) == [e EXCEPT !.immediateDue = FALSE, !.next = NextOf(e.sched, now)]

ScheduleEntryNextUnmarked(e, now) ==   \* mutant: immediateDue is not set
    IF e.runImmediately
    THEN [e EXCEPT !.next = now, !.runImmediately = FALSE]
    ELSE Reschedule(e, now)

ScheduleEntryNext(e, now) ==
    IF e.runImmediately
    THEN [e EXCEPT !.next = now, !.runImmediately = FALSE, !.immediateDue = TRUE]
    ELSE Reschedule(e, now)

\* What run() and the add case do with an entry the loop takes over.
TakeOver(e, now) == ScheduleEntryNext(AfterCatchUp(e, now), now)

CatchUpRuns(i, e, now) == {[id |-> i, kind |-> "catchup", at |-> t] : t \in CatchUps(e, now)}

NewEntry(spec) ==
    [name |-> spec.name, sched |-> spec.sched, next |-> Zero, prev |-> spec.prev,
     paused |-> spec.paused, runOnce |-> spec.runOnce,
     runImmediately |-> spec.runImmediately, immediateDue |-> FALSE,
     policy |-> spec.policy, grace |-> spec.grace, ctxLive |-> ~baseCancelled]

NoEntry ==
    [name |-> NoName, sched |-> {}, next |-> Zero, prev |-> Zero, paused |-> FALSE,
     runOnce |-> FALSE, runImmediately |-> FALSE, immediateDue |-> FALSE,
     policy |-> "MissedSkip", grace |-> 0, ctxLive |-> FALSE]

-----------------------------------------------------------------------------
(* Pieces of the run loop *)

\* Peek and NewTimer at the head of the loop, for the loop's own "now".
Arm(now) ==
    LET deadlines == {entry'[i].next : i \in heap'} \ {Zero}
        wait      == Min(deadlines) - now
    IN  timer' = [left  |-> IF deadlines = {} THEN Idle ELSE IF wait > 0 THEN wait ELSE 0,
                  fired |-> Zero]

\* The entries of ids that removeEntry finds, and the names it gives back.
Found(ids)   == ids \intersect entryIndex
NamesOf(ids) == {entry[i].name : i \in ids}

\* mutants: the name stays reserved; the entry stays in the heap
RemoveEntriesKeepName(ids) ==
    /\ heap' = heap \ Found(ids) /\ entryIndex' = entryIndex \ ids
    /\ entryCount' = entryCount - Cardinality(Found(ids))
    /\ UNCHANGED <<nameIndex, nextID>>

RemoveEntriesKeepHeap(ids) ==
    /\ entryIndex' = entryIndex \ ids
    /\ nameIndex' = [n \in Names |-> IF n \in NamesOf(Found(ids)) THEN Zero ELSE nameIndex[n]]
    /\ entryCount' = entryCount - Cardinality(Found(ids))
    /\ UNCHANGED <<heap, nextID>>

\* removeEntry: the tables forget the entries of ids.
RemoveEntries(ids) ==
    /\ heap' = heap \ Found(ids)
    /\ entryIndex' = entryIndex \ ids
    /\ nameIndex' = [n \in Names |-> IF n \in NamesOf(Found(ids)) THEN Zero ELSE nameIndex[n]]
    /\ entryCount' = entryCount - Cardinality(Found(ids))
    /\ UNCHANGED nextID

RunnableAlways(e) == TRUE         \* mutant
Runnable(e)       == ~e.paused

\* A request is served by the idle caller or by the run loop.
Serving == ~running \/ loop = "select"

\* The request cases that leave the loop's timer alone, and those that re-arm it.
KeepTimer  == UNCHANGED timer
ReArmNever == UNCHANGED timer     \* mutant
ReArm      == IF running THEN Arm(clock) ELSE UNCHANGED timer

-----------------------------------------------------------------------------
Init ==
    /\ running = FALSE /\ loop = "none"
    /\ clock = 1 /\ jumps = 0
    /\ timer = [left |-> Idle, fired |-> Zero]
    /\ heap = {} /\ entryIndex = {}
    /\ nameIndex = [n \in Names |-> Zero]
    /\ entryCount = 0 /\ nextID = 0
    /\ entry = [i \in Ids |-> NoEntry]
    /\ baseCancelled = FALSE
    /\ started = {}

(* ScheduleJob *)

\* tryIncrementEntryCount: an unlimited cron never counts up.
HasRoomOffByOne  == MaxEntries = 0 \/ entryCount <= MaxEntries   \* mutant
HasRoom          == MaxEntries = 0 \/ entryCount < MaxEntries
IncrementedCount == IF MaxEntries = 0 THEN entryCount ELSE entryCount + 1

AddEntry(spec) ==
    LET id == nextID + 1
        e  == NewEntry(spec)
    IN  /\ Serving
        /\ nextID < MaxEntryID
        /\ HasRoom
        /\ spec.name # NoName => nameIndex[spec.name] = Zero
        /\ nextID' = id
        /\ entryCount' = IncrementedCount
        /\ heap' = heap \union {id}
        /\ entryIndex' = entryIndex \union {id}
        /\ nameIndex' = [n \in Names |-> IF n = spec.name THEN id ELSE nameIndex[n]]
        /\ entry' = [entry EXCEPT ![id] = IF running THEN TakeOver(e, clock) ELSE e]
        /\ started' = IF running THEN CatchUpRuns(id, e, clock) ELSE {}
        /\ ReArm
        /\ UNCHANGED <<running, loop, clock, jumps, baseCancelled>>

\* A taken name: the ID is given back and the count decremented, also when an
\* unlimited cron did not increment it (bound: -MaxEntryID).
AddDuplicateName(spec) ==
    /\ Serving
    /\ HasRoom
    /\ spec.name # NoName /\ nameIndex[spec.name] # Zero
    /\ entryCount > -MaxEntryID
    /\ entryCount' = IncrementedCount - 1
    /\ started' = {}
    /\ KeepTimer
    /\ UNCHANGED <<running, loop, clock, jumps, heap, entryIndex, nameIndex, nextID,
                   entry, baseCancelled>>

(* Remove, whether or not the ID exists *)
Remove(id) ==
    /\ Serving
    /\ RemoveEntries({id})
    /\ entry' = [entry EXCEPT ![id].ctxLive = @ /\ id \notin entryIndex]
    /\ started' = {}
    /\ ReArm
    /\ UNCHANGED <<running, loop, clock, jumps, baseCancelled>>

(* UpdateSchedule, and UpdateEntry when newJob *)
Update(id, sched, newJob) ==
    LET e == [entry[id] EXCEPT !.sched = sched,
                               !.ctxLive = IF newJob THEN ~baseCancelled ELSE @]
    IN  /\ Serving
        /\ id \in entryIndex
        /\ entry' = [entry EXCEPT ![id] = IF running THEN ScheduleEntryNext(e, clock) ELSE e]
        /\ started' = {}
        /\ UNCHANGED <<heap, entryIndex, nameIndex, entryCount, nextID>>
        /\ ReArm
        /\ UNCHANGED <<running, loop, clock, jumps, baseCancelled>>

(* PauseEntry and ResumeEntry *)
SetPaused(id, pause) ==
    /\ Serving
    /\ id \in entryIndex
    /\ entry' = [entry EXCEPT ![id].paused = pause]
    /\ started' = {}
    /\ KeepTimer
    /\ UNCHANGED <<running, loop, clock, jumps, heap, entryIndex, nameIndex, entryCount,
                   nextID, baseCancelled>>

(* TriggerEntry *)
Trigger(id) ==
    /\ running /\ loop = "select"
    /\ id \in entryIndex /\ Runnable(entry[id])
    /\ started' = {[id |-> id, kind |-> "manual", at |-> clock]}
    /\ entry' = [entry EXCEPT ![id].prev = clock]
    /\ RemoveEntries(IF entry[id].runOnce THEN {id} ELSE {})
    /\ KeepTimer
    /\ UNCHANGED <<running, loop, clock, jumps, baseCancelled>>

-----------------------------------------------------------------------------
(* Starting and stopping *)

Start ==
    /\ ~running
    /\ running' = TRUE /\ loop' = "starting"
    /\ started' = {}
    /\ UNCHANGED <<clock, jumps, timer, table, baseCancelled>>

\* The head of run(): catch-ups and first activations of every entry.
RunInit ==
    /\ loop = "starting"
    /\ loop' = "select"
    /\ entry' = [i \in Ids |-> IF i \in heap THEN TakeOver(entry[i], clock) ELSE entry[i]]
    /\ started' = UNION {CatchUpRuns(i, entry[i], clock) : i \in heap}
    /\ UNCHANGED <<heap, entryIndex, nameIndex, entryCount, nextID>>
    /\ Arm(clock)
    /\ UNCHANGED <<running, clock, jumps, baseCancelled>>

Stop ==
    /\ Serving
    /\ running' = FALSE /\ loop' = "none"
    /\ timer' = [left |-> Idle, fired |-> Zero]
    /\ baseCancelled' = TRUE
    /\ entry' = [i \in Ids |-> [entry[i] EXCEPT !.ctxLive = FALSE]]
    /\ started' = {}
    /\ UNCHANGED <<clock, jumps, heap, entryIndex, nameIndex, entryCount, nextID>>

-----------------------------------------------------------------------------
(* The timer and the wake of the run loop *)

\* The timer channel receives the time at which the timer expires.
TimerFire ==
    /\ loop = "select"
    /\ timer.left = 0 /\ timer.fired = Zero
    /\ timer' = [timer EXCEPT !.fired = clock]
    /\ started' = {}
    /\ UNCHANGED <<running, loop, clock, jumps, table, baseCancelled>>

\* handleTimeBackwards
AfterTimeBackwards(e, now) == IF e.prev > now THEN Reschedule(e, now) ELSE e

IsDue(e, now) == e.next # Zero /\ e.next <= now

\* One iteration of processDueEntries for a due entry.
AfterDueCancels(e, now) ==   \* mutant: the removal cancels the run it follows
    CASE e.paused -> Reschedule(e, now)
      [] ~e.paused /\ e.runOnce ->
            [e EXCEPT !.immediateDue = FALSE, !.prev = e.next, !.ctxLive = FALSE]
      [] OTHER -> Reschedule([e EXCEPT !.prev = e.next], now)

AfterDue(e, now) ==
    CASE e.paused -> Reschedule(e, now)
      [] ~e.paused /\ e.runOnce -> [e EXCEPT !.immediateDue = FALSE, !.prev = e.next]
      [] OTHER -> Reschedule([e EXCEPT !.prev = e.next], now)

DueRunAtPrev(i, e) ==   \* mutant: reports the previous activation
    [id |-> i, kind |-> IF e.immediateDue THEN "immediate" ELSE "scheduled", at |-> e.prev]

DueRun(i, e) ==
    [id |-> i, kind |-> IF e.immediateDue THEN "immediate" ELSE "scheduled", at |-> e.next]

\* The timer case.  A dispatched entry's next activation is after now, so
\* the loop over the heap visits each due entry once.
Wake ==
    LET now  == timer.fired
        cur  == [i \in Ids |-> IF i \in heap THEN AfterTimeBackwards(entry[i], now) ELSE entry[i]]
        due  == {i \in heap : IsDue(cur[i], now)}
        runs == {i \in due : Runnable(cur[i])}
    IN  /\ loop = "select"
        /\ now # Zero
        /\ entry' = [i \in Ids |-> IF i \in due THEN AfterDue(cur[i], now) ELSE cur[i]]
        /\ started' = {DueRun(i, cur[i]) : i \in runs}
        /\ RemoveEntries({i \in runs : cur[i].runOnce})
        /\ Arm(now)
        /\ UNCHANGED <<running, loop, clock, jumps, baseCancelled>>

-----------------------------------------------------------------------------
(* The environment: time.  The clock saturates at Horizon, after the last    *)
(* activation of every schedule; the countdown of the timer is monotonic and *)
(* does not see the jumps of the wall clock.                                 *)
Tick ==
    /\ clock < Horizon \/ timer.left > 0
    /\ clock' = IF clock < Horizon THEN clock + 1 ELSE clock
    /\ timer' = [timer EXCEPT !.left = IF @ > 0 THEN @ - 1 ELSE @]
    /\ started' = {}
    /\ UNCHANGED <<running, loop, jumps, table, baseCancelled>>

ClockBack ==
    /\ jumps < MaxJumps
    /\ jumps' = jumps + 1
    /\ \E t \in Times : t < clock /\ clock' = t
    /\ started' = {}
    /\ UNCHANGED <<running, loop, timer, table, baseCancelled>>

Request ==
    \/ \E spec \in JobSpecs : AddEntry(spec) \/ AddDuplicateName(spec)
    \/ \E id \in Ids :
          \/ Remove(id)
          \/ Trigger(id)
          \/ \E pause \in BOOLEAN : SetPaused(id, pause)
          \/ \E sched \in Schedules, newJob \in BOOLEAN : Update(id, sched, newJob)

Next ==
    Request \/ Start \/ RunInit \/ Stop \/ TimerFire \/ Wake \/ Tick \/ ClockBack

\* Time passes, timers expire and the goroutine of run() is scheduled.  Go's
\* select picks among ready cases at random, so a wake that is ready again and
\* again is received, whatever the other requests do: strong fairness.
Fairness ==
    WF_vars(Tick) /\ WF_vars(TimerFire) /\ WF_vars(RunInit) /\ SF_vars(Wake)

Spec     == Init /\ [][Next]_vars
FairSpec == Spec /\ Fairness

-----------------------------------------------------------------------------
(* Invariants *)

\* Every variable has its type.
TypeOK ==
    /\ running \in BOOLEAN
    /\ loop \in {"none", "starting", "select"}
    /\ clock \in Times
    /\ jumps \in 0..MaxJumps
    /\ timer \in [left : Nat \union {Idle}, fired : Times \union {Zero}]
    /\ heap \subseteq Ids
    /\ entryIndex \subseteq Ids
    /\ nameIndex \in [Names -> Ids \union {Zero}]
    /\ entryCount \in Int
    /\ nextID \in 0..MaxEntryID
    /\ entry \in [Ids -> Entry]
    /\ baseCancelled \in BOOLEAN
    /\ started \subseteq [id : Ids, kind : Kinds, at : Times]

\* The heap, the ID index and the name index describe the same entries: an
\* entry the loop can fire can be looked up and removed, a name leads to the
\* entry that carries it, and no two entries share a name.
IndexesAgree ==
    /\ heap = entryIndex
    /\ \A i \in entryIndex : i <= nextID
    /\ \A i \in entryIndex : entry[i].name # NoName => nameIndex[entry[i].name] = i
    /\ \A n \in Names : nameIndex[n] # Zero =>
          nameIndex[n] \in entryIndex /\ entry[nameIndex[n]].name = n

\* With a limit, the counter that admits new entries is exact after every
\* mixture of additions, rejected additions, removals and run-once
\* dispatches, and the limit holds.  The comments call the limit approximate
\* while the scheduler runs and let the count exceed it for a while
\* (cron.go:974-976, option.go:187-188).  The code is stricter: additions hold
\* runningMu, and tryIncrementEntryCount takes a place by compare-and-swap
\* (cron.go:2502-2521).
CountExact ==
    MaxEntries > 0 => entryCount = Cardinality(entryIndex) /\ entryCount <= MaxEntries
=============================================================================
