------------------------------- MODULE Callers -------------------------------
(***************************************************************************)
(* The operations of cron.go and workflow.go that make several requests,   *)
(* or wait, on behalf of goroutines that call them at the same time:       *)
(* UpsertJob, DrainAndUpsertJob, AddWorkflow, removal, pause and edges by  *)
(* name, RemoveAndWait, WaitForJob, Stop with its waiting variants, Start. *)
(*                                                                         *)
(* A request is served by the run loop or under runningMu, so it is one    *)
(* step; between two requests of a caller anything may happen.  What a     *)
(* request does to the dependency edges is module DependencyGraph's.       *)
(* Schedules and jobs are left out: any entry that is not paused may fire  *)
(* while the scheduler runs, and a scheduler that starts may catch up      *)
(* missed runs of any entry, of a paused one too, before it serves.        *)
(***************************************************************************)
EXTENDS DependencyGraph, Sequences

CONSTANTS
    Callers,      \* goroutines, each with one call to make
    NoName,       \* the name of an entry without one
    MaxEntries,   \* WithMaxEntries
    MaxRuns,      \* bound: runs started
    Plans         \* each whether the scheduler is running at first, and calls: from
                  \* Callers to records with op, name, parent (a name) and w (a workflow)

ASSUME CallersAssumption == MaxRuns \in Nat

VARIABLES
    plan,
    call,       \* Callers -> where the call is and what it knows
    names,      \* the Name of the entries
    paused,     \* their Paused
    running,    \* Cron.running
    starting,   \* run has begun, and has not come to its loop
    flight,     \* the runs under way: number no, of entry id
    runs,       \* the number of runs started
    channel     \* jobTracker.done: the number of the run that made it, 0 for nil

ownVars == <<plan, call, names, paused, running, starting, flight, runs, channel>>
cvars   == <<gvars, ownVars>>

NewCall == [pc |-> "start", id |-> 0, wasPaused |-> FALSE, ch |-> 0, covers |-> {},
            k |-> 1, ids |-> <<>>, disturbed |-> FALSE, waiter |-> "none", outcome |-> "none"]

op(p)      == plan.calls[p].op
At(p, pc)  == call[p].pc = pc
InFlight(id) == {r.no : r \in {s \in flight : s.id = id}}

\* Cron.nameIndex; 0 is the invalid entry.
EntryByName(name) ==
    LET S == {i \in entryIndex : names[i] = name}
    IN  IF S = {} THEN 0 ELSE CHOOSE i \in S : TRUE

Goto(p, pc)        == call' = [call EXCEPT ![p].pc = pc]
Return(p, outcome) == call' = [call EXCEPT ![p].pc = "done", ![p].outcome = outcome]

-----------------------------------------------------------------------------
(* The requests *)

Rejects(name) ==
    \/ name # NoName /\ EntryByName(name) # 0
    \/ Cardinality(entryIndex) >= MaxEntries

\* scheduleJob, for an addition it does not reject
ScheduleJob(name) ==
    /\ ~Rejects(name)
    /\ AddEntry
    /\ names' = [names EXCEPT ![nextID + 1] = name]
    /\ UNCHANGED paused

Remove(id) == RemoveEntry(id) \/ (id \notin entryIndex /\ UNCHANGED gvars)

\* The drains that wait, or are about to swap, while another resumes the entry.
Resumed(c, id) ==
    [q \in Callers |->
        IF op(q) = "drain" /\ c[q].id = id /\ c[q].pc \in {"find", "channel", "blocked", "update"}
        THEN [c[q] EXCEPT !.disturbed = TRUE] ELSE c[q]]

SetPaused(id, isPaused) ==
    /\ paused' = [paused EXCEPT ![id] = isPaused]
    /\ UNCHANGED names

-----------------------------------------------------------------------------
(* Runs *)

TrackerStartFresh(id) ==   \* mutant: every run makes a channel of its own
    channel' = [channel EXCEPT ![id] = runs + 1]

TrackerStart(id) ==
    channel' = [channel EXCEPT ![id] = IF @ = 0 THEN runs + 1 ELSE @]

TrackerFinish(r) ==
    channel' = [channel EXCEPT ![r.id] = IF InFlight(r.id) = {r.no} THEN 0 ELSE @]

\* startJob
Launch(id) ==
    /\ runs < MaxRuns /\ id \in entryIndex
    /\ runs' = runs + 1
    /\ flight' = flight \union {[no |-> runs + 1, id |-> id]}
    /\ TrackerStart(id)
    /\ UNCHANGED <<gvars, plan, names, paused, running, starting>>

Fire(id) ==
    /\ running /\ ~starting /\ ~paused[id]
    /\ Launch(id)
    /\ UNCHANGED call

\* The drains of an entry that have stopped waiting for its runs.
PastWait(c, id) ==
    [q \in Callers |->
        IF /\ op(q) = "drain" /\ c[q].id = id
           /\ c[q].pc = "update" \/ (c[q].pc = "blocked" /\ c[q].ch # channel[id])
        THEN [c[q] EXCEPT !.disturbed = TRUE] ELSE c[q]]

\* processMissedRuns, for an entry of any policy: it does not ask for Paused.
CatchUp(id) ==
    /\ starting
    /\ Launch(id)
    /\ call' = PastWait(call, id)

LoopBegins ==
    /\ starting
    /\ starting' = FALSE
    /\ UNCHANGED <<gvars, plan, call, names, paused, running, flight, runs, channel>>

\* A run returns: the tracker's finish and the wait group's Done.  The last
\* Done wakes the goroutines that wait for the group.
Finish(r) ==
    /\ flight' = flight \ {r}
    /\ TrackerFinish(r)
    /\ call' = [q \in Callers |->
                  IF flight' = {} /\ call[q].waiter = "asleep"
                  THEN [call[q] EXCEPT !.waiter = "woken"] ELSE call[q]]
    /\ UNCHANGED <<gvars, plan, names, paused, running, starting, runs>>

-----------------------------------------------------------------------------
(* Calls by name *)

\* Where a call goes on when its lookup found the entry, or did not.
Present == [upsert |-> "update", drain |-> "pause", wait |-> "channel", remove |-> "remove",
            removeAndWait |-> "remove", pause |-> "set", resume |-> "set",
            addDependency |-> "parent", removeDependency |-> "parent"]

Creates == {"upsert", "drain"}

LookUp(p) ==
    /\ At(p, "start") /\ op(p) \in DOMAIN Present
    /\ LET id == EntryByName(plan.calls[p].name)
       IN  call' = [call EXCEPT ![p] =
             IF id # 0
             THEN [@ EXCEPT !.pc = Present[op(p)], !.id = id,
                            !.wasPaused = paused[id], !.covers = InFlight(id)]
             ELSE IF op(p) \in Creates THEN [@ EXCEPT !.pc = "create"]
             ELSE [@ EXCEPT !.pc = "done", !.outcome = "notFound"]]
    /\ UNCHANGED <<gvars, plan, names, paused, running, starting, flight, runs, channel>>

\* ScheduleJob, for a name that had no entry, or no longer has
Create(p) ==
    /\ At(p, "create")
    /\ \/ /\ ScheduleJob(plan.calls[p].name)
          /\ call' = [call EXCEPT ![p].pc = "done", ![p].outcome = "created", ![p].id = nextID + 1]
       \/ /\ Rejects(plan.calls[p].name)
          /\ Return(p, "rejected")
          /\ UNCHANGED <<gvars, names, paused>>
    /\ UNCHANGED <<plan, running, starting, flight, runs, channel>>

\* UpdateEntry: an entry that was removed meanwhile is created anew
Update(p) ==
    /\ At(p, "update")
    /\ call' = [call EXCEPT ![p] =
         CASE call[p].id \notin entryIndex -> [@ EXCEPT !.pc = "create"]
           [] call[p].id \in entryIndex /\ op(p) = "drain" ->
                [@ EXCEPT !.pc = "resume", !.covers = InFlight(call[p].id)]
           [] OTHER -> [@ EXCEPT !.pc = "done", !.outcome = "updated"]]
    /\ UNCHANGED <<gvars, plan, names, paused, running, starting, flight, runs, channel>>

RemoveRequest(p) ==
    /\ At(p, "remove")
    /\ Remove(call[p].id)
    /\ call' = [call EXCEPT ![p] =
         IF op(p) = "removeAndWait" /\ call[p].id \in entryIndex
         THEN [@ EXCEPT !.pc = "channel", !.covers = InFlight(call[p].id)]
         ELSE [@ EXCEPT !.pc = "done",
                 !.outcome = IF op(p) = "removeAndWait" THEN "notFound" ELSE "removed"]]
    /\ UNCHANGED <<plan, names, paused, running, starting, flight, runs, channel>>

\* PauseEntry and ResumeEntry
SetRequest(p) ==
    /\ At(p, "set")
    /\ IF call[p].id \in entryIndex
       THEN /\ SetPaused(call[p].id, op(p) = "pause")
            /\ call' = [(IF op(p) = "pause" THEN call ELSE Resumed(call, call[p].id))
                          EXCEPT ![p].pc = "done", ![p].outcome = "set"]
       ELSE Return(p, "notFound") /\ UNCHANGED <<names, paused>>
    /\ UNCHANGED <<gvars, plan, running, starting, flight, runs, channel>>

LookUpParent(p) ==
    /\ At(p, "parent")
    /\ LET id == EntryByName(plan.calls[p].parent)
       IN  IF id = 0 THEN Return(p, "notFound")
           ELSE call' = [call EXCEPT ![p].pc = "edge", ![p].ids = <<id>>]
    /\ UNCHANGED <<gvars, plan, names, paused, running, starting, flight, runs, channel>>

\* The workflows of other callers of which an edge is removed.
Unwired(c, child, parent) ==
    [q \in Callers |->
        IF {child, parent} \subseteq {c[q].ids[k] : k \in DOMAIN c[q].ids}
        THEN [c[q] EXCEPT !.disturbed = TRUE] ELSE c[q]]

EdgeRequest(p) ==
    /\ At(p, "edge")
    /\ LET child  == call[p].id
           parent == call[p].ids[1]
       IN  \/ /\ op(p) = "addDependency"
              /\ \E condition \in Conditions : AddDependency(child, parent, condition)
              /\ Return(p, "added")
           \/ /\ op(p) = "addDependency"
              /\ ~({child, parent} \subseteq entryIndex) \/ HasCycle(child, parent)
              /\ Return(p, "rejected")
              /\ UNCHANGED gvars
           \/ /\ op(p) = "removeDependency"
              /\ RemoveDependency(child, parent)
              /\ call' = [Unwired(call, child, parent)
                            EXCEPT ![p].pc = "done", ![p].outcome = "removed"]
    /\ UNCHANGED <<plan, names, paused, running, starting, flight, runs, channel>>

-----------------------------------------------------------------------------
(* DrainAndUpsertJob: look up, pause, wait, update, restore *)

DrainPauseForgotten(p) ==   \* mutant: the entry may fire while it drains
    /\ At(p, "pause")
    /\ Goto(p, IF call[p].id \in entryIndex THEN "find" ELSE "create")
    /\ UNCHANGED <<gvars, plan, names, paused, running, starting, flight, runs, channel>>

DrainPause(p) ==
    /\ At(p, "pause")
    /\ IF call[p].id \in entryIndex
       THEN SetPaused(call[p].id, TRUE) /\ Goto(p, "find")
       ELSE UNCHANGED <<names, paused>> /\ Goto(p, "create")
    /\ UNCHANGED <<gvars, plan, running, starting, flight, runs, channel>>

\* WaitForJob looks the entry up once more, by its ID.
DrainFind(p) ==
    /\ At(p, "find")
    /\ Goto(p, IF call[p].id \in entryIndex THEN "channel" ELSE "update")
    /\ UNCHANGED <<gvars, plan, names, paused, running, starting, flight, runs, channel>>

DrainResume(p) ==
    /\ At(p, "resume")
    /\ IF call[p].wasPaused \/ call[p].id \notin entryIndex
       THEN Return(p, "updated") /\ UNCHANGED <<names, paused>>
       ELSE /\ SetPaused(call[p].id, FALSE)
            /\ call' = [Resumed(call, call[p].id) EXCEPT ![p].pc = "done", ![p].outcome = "updated"]
    /\ UNCHANGED <<gvars, plan, running, starting, flight, runs, channel>>

-----------------------------------------------------------------------------
(* jobTracker.wait and waitContext *)

Waited(p) ==
    IF op(p) = "drain" THEN Goto(p, "update") ELSE Return(p, "waited")

TakeChannel(p) ==
    /\ At(p, "channel")
    /\ IF channel[call[p].id] = 0 THEN Waited(p)
       ELSE call' = [call EXCEPT ![p].pc = "blocked", ![p].ch = channel[call[p].id]]
    /\ UNCHANGED <<gvars, plan, names, paused, running, starting, flight, runs, channel>>

ChannelClosed(p) ==
    /\ At(p, "blocked")
    /\ channel[call[p].id] # call[p].ch
    /\ Waited(p)
    /\ UNCHANGED <<gvars, plan, names, paused, running, starting, flight, runs, channel>>

\* The caller's context ends, or StopWithTimeout's time.
Deadline(p) ==
    /\ \/ At(p, "blocked") /\ op(p) = "removeAndWait"
       \/ At(p, "stopped") /\ op(p) = "stop"
    /\ Return(p, "deadline")
    /\ UNCHANGED <<gvars, plan, names, paused, running, starting, flight, runs, channel>>

-----------------------------------------------------------------------------
(* Stop, StopAndWait, StopWithTimeout and Start.  Stop leaves a goroutine  *)
(* that waits for Cron.jobWaiter, a sync.WaitGroup: it sleeps unless the   *)
(* group is empty, and one that was woken panics if it finds the group in  *)
(* use again.                                                              *)

Stop(p) ==
    /\ At(p, "start") /\ op(p) = "stop"
    /\ running' = FALSE
    /\ call' = [call EXCEPT ![p].pc = "stopped", ![p].waiter = "called",
                            ![p].covers = {r.no : r \in flight}]
    /\ UNCHANGED <<gvars, plan, names, paused, starting, flight, runs, channel>>

GroupWait(p) ==
    /\ call[p].waiter = "called"
    /\ call' = [call EXCEPT ![p].waiter = IF flight = {} THEN "returned" ELSE "asleep"]
    /\ UNCHANGED <<gvars, plan, names, paused, running, starting, flight, runs, channel>>

GroupReturn(p) ==
    /\ call[p].waiter = "woken"
    /\ call' = [call EXCEPT ![p].waiter = IF flight = {} THEN "returned" ELSE "panicked"]
    /\ UNCHANGED <<gvars, plan, names, paused, running, starting, flight, runs, channel>>

\* The context that Stop returned is done.
StopReturns(p) ==
    /\ At(p, "stopped") /\ call[p].waiter = "returned"
    /\ Return(p, "waited")
    /\ UNCHANGED <<gvars, plan, names, paused, running, starting, flight, runs, channel>>

Start(p) ==
    /\ At(p, "start") /\ op(p) = "start"
    /\ running' = TRUE
    /\ starting' = (starting \/ ~running)
    /\ Return(p, "started")
    /\ UNCHANGED <<gvars, plan, names, paused, flight, runs, channel>>

-----------------------------------------------------------------------------
(* AddWorkflow.  A workflow has steps, names in order; final, the steps    *)
(* marked so; and deps, records with child, parent and condition in the    *)
(* order in which they are wired.                                          *)

Names(w) == {w.steps[k] : k \in DOMAIN w.steps}

\* The final step waits for every other one (validateFinalStep).
Wires(w) ==
    LET others(s) == s \notin w.final
        rest  == SelectSeq(w.steps, others)
        last  == CHOOSE s \in w.final : TRUE
    IN  w.deps \o IF w.final = {} THEN <<>>
                  ELSE [k \in DOMAIN rest |->
                          [child |-> last, parent |-> rest[k], condition |-> "OnComplete"]]

CyclicByName(w) ==
    LET arcs == {Wires(w)[k] : k \in DOMAIN Wires(w)}
    IN  \E S \in SUBSET Names(w) :
            S # {} /\ \A s \in S : \E a \in arcs : a.child = s /\ a.parent \in S

Valid(w) ==
    /\ w.steps # <<>>
    /\ Cardinality(w.final) <= 1
    /\ Cardinality(Names(w)) = Len(w.steps)
    /\ \A k \in DOMAIN w.deps : w.deps[k].parent \in Names(w)
    /\ ~CyclicByName(w)

\* On to the next of the n items of a phase, or to the phase after it.
Advance(c, n, phase) ==
    IF c.k < n THEN [c EXCEPT !.k = @ + 1] ELSE [c EXCEPT !.k = 1, !.pc = phase]

Workflow(p) == plan.calls[p].w

\* The steps are a sequence; a dependency that is wired joins two of them, and
\* its condition is a valid one.
ASSUME PlansAssumption ==
    \A q \in Plans, p \in Callers :
        LET w == q.calls[p].w
        IN  q.calls[p].op = "workflow" =>
                /\ w.steps \in Seq(Names(w))
                /\ Valid(w) => Wires(w) \in
                      Seq([child : Names(w), parent : Names(w), condition : Conditions])

Finished(c) == [c EXCEPT !.pc = "done", !.outcome = IF c.pc = "wired" THEN "added" ELSE "failed"]

Validate(p) ==
    /\ At(p, "start") /\ op(p) = "workflow"
    /\ IF Valid(Workflow(p)) THEN Goto(p, "check") ELSE Return(p, "failed")
    /\ UNCHANGED <<gvars, plan, names, paused, running, starting, flight, runs, channel>>

CheckName(p) ==
    /\ At(p, "check")
    /\ IF EntryByName(Workflow(p).steps[call[p].k]) # 0 THEN Return(p, "failed")
       ELSE call' = [call EXCEPT ![p] = Advance(@, Len(Workflow(p).steps), "register")]
    /\ UNCHANGED <<gvars, plan, names, paused, running, starting, flight, runs, channel>>

\* Undoing starts with the first step registered; it is over at once if there is none.
Undo(c) == IF c.ids = <<>> THEN [c EXCEPT !.pc = "done", !.outcome = "failed"]
           ELSE [c EXCEPT !.k = 1, !.pc = "rollback"]

Register(p) ==
    LET name == Workflow(p).steps[call[p].k]
        registered == [call[p] EXCEPT !.ids = Append(@, nextID + 1)]
    IN  /\ At(p, "register")
        /\ \/ /\ ScheduleJob(name)
              /\ call' = [call EXCEPT ![p] =
                            Advance(registered, Len(Workflow(p).steps),
                                    IF Wires(Workflow(p)) = <<>> THEN "wired" ELSE "wire")]
           \/ /\ Rejects(name)
              /\ call' = [call EXCEPT ![p] = Undo(@)]
              /\ UNCHANGED <<gvars, names, paused>>
        /\ UNCHANGED <<plan, running, starting, flight, runs, channel>>

IdOf(p, name) == call[p].ids[CHOOSE k \in DOMAIN Workflow(p).steps : Workflow(p).steps[k] = name]

Wire(p) ==
    LET wire   == Wires(Workflow(p))[call[p].k]
        child  == IdOf(p, wire.child)
        parent == IdOf(p, wire.parent)
    IN  /\ At(p, "wire")
        /\ \/ /\ AddDependency(child, parent, wire.condition)
              /\ call' = [call EXCEPT ![p] = Advance(@, Len(Wires(Workflow(p))), "wired")]
           \/ /\ ~({child, parent} \subseteq entryIndex) \/ HasCycle(child, parent)
              /\ call' = [call EXCEPT ![p] = Undo(@)]
              /\ UNCHANGED gvars
        /\ UNCHANGED <<plan, names, paused, running, starting, flight, runs, channel>>

RollbackLeavesLast(p) ==   \* mutant: the last step that was registered stays
    /\ At(p, "rollback")
    /\ IF call[p].k < Len(call[p].ids) THEN Remove(call[p].ids[call[p].k]) ELSE UNCHANGED gvars
    /\ call' = [call EXCEPT ![p] = Advance(@, Len(call[p].ids), "rolledBack")]
    /\ UNCHANGED <<plan, names, paused, running, starting, flight, runs, channel>>

Rollback(p) ==
    /\ At(p, "rollback")
    /\ Remove(call[p].ids[call[p].k])
    /\ call' = [call EXCEPT ![p] = Advance(@, Len(call[p].ids), "rolledBack")]
    /\ UNCHANGED <<plan, names, paused, running, starting, flight, runs, channel>>

WorkflowReturns(p) ==
    /\ call[p].pc \in {"wired", "rolledBack"}
    /\ call' = [call EXCEPT ![p] = Finished(@)]
    /\ UNCHANGED <<gvars, plan, names, paused, running, starting, flight, runs, channel>>

-----------------------------------------------------------------------------
(* A caller that edits entries and edges by ID, as often as it likes *)

Edit(p) ==
    /\ op(p) = "edit"
    /\ \/ ScheduleJob(NoName) /\ UNCHANGED call
       \/ \E id \in Ids : RemoveEntry(id) /\ UNCHANGED <<names, paused, call>>
       \/ \E child, parent \in Ids :
             /\ RemoveDependency(child, parent)
             /\ call' = Unwired(call, child, parent)
             /\ UNCHANGED <<names, paused>>
       \/ \E child, parent \in Ids, condition \in Conditions :
             /\ AddDependency(child, parent, condition)
             /\ UNCHANGED <<names, paused, call>>
    /\ UNCHANGED <<plan, running, starting, flight, runs, channel>>

-----------------------------------------------------------------------------
CInit ==
    /\ GInit
    /\ plan \in Plans
    /\ call = [p \in Callers |-> NewCall]
    /\ names = [i \in Ids |-> NoName]
    /\ paused = [i \in Ids |-> FALSE]
    /\ running = plan.running /\ starting = FALSE
    /\ flight = {} /\ runs = 0
    /\ channel = [i \in Ids |-> 0]

\* A panic in the waiting goroutine ends the program.
Crashed == \E p \in Callers : call[p].waiter = "panicked"

\* Served by the loop, so not before it begins.
Request(p) ==
    \/ LookUp(p) \/ Create(p) \/ Update(p) \/ RemoveRequest(p) \/ SetRequest(p)
    \/ LookUpParent(p) \/ EdgeRequest(p)
    \/ DrainPause(p) \/ DrainFind(p) \/ DrainResume(p)
    \/ Stop(p)
    \/ CheckName(p) \/ Register(p) \/ Wire(p) \/ Rollback(p)
    \/ Edit(p)

CallStep(p) ==
    \/ ~starting /\ Request(p)
    \/ TakeChannel(p) \/ ChannelClosed(p) \/ Deadline(p)
    \/ GroupWait(p) \/ GroupReturn(p) \/ StopReturns(p) \/ Start(p)
    \/ Validate(p) \/ WorkflowReturns(p)

CNext ==
    /\ ~Crashed
    /\ \/ \E p \in Callers : CallStep(p)
       \/ \E id \in Ids : Fire(id) \/ CatchUp(id)
       \/ LoopBegins
       \/ \E r \in flight : Finish(r)

CSpec == CInit /\ [][CNext]_cvars

-----------------------------------------------------------------------------
(* Properties *)

\* "No invocation can start under the stale schedule" (DrainAndUpsertJob,
\* cron.go:2303): every run of the old job is over when the new one is put in
\* its place, however many calls remove, re-create, update or wait for the
\* entry and stop the scheduler meanwhile, unless another caller resumes the
\* entry, or starts the scheduler so that missed runs of the entry are caught
\* up after the drain has stopped waiting.  A catch-up before that is joined.
NoStaleRun ==
    \A p \in Callers :
        op(p) = "drain" /\ ~call[p].disturbed
        /\ (At(p, "resume") \/ call[p].outcome = "updated") => call[p].covers = {}

\* A call that waited returns only when every run that was under way when it
\* looked, removed or stopped is over; and no run of an entry starts after its
\* removal.  Bursts of runs, removals and restarts may come between.
WaitsCover ==
    \A p \in Callers :
        call[p].outcome = "waited" =>
            /\ call[p].covers \intersect {r.no : r \in flight} = {}
            /\ op(p) = "removeAndWait" => InFlight(call[p].id) = {}

\* A workflow that was not added leaves none of its steps behind, whichever
\* request of its failed and whoever interfered; one that was added has every
\* edge between those of its steps that nobody removed since.
AllOrNothing ==
    \A p \in Callers :
        op(p) = "workflow" /\ At(p, "done") =>
            IF call[p].outcome = "failed"
            THEN \A k \in DOMAIN call[p].ids : call[p].ids[k] \notin entryIndex
            ELSE \A k \in DOMAIN Wires(Workflow(p)) :
                    LET wire   == Wires(Workflow(p))[k]
                        child  == IdOf(p, wire.child)
                        parent == IdOf(p, wire.parent)
                    IN  {child, parent} \subseteq entryIndex /\ ~call[p].disturbed =>
                            [parent |-> parent, condition |-> wire.condition] \in entryDeps[child]

\* The goroutine that Stop leaves behind returns when the jobs have completed
\* ("so the caller can wait for running jobs to complete", cron.go:2390),
\* also when the scheduler is started again: "Stop, rebuild, start"
\* (docs/PERFORMANCE.md:236).
StopWaitReturns == ~Crashed
=============================================================================
