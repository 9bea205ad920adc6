------------------------------- MODULE Workflow -------------------------------
(***************************************************************************)
(* Workflow executions of cron.go: a root that fires starts an execution;  *)
(* each job that ends reports to the run loop over the channel jobDone,    *)
(* and the loop triggers or skips the children of the job.                 *)
(*                                                                         *)
(* The run loop owns all of this state but the job goroutines, which run   *)
(* and report at any time.  The graph operations implement those of module *)
(* DependencyGraph; here the order of the children matters.                *)
(***************************************************************************)
EXTENDS Integers, FiniteSets, SequencesExt

CONSTANTS
    MaxEntryID,     \* the entries are 1..MaxEntryID
    Conditions,     \* the trigger conditions in use
    Graphs,         \* the graphs to start from: entryDeps and parentToChildren
    Roots,          \* the entries that fire, by schedule or by hand
    RunOnce,        \* the entries added WithRunOnce
    Pausable,       \* the entries that may be paused
    Retention,      \* WithWorkflowRetention; 0 is unlimited
    DoneCapacity,   \* the capacity of jobDone, 64 in the code
    MaxExecs,       \* bound: executions started
    MaxEdits        \* bound: changes to entries, edges and the scheduler

Ids     == 1..MaxEntryID
Execs   == 1..MaxExecs
Results == {"Pending", "Success", "Failure", "Skipped"}
Edge    == [child : Ids, parent : Ids, condition : Conditions]

Seen(s, e) == \E k \in DOMAIN s : s[k] = e

\* The graphs that AddDependency calls build: both indexes hold the same
\* edges, a child once under each parent, and no set of entries lies on a cycle.
Sound(g) ==
    /\ g.deps \in [Ids -> SUBSET [parent : Ids, condition : Conditions]]
    /\ DOMAIN g.children = Ids
    /\ \A p \in Ids : g.children[p] \in Seq(Ids) /\ IsInjective(g.children[p])
    /\ \A c, p \in Ids : Seen(g.children[p], c) <=> \E d \in g.deps[c] : d.parent = p
    /\ \A S \in SUBSET Ids : S # {} => \E i \in S : \A d \in g.deps[i] : d.parent \notin S

ASSUME WorkflowAssumption ==
    /\ Conditions \subseteq {"OnSuccess", "OnFailure", "OnSkipped", "OnComplete"}
    /\ \A g \in Graphs : Sound(g)
    /\ Roots \union RunOnce \union Pausable \subseteq Ids
    /\ {MaxEntryID, Retention, MaxExecs, MaxEdits} \subseteq Nat
    /\ DoneCapacity \in Nat \ {0}

VARIABLES
    running,            \* Cron.running
    baseCancelled,      \* Cron.baseCtx is cancelled
    entryIndex,         \* the keys of Cron.entryIndex
    paused,             \* the entries that are paused
    entryDeps,          \* child -> its Dependency values
    parentToChildren,   \* parent -> its children, in the order they were added
    active,             \* Cron.activeExecutions: execution -> [root, results]
    completed,          \* Cron.completedExecutions, the oldest first
    jobs,               \* the goroutines of workflow jobs
    jobDone,            \* the events in the channel jobDone
    nextExec,           \* the number of the next execution
    edits,              \* edits so far (bound MaxEdits)
    dispatched,         \* history: how often an execution started an entry
    disturbed           \* history: executions an edit or a stop interfered with

graph == <<entryIndex, entryDeps, parentToChildren>>
execs == <<active, completed, nextExec, dispatched>>
wvars == <<running, baseCancelled, graph, paused, execs, jobs, jobDone, edits, disturbed>>

ChildSets == [p \in Ids |-> {parentToChildren[p][k] : k \in DOMAIN parentToChildren[p]}]

Graph == INSTANCE DependencyGraph
             WITH nextID <- MaxEntryID, parentToChildren <- ChildSets

-----------------------------------------------------------------------------
(* Results and conditions *)

IsTerminalRan(r) == r \in {"Success", "Failure"}      \* mutant: not Skipped
IsTerminal(r)    == r \in {"Success", "Failure", "Skipped"}

MatchesRun(condition, r) ==   \* mutant: OnComplete does not match Skipped
    \/ condition \in {"OnSuccess", "OnComplete"} /\ r = "Success"
    \/ condition \in {"OnFailure", "OnComplete"} /\ r = "Failure"
    \/ condition = "OnSkipped"  /\ r = "Skipped"

Matches(condition, r) ==
    \/ condition = "OnSuccess"  /\ r = "Success"
    \/ condition = "OnFailure"  /\ r = "Failure"
    \/ condition = "OnSkipped"  /\ r = "Skipped"
    \/ condition = "OnComplete" /\ IsTerminal(r)

IsCompleteAny(results) == \E i \in DOMAIN results : IsTerminal(results[i])   \* mutant
IsComplete(results)    == \A i \in DOMAIN results : IsTerminal(results[i])

Resolved(results, i) == i \in DOMAIN results /\ IsTerminal(results[i])

ShouldTriggerAny(results, c) ==   \* mutant: one parent is enough
    \E d \in entryDeps[c] : Resolved(results, d.parent) /\ Matches(d.condition, results[d.parent])

ShouldTrigger(results, c) ==
    /\ entryDeps[c] # {}
    /\ \A d \in entryDeps[c] : /\ Resolved(results, d.parent)
                               /\ Matches(d.condition, results[d.parent])

AllParentsResolvedNever(results, c) == FALSE   \* mutant
AllParentsResolved(results, c) == \A d \in entryDeps[c] : Resolved(results, d.parent)

\* evaluateChildren under way: what it has made of the results, the entries
\* it has started, in order, and the children it has yet to visit, those of
\* the innermost call first.
Evaluation == [results : UNION {[P -> Results] : P \in SUBSET Ids},
               started : Seq(Ids), rest : Seq(Ids)]

\* The next child, and triggerWorkflowChild.  An entry that is paused counts
\* as skipped, and so does one that is gone, but its children are not visited.
Visit(s) ==
    LET c       == Head(s.rest)
        others  == Tail(s.rest)
        below   == parentToChildren[c]
        pending == c \in DOMAIN s.results /\ s.results[c] = "Pending"
        due     == pending /\ ShouldTrigger(s.results, c)
        skipped == [s.results EXCEPT ![c] = "Skipped"]
    IN  CASE due /\ c \notin entryIndex ->
                [results |-> skipped, started |-> s.started, rest |-> others]
          [] due /\ c \in entryIndex /\ c \notin paused ->
                [results |-> s.results, started |-> Append(s.started, c), rest |-> others]
          [] \/ due /\ c \in entryIndex /\ c \in paused
             \/ pending /\ ~due /\ AllParentsResolved(s.results, c) ->
                [results |-> skipped, started |-> s.started, rest |-> below \o others]
          [] OTHER ->
                [results |-> s.results, started |-> s.started, rest |-> others]

\* At most n visits.
Visits[n \in Nat] ==
    [s \in Evaluation |-> IF n = 0 \/ s.rest = <<>> THEN s ELSE Visits[n - 1][Visit(s)]]

\* No evaluation takes more: a visit takes a child off the rest, and adds
\* children to it at most once an entry.
MaxVisits == MaxEntryID * (MaxEntryID + 1)

EvaluateChildren(results, parent) ==
    Visits[MaxVisits][[results |-> results, started |-> <<>>, rest |-> parentToChildren[parent]]]

-----------------------------------------------------------------------------
(* Executions *)

\* collectWorkflowParticipants: the entries reachable from root, those that
\* are in every set that holds root and the children of its elements.
Participants(root) ==
    {i \in Ids : \A S \in SUBSET Ids :
        root \in S /\ (\A p \in S : ChildSets[p] \subseteq S) => i \in S}

\* startJobWithExecution, for the entries of a sequence.
StartJobs(x, ids) ==
    LET times(i)   == Cardinality({k \in DOMAIN ids : ids[k] = i})
        started(i) == {[exec |-> x, id |-> i, nr |-> dispatched[x][i] + m, live |-> ~baseCancelled] :
                          m \in 1..times(i)}
    IN  /\ jobs' = jobs \union UNION {started(i) : i \in Ids}
        /\ dispatched' = [dispatched EXCEPT ![x] = [i \in Ids |-> @[i] + times(i)]]

\* completeWorkflowExecution: at most Retention are kept, the newest.
RetainedOneMore(done) ==   \* mutant
    IF Retention > 0 /\ Len(done) > Retention + 1 THEN Tail(done) ELSE done
Retained(done) ==
    IF Retention > 0 /\ Len(done) > Retention THEN Tail(done) ELSE done

WithoutExec(x) == [y \in DOMAIN active \ {x} |-> active[y]]

CancelNone(id) == jobs' = jobs   \* mutant
Cancel(id) == jobs' = {IF j.id = id THEN [j EXCEPT !.live = FALSE] ELSE j : j \in jobs}

-----------------------------------------------------------------------------
(* The graph *)

Connect(g, e) ==
    [deps     |-> [g.deps EXCEPT ![e.child] =
                      @ \union {[parent |-> e.parent, condition |-> e.condition]}],
     children |-> [g.children EXCEPT ![e.parent] =
                      IF Seen(@, e.child) THEN @ ELSE Append(@, e.child)]]

\* slices.Index and slices.Delete; a slice holds a child at most once.
Without(s, c) == IF Seen(s, c) THEN RemoveAt(s, CHOOSE k \in DOMAIN s : s[k] = c) ELSE s

\* removeEdgesAsChild and removeEdgesAsParent
RemoveEdgesAsParentOnly(id) ==   \* mutant
    /\ entryDeps' = [c \in Ids |-> {d \in entryDeps[c] : d.parent # id}]
    /\ parentToChildren' = [parentToChildren EXCEPT ![id] = <<>>]

RemoveEdges(id) ==
    /\ entryDeps' = [c \in Ids |->
            IF c = id THEN {}
            ELSE IF Seen(parentToChildren[id], c) THEN {d \in entryDeps[c] : d.parent # id}
            ELSE entryDeps[c]]
    /\ parentToChildren' = [p \in Ids |->
            IF p = id THEN <<>>
            ELSE IF \E d \in entryDeps[id] : d.parent = p THEN Without(parentToChildren[p], id)
            ELSE parentToChildren[p]]

\* AddEntry and AddDependency calls built the graph before the start.
WInit ==
    /\ running = TRUE /\ baseCancelled = FALSE
    /\ entryIndex = Ids /\ paused = {}
    /\ \E g \in Graphs : entryDeps = g.deps /\ parentToChildren = g.children
    /\ active = [x \in {} |-> {}] /\ completed = <<>>
    /\ jobs = {} /\ jobDone = <<>>
    /\ nextExec = 1 /\ edits = 0
    /\ dispatched = [x \in Execs |-> [i \in Ids |-> 0]]
    /\ disturbed = {}

-----------------------------------------------------------------------------
(* Running *)

\* processDueEntries or triggerEntry for an entry with dependents:
\* startWorkflowExecution.  A run-once entry then leaves with its edges, but
\* its run is not cancelled.
Fire(id) ==
    LET x == nextExec
    IN  /\ running /\ x <= MaxExecs
        /\ id \in Roots \intersect entryIndex /\ id \notin paused
        /\ parentToChildren[id] # <<>>
        /\ nextExec' = x + 1
        /\ active' = [y \in DOMAIN active \union {x} |->
                        IF y = x THEN [root |-> id,
                                       results |-> [i \in Participants(id) |-> "Pending"]]
                        ELSE active[y]]
        /\ StartJobs(x, <<id>>)
        /\ IF id \in RunOnce
           THEN entryIndex' = entryIndex \ {id} /\ RemoveEdges(id)
           ELSE UNCHANGED graph
        /\ disturbed' = IF baseCancelled THEN disturbed \union {x}
                        ELSE IF id \in RunOnce THEN disturbed \union DOMAIN active \union {x}
                        ELSE disturbed
        /\ UNCHANGED <<running, baseCancelled, paused, completed, jobDone, edits>>

\* A job goroutine ends and sends its event, if the channel has room.
Report(j, result) ==
    /\ Len(jobDone) < DoneCapacity
    /\ jobs' = jobs \ {j}
    /\ jobDone' = Append(jobDone, [exec |-> j.exec, id |-> j.id, result |-> result])
    /\ UNCHANGED <<running, baseCancelled, graph, paused, execs, edits, disturbed>>

\* A job goroutine with a cancelled context ends without its event: select
\* may pick Done even when the channel has room.
Abandon(j) ==
    /\ ~j.live
    /\ jobs' = jobs \ {j}
    /\ UNCHANGED <<running, baseCancelled, graph, paused, execs, jobDone, edits, disturbed>>

\* processWorkflowEvent
Process(event) ==
    LET x    == event.exec
        s    == EvaluateChildren([active[x].results EXCEPT ![event.id] = event.result], event.id)
        exec == [active[x] EXCEPT !.results = s.results]
    IN  /\ StartJobs(x, s.started)
        /\ IF IsComplete(s.results)
           THEN /\ active' = WithoutExec(x)
                /\ completed' = Retained(Append(completed, [exec |-> x, results |-> s.results]))
           ELSE /\ active' = [active EXCEPT ![x] = exec]
                /\ UNCHANGED completed

\* The jobDone case of the run loop.
JobDone ==
    /\ running /\ jobDone # <<>>
    /\ jobDone' = Tail(jobDone)
    /\ IF Head(jobDone).exec \in DOMAIN active
       THEN Process(Head(jobDone))
       ELSE UNCHANGED <<active, completed, dispatched, jobs>>
    /\ UNCHANGED <<running, baseCancelled, graph, paused, nextExec, edits, disturbed>>

-----------------------------------------------------------------------------
(* Changes from outside *)

SetPaused(id) ==
    /\ id \in entryIndex
    /\ paused' = IF id \in paused THEN paused \ {id} ELSE paused \union {id}
    /\ UNCHANGED <<running, baseCancelled, graph, execs, jobs, jobDone, edits, disturbed>>

Edit == edits < MaxEdits /\ edits' = edits + 1 /\ disturbed' = disturbed \union DOMAIN active

RemoveEntry(id) ==
    /\ Edit
    /\ id \in entryIndex
    /\ entryIndex' = entryIndex \ {id}
    /\ RemoveEdges(id)
    /\ Cancel(id)
    /\ UNCHANGED <<running, baseCancelled, paused, execs, jobDone>>

\* UpdateEntry with a new job cancels the runs of the old one.
UpdateEntry(id) ==
    /\ Edit
    /\ id \in entryIndex
    /\ Cancel(id)
    /\ UNCHANGED <<running, baseCancelled, graph, paused, execs, jobDone>>

AddDependency(e) ==
    LET built == Connect([deps |-> entryDeps, children |-> parentToChildren], e)
    IN  /\ Edit
        /\ {e.child, e.parent} \subseteq entryIndex
        /\ ~Graph!HasCycle(e.child, e.parent)
        /\ entryDeps' = built.deps /\ parentToChildren' = built.children
        /\ UNCHANGED <<running, baseCancelled, entryIndex, paused, execs, jobs, jobDone>>

RemoveDependency(child, parent) ==
    /\ Edit
    /\ entryDeps' = [entryDeps EXCEPT ![child] = {d \in @ : d.parent # parent}]
    /\ parentToChildren' = [parentToChildren EXCEPT ![parent] = Without(@, child)]
    /\ UNCHANGED <<running, baseCancelled, entryIndex, paused, execs, jobs, jobDone>>

\* Stop ends the run loop and cancels every run; activeExecutions and the
\* channel keep their content.
Stop ==
    /\ running
    /\ Edit
    /\ running' = FALSE /\ baseCancelled' = TRUE
    /\ jobs' = {[j EXCEPT !.live = FALSE] : j \in jobs}
    /\ UNCHANGED <<graph, paused, execs, jobDone>>

Start ==
    /\ ~running
    /\ running' = TRUE
    /\ UNCHANGED <<baseCancelled, graph, paused, execs, jobs, jobDone, edits, disturbed>>

JobEnds == \E j \in jobs : Abandon(j) \/ \E r \in Results \ {"Pending"} : Report(j, r)

WNext ==
    \/ \E id \in Ids : Fire(id)
    \/ JobEnds
    \/ JobDone
    \/ \E id \in Pausable : SetPaused(id)
    \/ \E id \in Ids : RemoveEntry(id) \/ UpdateEntry(id)
    \/ \E e \in Edge : AddDependency(e)
    \/ \E child, parent \in Ids : RemoveDependency(child, parent)
    \/ Stop \/ Start

WSpec == WInit /\ [][WNext]_wvars

\* Jobs end, and the run loop receives from jobDone: the other cases of its
\* select cannot keep a ready case out forever.
WFairSpec == WSpec /\ WF_wvars(JobEnds) /\ SF_wvars(JobDone)

-----------------------------------------------------------------------------
(* Properties *)

\* Every variable has its type, and at most Retention executions are kept.
WTypeOK ==
    /\ running \in BOOLEAN /\ baseCancelled \in BOOLEAN
    /\ entryIndex \subseteq Ids /\ paused \subseteq Ids
    /\ entryDeps \in [Ids -> SUBSET [parent : Ids, condition : Conditions]]
    /\ \A p \in Ids : parentToChildren[p] \in Seq(Ids) /\ IsInjective(parentToChildren[p])
    /\ \A x \in DOMAIN active : x \in Execs /\ active[x].results \in [DOMAIN active[x].results -> Results]
    /\ Retention > 0 => Len(completed) <= Retention
    /\ jobs \subseteq [exec : Execs, id : Ids, nr : Nat, live : BOOLEAN]
    /\ Len(jobDone) <= DoneCapacity

\* The graph operations, slices and all, implement those of DependencyGraph,
\* also where dispatching a run-once root removes it with its edges.
ImplementsGraph == Graph!GraphInv /\ [][Graph!GNext]_(Graph!gvars)

\* An execution starts each of its entries at most once, however reports,
\* pauses and other executions interleave.
DispatchedOnce ==
    \A x \in Execs \ disturbed, i \in Ids : dispatched[x][i] <= 1

\* A workflow job runs with a live context only while the scheduler has not
\* been stopped and its entry is there, or was a run-once entry: removing an
\* entry or stopping reaches every run, also one an execution starts later.
LiveJobsBelong ==
    \A j \in jobs : j.live => ~baseCancelled /\ j.id \in entryIndex \union RunOnce

\* OnWorkflowComplete is "called when all jobs in a workflow execution have
\* resolved": once an execution has completed none of its jobs is still
\* running or waiting to report.
QuietWhenComplete ==
    \A x \in 1..(nextExec - 1) \ (DOMAIN active \union disturbed) :
        /\ \A j \in jobs : j.exec # x
        /\ \A k \in DOMAIN jobDone : jobDone[k].exec # x

\* The results on which a condition fires, from the table of the README.
FiresOn == [OnSuccess |-> {"Success"}, OnFailure |-> {"Failure"},
            OnSkipped |-> {"Skipped"}, OnComplete |-> {"Success", "Failure", "Skipped"}]

\* When an execution completes, its results explain what ran: a child was
\* started only if the final results of all its parents fire its conditions,
\* and was left out only if one of them does not, or it may be paused.
ResultsJustified ==
    [][\A x \in (DOMAIN active \ DOMAIN active') \ disturbed :
        LET r       == Last(completed').results
            fire(i) == \A d \in entryDeps[i] : r[d.parent] \in FiresOn[d.condition]
        IN  \A i \in DOMAIN r \ {active[x].root} :
                /\ dispatched'[x][i] > 0 => fire(i)
                /\ dispatched'[x][i] = 0 => r[i] = "Skipped" /\ (i \in Pausable \/ ~fire(i))]_wvars

\* The execution contains every parent of what it may start.
SelfContained(x) ==
    \A i \in DOMAIN active[x].results \ {active[x].root} :
        \A d \in entryDeps[i] : d.parent \in DOMAIN active[x].results

\* Such an execution, while it is not complete, has a job or an event under
\* way: it never waits for a report that nobody will send.
NoStuckExecution ==
    \A x \in DOMAIN active \ disturbed :
        SelfContained(x) =>
            \/ \E j \in jobs : j.exec = x
            \/ \E k \in DOMAIN jobDone : jobDone[k].exec = x

\* Such an execution completes if nothing interferes with it.
ExecutionCompletes ==
    \A x \in Execs : x \in DOMAIN active /\ SelfContained(x)
                        ~> x \notin DOMAIN active \/ x \in disturbed
=============================================================================
