--------------------------- MODULE SchedulerHistory ---------------------------
(***************************************************************************)
(* The scheduler with the history of its runs, and the properties that     *)
(* relate a run to what happened to its entry before.                      *)
(***************************************************************************)
EXTENDS Scheduler

VARIABLE ran        \* the activations an entry has run, by schedule or catch-up

hvars == <<vars, ran>>

OfSchedule(r) == r.kind \in {"scheduled", "catchup"}

HInit == Init /\ ran = {}

HNext ==
    /\ Next
    /\ ran' = ran \union {<<r.id, r.at>> : r \in {x \in started' : OfSchedule(x)}}

HSpec     == HInit /\ [][HNext]_hvars
HFairSpec == HSpec /\ Fairness

-----------------------------------------------------------------------------
(* Properties that hold *)

\* While the loop serves, every Next is an activation of the schedule the
\* entry has now, or the time of a pending run-immediately: no update, pause,
\* restart or catch-up leaves the activation of a replaced schedule behind.
NextFromSchedule ==
    loop = "select" =>
        \A i \in heap : \/ entry[i].next \in entry[i].sched \union {Zero}
                        \/ entry[i].immediateDue

\* Without backward clock jumps no activation of an entry runs twice, neither
\* by the schedule nor by a catch-up nor by one after the other, across
\* restarts, updates, manual triggers and stale timer values.
NoActivationTwice ==
    [][jumps = 0 => \A r \in started' : OfSchedule(r) => <<r.id, r.at>> \notin ran]_hvars

\* Only a catch-up runs a paused entry (RunInit and AddEntry start those):
\* neither the schedule nor run-immediately nor a manual trigger does.
PausedRunsOnlyCatchUp ==
    [][\A r \in started' : r.kind = "catchup" \/ ~entry[r.id].paused]_hvars

\* Until Stop cancels the base context, a run starts with a context that is
\* not cancelled, also when dispatching it removes its run-once entry.
RunStartsUncancelled ==
    [][~baseCancelled => \A r \in started' : entry'[r.id].ctxLive]_hvars

\* A run-once entry runs once: it leaves the table in the step that runs it.
RunOnceLeaves ==
    [][\A r \in started' : entry[r.id].runOnce => r.id \notin heap' \union entryIndex']_hvars

\* Every activation the loop has planned is disposed of: its entry runs, is
\* rescheduled or removed, or the loop ends, however requests, clock jumps
\* and the timer interleave.
PlannedIsServed ==
    \A i \in Ids, t \in Times :
        (loop = "select" /\ i \in heap /\ entry[i].next = t)
            ~> (loop # "select" \/ i \notin heap \/ entry[i].next # t)

=============================================================================
