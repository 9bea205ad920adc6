----------------------------- MODULE MCScheduler -----------------------------
(***************************************************************************)
(* Small instances of the scheduler.                                       *)
(***************************************************************************)
EXTENDS SchedulerHistory

CONSTANTS a, none      \* a name and the empty name

MCNames == {a}

Plain == [name |-> none, sched |-> {2, 3}, prev |-> Zero, paused |-> FALSE,
          runOnce |-> FALSE, runImmediately |-> FALSE, policy |-> "MissedSkip",
          grace |-> 0]

Once      == [Plain EXCEPT !.runOnce = TRUE, !.name = a]
OnceNow   == [Plain EXCEPT !.runOnce = TRUE, !.runImmediately = TRUE]
Now       == [Plain EXCEPT !.runImmediately = TRUE]
CatchAll  == [Plain EXCEPT !.sched = {1, 2, 3}, !.prev = 1, !.policy = "MissedRunAll"]
CatchLast == [CatchAll EXCEPT !.policy = "MissedRunOnce", !.grace = 1]

TableSpecs    == {[Once EXCEPT !.sched = {2}], [OnceNow EXCEPT !.sched = {2}]}
DispatchSpecs == {[CatchAll EXCEPT !.runImmediately = TRUE], CatchLast}
LiveSpecs     == {[Now EXCEPT !.name = a, !.sched = {2}]}

TableSchedules    == {{}}
DispatchSchedules == {{2, 4}}
=============================================================================
