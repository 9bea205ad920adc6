------------------------------ MODULE Schedules ------------------------------
(***************************************************************************)
(* An entry from the expression it was added with to its runs: the parser, *)
(* the kinds of schedules (cron expressions, intervals, unions), and the   *)
(* part of the run loop that plans the next activation of an entry,        *)
(* with the guard that runs a clock time once when it comes twice          *)
(* (src/cron.go:1186-1456, src/union.go, src/aligned.go,                   *)
(* src/constantdelay.go, src/introspect.go).                               *)
(*                                                                         *)
(* The loop may be late by up to MaxLate seconds, and up to MaxPaused due  *)
(* activations meet a paused entry.                                        *)
(***************************************************************************)
EXTENDS CronField

CONSTANTS
    Zones,        \* the zones, by name
    Scenes,       \* each an expression expr to add, the name of the scheduler's
                  \* zone, and the instants from and to that the clock goes through
    MaxLate, MaxPaused

\* The parts of an expression of fields; a step is written without a sign.
ExprParts == {"kind", "options", "hash", "Second", "Minute", "Hour", "Dom", "Month", "Dow", "Year",
              "domConstraints", "dowConstraints", "location", "maxSearchYears"}

ASSUME ScenesAssumption ==
    \A s \in Scenes : s.expr.kind = "fields" =>
        /\ ExprParts \subseteq DOMAIN s.expr
        /\ \A f \in DOMAIN allBounds(s.expr.options) : \A k \in DOMAIN s.expr[f] :
               s.expr[f][k].step \in Nat \union {NoStep}

VARIABLES
    scene,     \* which of the scenes this is
    now,
    entry,     \* Schedule, Next, Prev and fallBackRuns; NoEntry before it is added
    paused,    \* due activations that met a paused entry
    ran        \* the activations that were dispatched, as far as a repeat may see them

vars == <<scene, now, entry, paused, ran>>

expr     == scene.expr
location == scene.zone

NoEntry == [sched |-> Rejected, next |-> Zero, prev |-> Zero, fallBackRuns |-> <<>>]
added   == entry.sched # Rejected

-----------------------------------------------------------------------------
\* Expressions of the other kinds.

\* The calendar descriptors; their second and minute are 0.
All(min, max) == (min..max) \union {starBit}

descriptorSpec(e) ==
    [kind |-> "spec", Second |-> {0}, Minute |-> {0},
     Hour  |-> IF e.name = "@hourly" THEN All(0, HoursIn - 1) ELSE {0},
     Dom   |-> IF e.name \in {"@yearly", "@monthly"} THEN {1} ELSE All(1, 31),
     Month |-> IF e.name = "@yearly" THEN {1} ELSE All(1, Months),
     Dow   |-> IF e.name = "@weekly" THEN {0} ELSE NormalizeDOW(All(0, DaysIn)),
     Year  |-> {starBit}, Location |-> e.location, MaxSearchYears |-> e.maxSearchYears,
     DomConstraints |-> {}, DowConstraints |-> {}, DowOrDom |-> FALSE,
     DSTSkip |-> "DSTSkip" \in e.options]

EveryWithMin(duration, min) == IF min > 0 /\ duration < min THEN min ELSE duration

intervalSchedule(e) ==
    IF e.minEvery > 0 /\ e.duration < e.minEvery /\ "EveryRoundUp" \notin e.options THEN Rejected
    ELSE [kind  |-> IF \/ e.name = "@every_aligned"
                       \/ e.name = "@every" /\ "AlignEvery" \in e.options
                    THEN "aligned" ELSE "every",
          delay |-> EveryWithMin(e.duration, e.minEvery)]

ParseOne(e) == CASE e.kind = "fields"     -> parse(e)
                 [] e.kind = "descriptor" -> descriptorSpec(e)
                 [] e.kind = "interval"   -> intervalSchedule(e)

\* A union of the schedules given; it needs a member, and every one accepted.
LOCAL unionOf(members) ==
    IF members = <<>> \/ \E k \in DOMAIN members : members[k] = Rejected THEN Rejected
    ELSE [kind |-> "union", members |-> members]

ParseUnion(specs) == unionOf([k \in DOMAIN specs |-> ParseOne(specs[k])])

Parse(e) == IF e.kind = "union" THEN ParseUnion(e.specs) ELSE ParseOne(e)

-----------------------------------------------------------------------------
\* Next and Prev of every kind.  home is the zone of the time they are given.

scheduleLocation(s, home) ==
    Zones[IF s.kind = "spec" /\ s.Location # "Local" THEN s.Location ELSE home]

Least(S)    == CHOOSE x \in S : \A y \in S : x <= y
Greatest(S) == CHOOSE x \in S : \A y \in S : x >= y

gridOffset(t, d) == t % d

OneNext(s, home, t) ==
    CASE s.kind = "spec" -> SpecNext(scheduleLocation(s, home), s, t)
      [] s.kind = "every" -> IF s.delay <= 0 THEN t + 1 ELSE t + s.delay
      [] s.kind = "aligned" -> IF s.delay <= 0 THEN t + 1 ELSE t + s.delay - gridOffset(t, s.delay)

OnePrev(s, home, t) ==
    CASE s.kind = "spec" -> SpecPrev(scheduleLocation(s, home), s, t)
      [] s.kind = "every" -> IF s.delay <= 0 THEN t - 1 ELSE t - s.delay
      [] s.kind = "aligned" ->
           CASE s.delay <= 0 -> t - 1
             [] s.delay > 0 /\ gridOffset(t, s.delay) = 0 -> t - s.delay
             [] OTHER -> t - gridOffset(t, s.delay)

Members(s) == IF s.kind = "union" THEN {s.members[k] : k \in DOMAIN s.members} ELSE {s}

\* Zero is before every other time: an exhausted member takes no part.
LOCAL LeastOrZero(times) == IF times = {} THEN Zero ELSE Least(times)

NextOf(s, home, t) == LeastOrZero({OneNext(m, home, t) : m \in Members(s)} \ {Zero})

PrevOf(s, home, t) == Greatest({OnePrev(m, home, t) : m \in Members(s)})

-----------------------------------------------------------------------------
\* Introspection.

Matches(s, home, t) == PrevOf(s, home, t + 1) = t

Between(s, home, start, end) ==
    LET from[next \in Int] ==
            IF next = Zero \/ next >= end THEN <<>>
            ELSE <<next>> \o from[NextOf(s, home, next)]
    IN  IF start >= end THEN <<>> ELSE from[NextOf(s, home, start)]

Count(s, home, start, end) == Len(Between(s, home, start, end))

PrevN(s, home, t, n) ==
    LET back[prev \in Int, left \in Nat] ==
            IF left = 0 \/ prev = Zero THEN <<>>
            ELSE <<prev>> \o back[PrevOf(s, home, prev), left - 1]
    IN  back[PrevOf(s, home, t), n]

-----------------------------------------------------------------------------
\* The guard for a fall-back.

\* How long the clock repeats if t lies in the second copy, else 0.
secondCopyRepeat(z, t) ==
    LET tr       == ZoneStart(z, t)
        repeated == -gapLength(z, tr)
    IN  IF t # Zero /\ tr # Zero /\ repeated > 0 /\ t < tr + repeated THEN repeated ELSE 0

inFallBackFirstCopy(z, t) ==
    LET end      == ZoneEnd(z, t)
        repeated == -gapLength(z, end)
    IN  t # Zero /\ end # Zero /\ repeated > 0 /\ t >= end - repeated

recursAcrossRepeat(s, w, repeated) ==
    matchesWall(s, w - repeated) \/ matchesWall(s, w + repeated)

isDSTFallBackDuplicate(z, prev, next) ==
    /\ prev # Zero /\ next # Zero
    /\ Wall(z, prev) = Wall(z, next)
    /\ Offset(z, next) < Offset(z, prev)

firesAt(s, home, t) == t # Zero /\ OneNext(s, home, t - 1) = t

oneFallBackRepeat(s, home, runs, prev, next) ==
    LET z        == scheduleLocation(s, home)
        repeated == secondCopyRepeat(z, next)
    IN  /\ s.kind = "spec"
        /\ repeated # 0
        /\ ~recursAcrossRepeat(s, Wall(z, next), repeated)
        /\ \/ isDSTFallBackDuplicate(z, prev, next)
           \/ \E k \in DOMAIN runs : runs[k] = next - repeated

\* mutant: a union skips when any of its members repeats
anyFallBackRepeat(s, home, runs, prev, next) ==
    \E m \in Members(s) : oneFallBackRepeat(m, home, runs, prev, next)

\* The members of s that an activation at t is for.
LOCAL firing(s, home, t) == {m \in Members(s) : s.kind = "union" => firesAt(m, home, t)}

LOCAL allRepeat(members, home, runs, prev, next) ==
    members # {} /\ \A m \in members : oneFallBackRepeat(m, home, runs, prev, next)

isFallBackRepeat(s, home, runs, prev, next) ==
    allRepeat(firing(s, home, next), home, runs, prev, next)

\* mutant: records of the first copy are not kept
addNoFallBackRun(s, home, runs, t) == runs

\* Records of an earlier fall-back, more than three hours old, are dropped.
addFallBackRun(s, home, runs, t) ==
    IF \A m \in Members(s) : ~inFallBackFirstCopy(scheduleLocation(m, home), t) THEN runs
    ELSE IF runs # <<>> /\ runs[Len(runs)] < t - 3 * Hour THEN <<t>>
    ELSE Append(runs, t)

skipFallBackRepeats(s, home, runs, prev, from) ==
    LET skip[next \in Int] ==
            IF isFallBackRepeat(s, home, runs, prev, next) THEN skip[NextOf(s, home, next)]
            ELSE next
    IN  skip[from]

-----------------------------------------------------------------------------
\* The entry and the loop.

Init ==
    /\ scene \in Scenes
    /\ now = scene.from
    /\ entry = NoEntry
    /\ paused = 0
    /\ ran = {}

\* The entry as it is after planning from t.
Planned(e, t) ==
    [e EXCEPT !.next = skipFallBackRepeats(e.sched, location, e.fallBackRuns, e.prev,
                                           NextOf(e.sched, location, t))]

\* The entry just added, with the schedule s.
scheduleEntryNext(s) == s # Rejected /\ entry' = Planned([NoEntry EXCEPT !.sched = s], now)

Add ==
    /\ ~added
    /\ scheduleEntryNext(Parse(expr))
    /\ UNCHANGED <<scene, now, paused, ran>>

due == added /\ entry.next # Zero /\ entry.next <= now

Tick ==
    /\ added
    /\ now < scene.to
    /\ due => now - entry.next < MaxLate
    /\ now' = now + 1
    /\ UNCHANGED <<scene, entry, paused, ran>>

\* postDispatchScheduled
Run ==
    /\ due
    /\ LET fired == [entry EXCEPT
                       !.prev = entry.next,
                       !.fallBackRuns =
                           addFallBackRun(entry.sched, location, @, entry.next)]
       IN  entry' = Planned(fired, now)
    /\ ran' = {t \in ran : t > entry.next - 3 * Hour} \union {entry.next}
    /\ UNCHANGED <<scene, now, paused>>

\* A paused entry is planned again and does not run.
SkipPaused ==
    /\ due
    /\ paused < MaxPaused
    /\ entry' = Planned(entry, now)
    /\ paused' = paused + 1
    /\ UNCHANGED <<scene, now, ran>>

Next == Add \/ Tick \/ Run \/ SkipPaused

Spec == Init /\ [][Next]_vars

-----------------------------------------------------------------------------
(***************************************************************************)
(* What an expression means, said without the search: the readings its     *)
(* fields select, day by day, and the runs of the gaps.                    *)
(***************************************************************************)
LOCAL Distance(a, b) == IF a < b THEN b - a ELSE a - b

LOCAL DayRule(c, w) ==
    LET last     == MonthDays[MonthOf(w)]
        working(d) == WeekdayOf(w + (d - DayOf(w)) * Day) \notin {0, DaysIn - 1}
        workdays == {d \in 1..last : working(d)}
        d        == DayOf(w)
    IN  CASE c.type = "DomLast"           -> d = last
          [] c.type = "DomLastOffset"     -> d + c.n = last
          [] c.type = "DomLastWeekday"    -> d = Greatest(workdays)
          [] c.type = "DomNearestWeekday" ->
               /\ c.n <= last /\ d \in workdays
               /\ \A o \in workdays : Distance(d, c.n) <= Distance(o, c.n)

LOCAL WeekRule(c, w) ==
    LET same == {d \in 1..MonthDays[MonthOf(w)] : (d - DayOf(w)) % DaysIn = 0}
    IN  /\ c.weekday = WeekdayOf(w)
        /\ IF c.n = -1 THEN DayOf(w) = Greatest(same)
           ELSE Cardinality({d \in same : d <= DayOf(w)}) = c.n

Selects(s, w) ==
    LET dayOk  == DayOf(w) \in s.Dom \/ \E c \in s.DomConstraints : DayRule(c, w)
        weekOk == WeekdayOf(w) \in s.Dow \/ \E c \in s.DowConstraints : WeekRule(c, w)
    IN  /\ starBit \in s.Year \/ YearOf(w) \in s.Year
        /\ MonthOf(w) \in s.Month
        /\ HourOf(w) \in s.Hour /\ MinuteOf(w) \in s.Minute /\ SecondOf(w) \in s.Second
        /\ \/ dayOk /\ weekOk
           \/ s.DowOrDom /\ starBit \notin s.Dom \union s.Dow /\ (dayOk \/ weekOk)

\* Instant t runs a reading that a gap skips: the first selected one of its gap.
LOCAL RunsGap(s, z, t) ==
    \E k \in DOMAIN z.changes :
        LET tr    == z.changes[k].at
            first == Wall(z, tr - 1) + 1
        IN  /\ tr <= t /\ t - tr < gapLength(z, tr)
            /\ Selects(s, first + t - tr)
            /\ \A w \in first..first + t - tr - 1 : ~Selects(s, w)

Due(m, t) ==
    LET z == scheduleLocation(m, location)
    IN  CASE m.kind = "spec"    -> Selects(m, Wall(z, t)) \/ (~m.DSTSkip /\ RunsGap(m, z, t))
          [] m.kind = "aligned" -> t % m.delay = 0

DueAt(t) == \E m \in Members(entry.sched) : Due(m, t)

\* The activations of the schedule are a fixed set of instants.
fixed == added /\ \A m \in Members(entry.sched) : m.kind # "every" /\ (m.kind = "aligned" => m.delay > 0)

LOCAL LeastDue(next) ==
    /\ next # Zero => next > now /\ DueAt(next)
    /\ \A t \in now + 1..(IF next = Zero THEN scene.to ELSE next - 1) : ~DueAt(t)

LOCAL GreatestDue(prev) ==
    /\ prev # Zero => prev < now /\ DueAt(prev)
    /\ \A t \in (IF prev = Zero THEN scene.from ELSE prev + 1)..now - 1 : ~DueAt(t)

\* From every instant, Next finds the first activation after it: of the clock
\* readings the expression selects and, once per gap, the first reading the
\* gap skips; it finds none only if there is none as far as it searches.
NextIsLeast == fixed => LeastDue(NextOf(entry.sched, location, now))

\* From every instant, Prev finds the last activation before it, so walking
\* back over a zone change yields the runs of walking forward.
PrevIsGreatest == fixed => GreatestDue(PrevOf(entry.sched, location, now))

\* m selects the readings a repeat before or after that of t, too.
LOCAL Rhythm(m, t, repeat) ==
    LET w == Wall(scheduleLocation(m, location), t)
    IN  m.kind # "spec" \/ Selects(m, w - repeat) \/ Selects(m, w + repeat)

\* Member m has run the reading it shows at t before, at an earlier instant.
LOCAL RanBefore(m, t, runs) ==
    \E u \in runs :
        /\ u < t
        /\ Wall(scheduleLocation(m, location), u) = Wall(scheduleLocation(m, location), t)
        /\ ~Rhythm(m, t, t - u)

\* Whatever was paused or late before: an activation is dispatched on behalf
\* of a member that did not run this clock reading in the first copy of a
\* repeated hour, or that runs once in every stretch of that length anyway.
RepeatRunsOnce ==
    fixed => \A t \in ran : \E m \in Members(entry.sched) : Due(m, t) /\ ~RanBefore(m, t, ran)

\* Planning passes over an activation only if every member that is due then
\* ran the same clock reading before; nothing else is lost in a fall-back.
NoRunLost ==
    [][ fixed /\ entry'.next # entry.next =>
            \A t \in now + 1..(IF entry'.next = Zero THEN scene.to ELSE entry'.next - 1) :
                \A m \in Members(entry.sched) : Due(m, t) => RanBefore(m, t, ran') ]_vars

LOCAL Reversed(runs, back) == \A k \in DOMAIN runs : back[k] = runs[Len(runs) + 1 - k]

LOCAL WalkedBack(runs) ==
    /\ Reversed(runs, PrevN(entry.sched, location, scene.to, Len(runs)))
    /\ \A t \in now + 1..scene.to - 1 :
           Matches(entry.sched, location, t) <=> \E k \in DOMAIN runs : runs[k] = t

\* Walking back over the scene's stretch of time yields the runs of walking
\* forward over it, and counting finds as many (dst_gap_test.go:114).
WalksAgree == fixed => WalkedBack(Between(entry.sched, location, now, scene.to))

-----------------------------------------------------------------------------
\* What the items of a field mean.
hashed(i) == i.form \in {"H", "Hrange"}

Limits == allBounds(expr.options)

\* The last value of a step that starts at first and has no end.
LastStep(first, r) == IF r.stepEnd # 0 /\ first <= r.stepEnd THEN r.stepEnd ELSE r.max

\* The cycle of the distinct values of a field (Sunday is one of seven days),
\* every step-th of them from the first one of the item through its last.
Walk(i, r) ==
    LET distinct == IF isDowBounds(r) THEN DaysIn ELSE size(r)
        first == IF i.form \in {"star", "H"} THEN r.min ELSE i.low
        last  == CASE i.form \in {"star", "H"} -> r.max
                   [] i.form = "one" /\ i.step = NoStep -> i.low
                   [] i.form = "one" /\ i.step # NoStep -> LastStep(first, r)
                   [] OTHER -> i.high
        hops  == IF last - first = distinct THEN distinct - 1 ELSE (last - first) % distinct
        every == IF i.step = NoStep \/ hashed(i) THEN 1 ELSE i.step
    IN  {((first + k - r.min) % distinct) + r.min : k \in {h \in 0..hops : h % every = 0}}

\* Every field of an accepted expression holds the values its items select:
\* ranges that wrap around go on, and no step counts Sunday twice.
FieldsAsWritten ==
    added /\ expr.kind = "fields" =>
        \A f \in DOMAIN Limits :
            (\A k \in DOMAIN expr[f] : ~hashed(expr[f][k])) =>
                entry.sched[f] \ {starBit}
                    = UNION {Walk(expr[f][k], Limits[f]) : k \in DOMAIN expr[f]}

\* Enough hashes for every remainder and every quotient to come equally often.
HashPeriod(i, r) ==
    LET n == IF i.form = "H" THEN size(r) ELSE cyclicRangeSize(i.low, i.high, r)
    IN  IF i.step = NoStep THEN n * (IF n = 1 THEN 1 ELSE n - 1)
        ELSE i.step * Cardinality(Walk(i, r))

\* Every value is in equally many of the chosen sets.
Even(chosen, values) ==
    \A v, u \in values : Cardinality({h \in DOMAIN chosen : v \in chosen[h]})
                          = Cardinality({h \in DOMAIN chosen : u \in chosen[h]})

\* The expression of an entry with another key.
WithHash(h) == [expr EXCEPT !.hash = h, !.options = @ \ {"StrictDays"}]

\* An H gives every value it may take to equally many keys: no value of the
\* range is left out and none, Sunday least of all, is favoured.  It stands
\* alone in its field; whether StrictDays then refuses the date is left aside.
HashFair ==
    added /\ expr.kind = "fields" =>
        \A f \in DOMAIN Limits :
            DOMAIN expr[f] = {1} /\ hashed(expr[f][1]) =>
                Even([h \in 0..HashPeriod(expr[f][1], Limits[f]) - 1 |-> Parse(WithHash(h))[f]],
                     Walk(expr[f][1], Limits[f]))
=============================================================================
