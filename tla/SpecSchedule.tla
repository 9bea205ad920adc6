----------------------------- MODULE SpecSchedule -----------------------------
(***************************************************************************)
(* src/spec.go: how a cron expression finds the first time after an        *)
(* instant, and the last one before it, whose wall clock matches, through  *)
(* time zone changes of any length.                                        *)
(*                                                                         *)
(* A schedule is a record of the fields of the source.  A bit set is the   *)
(* set of its bits, starBit included; a nil Year is the wildcard alone.    *)
(***************************************************************************)
EXTENDS Calendar

starBit == 63

fieldMatches(value, bits) == value \in bits
yearMatches(year, years)  == starBit \in years \/ year \in years

-----------------------------------------------------------------------------
\* Days.

lastDayOfMonth(w) == MonthDays[MonthOf(w)]

\* The weekday of day n of the month that w lies in.
LOCAL WeekdayIn(w, n) == WeekdayOf(w + (n - DayOf(w)) * Day)
LOCAL Saturday == DaysIn - 1
LOCAL Sunday   == 0

\* mutant: LW takes a Saturday for a weekday
lastWeekdaySlip(w) ==
    LET last == lastDayOfMonth(w)
    IN  IF WeekdayIn(w, last) = Sunday THEN last - 2 ELSE last

LOCAL WorkdayBefore(w, n) ==
    CASE WeekdayIn(w, n) = Saturday -> n - 1
      [] WeekdayIn(w, n) = Sunday   -> n - 2
      [] OTHER -> n

lastWeekdayOfMonth(w) == WorkdayBefore(w, lastDayOfMonth(w))

nearestWeekday(w, n) ==
    LET last == lastDayOfMonth(w)
    IN  CASE n > last -> -1
          [] n <= last /\ WeekdayIn(w, n) = Saturday -> IF n > 1 THEN n - 1 ELSE n + 2
          [] n <= last /\ WeekdayIn(w, n) = Sunday -> IF n < last THEN n + 1 ELSE n - 2
          [] OTHER -> n

domConstraintMatches(constraints, w) ==
    \E c \in constraints :
        DayOf(w) = CASE c.type = "DomLast"           -> lastDayOfMonth(w)
                     [] c.type = "DomLastOffset"     -> lastDayOfMonth(w) - c.n
                     [] c.type = "DomLastWeekday"    -> lastWeekdayOfMonth(w)
                     [] c.type = "DomNearestWeekday" -> nearestWeekday(w, c.n)

\* n = -1 stands for the last occurrence of the weekday in its month.
dowConstraintMatches(constraints, w) ==
    \E c \in constraints :
        /\ c.weekday = WeekdayOf(w)
        /\ \/ c.n = -1 /\ DayOf(w) + DaysIn > lastDayOfMonth(w)
           \/ c.n = ((DayOf(w) - 1) \div DaysIn) + 1

LOCAL Combined(s, domMatch, dowMatch) ==
    IF s.DowOrDom /\ starBit \notin s.Dom /\ starBit \notin s.Dow
    THEN domMatch \/ dowMatch
    ELSE domMatch /\ dowMatch

dayMatches(s, w) ==
    Combined(s, DayOf(w) \in s.Dom \/ domConstraintMatches(s.DomConstraints, w),
                WeekdayOf(w) \in s.Dow \/ dowConstraintMatches(s.DowConstraints, w))

matchesWall(s, w) ==
    /\ yearMatches(YearOf(w), s.Year)
    /\ fieldMatches(MonthOf(w), s.Month)
    /\ dayMatches(s, w)
    /\ fieldMatches(HourOf(w), s.Hour)
    /\ fieldMatches(MinuteOf(w), s.Minute)
    /\ fieldMatches(SecondOf(w), s.Second)

-----------------------------------------------------------------------------
\* The copies of a reading that a fall-back repeats.

zoneEndAfter(z, t) == ZoneEnd(z, t)

\* By how much the clock is set forward at tr.
gapLength(z, tr) == Offset(z, tr) - Offset(z, tr - 1)

LOCAL Earlier(t, start, repeated) ==
    IF start # Zero /\ repeated > 0 /\ t < start + repeated THEN t - repeated ELSE t

LOCAL Later(t, end, repeated) ==
    IF end # Zero /\ repeated > 0 /\ t >= end - repeated THEN t + repeated ELSE t

earlierCopy(z, t) == Earlier(t, ZoneStart(z, t), -gapLength(z, ZoneStart(z, t)))
laterCopy(z, t)   == Later(t, ZoneEnd(z, t), -gapLength(z, ZoneEnd(z, t)))

LOCAL Copies(z, c) == {earlierCopy(z, c), c, laterCopy(z, c)}

\* The least and the greatest of a set of instants, Zero if there is none; and
\* an instant that takes the place of none.
LOCAL First(S) == IF S = {} THEN Zero ELSE CHOOSE u \in S : \A v \in S : u <= v
LOCAL Last(S)  == IF S = {} THEN Zero ELSE CHOOSE u \in S : \A v \in S : u >= v
LOCAL Or(found, other) == IF found # Zero THEN found ELSE other

\* Among an instant and the copies of its reading, in order, the first one
\* after t or, searching back, the last one before t; Zero if there is none.
LOCAL FirstAfter(z, c, t) == First({u \in Copies(z, c) : u > t})
LOCAL LastBefore(z, c, t) == Last({u \in Copies(z, c) : u < t})

\* Where an instant lies within its hour, minute and day, by the wall clock.
LOCAL InHour(z, t)  == Wall(z, t) % Hour
LOCAL HourAt(z, t)  == HourOf(Wall(z, t))
LOCAL MinAt(z, t)   == MinuteOf(Wall(z, t))
LOCAL SecAt(z, t)   == SecondOf(Wall(z, t))
LOCAL DayAt(z, t)   == DayOf(Wall(z, t))
LOCAL MonthAt(z, t) == MonthOf(Wall(z, t))
LOCAL YearAt(z, t)  == YearOf(Wall(z, t))

-----------------------------------------------------------------------------
\* Starts of hours and days.

LOCAL FullHour(z, t, want, next) ==
    IF HourAt(z, next) = want /\ MinAt(z, next) = 0 THEN FirstAfter(z, next, t) ELSE Zero

nextFullHour(z, t, want) ==
    Or(FullHour(z, t, want, AtWall(z, Wall(z, t) - InHour(z, t) + Hour)), t + Hour)

LOCAL HourOrChange(z, t, next, end) ==
    IF end # Zero /\ end < next /\ HourAt(z, end) # HourAt(z, t) THEN end ELSE next

LOCAL HourStart(z, t, want) ==
    IF InHour(z, t) = 0 /\ HourAt(z, t + Hour) = want /\ MinAt(z, t + Hour) = 0 THEN t + Hour
    ELSE HourOrChange(z, t, nextFullHour(z, t, want), zoneEndAfter(z, t))

nextHourStart(z, t) == HourStart(z, t, (HourAt(z, t) + 1) % HoursIn)

LOCAL FirstCopyAfter(t, early, date) == IF early > t THEN early ELSE date
LOCAL DateOrChange(t, next, end) ==
    IF end # Zero /\ (next <= t \/ end < next) THEN end ELSE next
LOCAL Onward(t, stop) == IF stop > t THEN stop ELSE t + Hour

LOCAL MidnightAfter(z, t, date) == FirstCopyAfter(t, earlierCopy(z, date), date)

nextMidnightOrChange(z, t) ==
    Onward(t, DateOrChange(t, MidnightAfter(z, t, AtWall(z, Midnight(Wall(z, t)) + Day)),
                           zoneEndAfter(z, t)))

\* From t on, of which the next stop is known.
dateChangeAfter(z, want, from) ==
    LET walk[t \in Int, next \in Int, tries \in Nat] ==
            CASE tries = 0 -> t + 1
              [] tries > 0 /\ Wall(z, next) >= want -> next
              [] OTHER -> walk[next, nextMidnightOrChange(z, next), tries - 1]
    IN  walk[from, nextMidnightOrChange(z, from), 64]

LOCAL WalkTo(z, n, from) == dateChangeAfter(z, n * Day, from)

LOCAL StartOfDate(z, n, after, m) ==
    Or(IF Wall(z, m) = n * Day THEN FirstAfter(z, m, after) ELSE Zero,
       WalkTo(z, n, IF m - 2 * Day > after THEN m - 2 * Day ELSE after))

\* The first instant after `after` that shows the day n or a later one.
dateStart(z, n, after) == StartOfDate(z, n, after, AtWall(z, n * Day))

nextDay(z, t) == dateStart(z, (Wall(z, t) \div Day) + 1, t)

-----------------------------------------------------------------------------
(***************************************************************************)
(* Forward.  Each step of the search returns the instant it reached and    *)
(* how: "found", "wrapped" (a field wrapped around, so the search starts   *)
(* again from the year) or "exhausted".                                    *)
(***************************************************************************)
LOCAL At(t, step) == [t |-> t, step |-> step]

advanceSecond(z, s, from) ==
    LET advance[t \in Int] ==
            IF fieldMatches(SecAt(z, t), s.Second) THEN At(t, "found")
            ELSE IF SecAt(z, t + 1) <= SecAt(z, t) THEN At(t + 1, "wrapped")
            ELSE advance[t + 1]
    IN  advance[from]

\* The minutes from the start of one, up to the next hour or zone change.
nextMinutes(z, s, from, change) ==
    LET advance[t \in Int] ==
            IF change # Zero /\ t >= change THEN At(change, "wrapped")
            ELSE IF MinAt(z, t) = 0 THEN At(t, "wrapped")
            ELSE IF fieldMatches(MinAt(z, t), s.Minute) THEN At(t, "found")
            ELSE advance[t + Minute]
    IN  advance[from]

nextMinuteStart(z, t) == t + Minute - SecAt(z, t)

advanceMinute(z, s, t) ==
    IF fieldMatches(MinAt(z, t), s.Minute) THEN At(t, "found")
    ELSE nextMinutes(z, s, nextMinuteStart(z, t), zoneEndAfter(z, t))

\* The loops know the value they must not leave: the day of the hours, the
\* month of the days, the year of the months.
advanceHour(z, s, from, day) ==
    LET advance[t \in Int] ==
            CASE DayAt(z, t) # day -> At(t, "wrapped")
              [] DayAt(z, t) = day /\ fieldMatches(HourAt(z, t), s.Hour) -> At(t, "found")
              [] OTHER -> advance[nextHourStart(z, t)]
    IN  advance[from]

LOCAL SecondAfter(z, s, minute) ==
    IF minute.step = "found" THEN advanceSecond(z, s, minute.t) ELSE minute
LOCAL MinuteAfter(z, s, hour) ==
    IF hour.step = "found" THEN SecondAfter(z, s, advanceMinute(z, s, hour.t)) ELSE hour

advanceTime(z, s, t) == MinuteAfter(z, s, advanceHour(z, s, t, DayAt(z, t)))

advanceDay(z, s, from, month) ==
    LET advance[t \in Int] ==
            CASE MonthAt(z, t) # month -> At(t, "wrapped")
              [] MonthAt(z, t) = month /\ dayMatches(s, Wall(z, t)) -> At(t, "found")
              [] OTHER -> advance[nextDay(z, t)]
    IN  advance[from]

advanceMonth(z, s, from, year) ==
    LET advance[t \in Int] ==
            CASE YearAt(z, t) # year -> At(t, "wrapped")
              [] YearAt(z, t) = year /\ fieldMatches(MonthAt(z, t), s.Month) -> At(t, "found")
              [] OTHER -> advance[dateStart(z, DayNumber(year, MonthAt(z, t) + 1, 1), t)]
    IN  advance[from]

advanceYear(z, s, from, yearLimit) ==
    LET advance[t \in Int] ==
            CASE YearAt(z, t) > yearLimit -> At(t, "exhausted")
              [] YearAt(z, t) <= yearLimit /\ yearMatches(YearAt(z, t), s.Year) -> At(t, "found")
              [] OTHER -> advance[dateStart(z, DayNumber(YearAt(z, t) + 1, 1, 1), t)]
    IN  advance[from]

LOCAL DayAfter(z, s, month) ==
    IF month.step = "found" THEN advanceDay(z, s, month.t, MonthAt(z, month.t)) ELSE month
LOCAL MonthAfter(z, s, year) ==
    IF year.step = "found" THEN DayAfter(z, s, advanceMonth(z, s, year.t, YearAt(z, year.t)))
    ELSE year

advanceDate(z, s, t, yearLimit) == MonthAfter(z, s, advanceYear(z, s, t, yearLimit))

\* Each pass that wraps a field around starts again from the year.
LOCAL TimeAfter(z, s, date) ==
    IF date.step = "found" THEN advanceTime(z, s, date.t) ELSE date

LOCAL Steps == [t : Int, step : {"found", "wrapped", "exhausted"}]

searchForward(z, s, from, yearLimit) ==
    LET search[pass \in Steps] ==
            CASE pass.step = "found"     -> pass.t
              [] pass.step = "exhausted" -> Zero
              [] pass.step = "wrapped"   ->
                   IF YearAt(z, pass.t) > yearLimit THEN Zero
                   ELSE search[TimeAfter(z, s, advanceDate(z, s, pass.t, yearLimit))]
    IN  search[At(from, "wrapped")]

nextExisting(z, s, t) ==
    searchForward(z, s, t + 1, YearAt(z, t + 1) + s.MaxSearchYears)

-----------------------------------------------------------------------------
\* The run for a spring-forward gap.

LOCAL Shifted(w, start, tr) == IF w = Zero THEN Zero ELSE tr + w - start

LOCAL GapRunFrom(z, s, tr, start) ==
    Shifted(First({w \in start..start + gapLength(z, tr) - 1 : matchesWall(s, w)}), start, tr)

\* The earliest scheduled reading that the gap at tr skips, shifted by the
\* length of the gap; Zero if it skips none.
gapRun(z, s, tr) == GapRunFrom(z, s, tr, Wall(z, tr - 1) + 1)

\* A run between the two bounds, else Zero.
LOCAL Within(low, run, high) == IF run # Zero /\ low < run /\ run < high THEN run ELSE Zero

firstGapRun(z, s, from, t, limit) ==
    LET first[tr \in Int] ==
            IF tr = Zero \/ tr >= limit THEN Zero
            ELSE Or(Within(t, gapRun(z, s, tr), limit), first[zoneEndAfter(z, tr)])
    IN  first[from]

nextGapRun(z, s, t, next) ==
    LET limit == IF next # Zero THEN next
                 ELSE AtWall(z, DayNumber(YearAt(z, t) + s.MaxSearchYears + 1, 1, 1) * Day)
        open  == ZoneStart(z, t)
    IN  firstGapRun(z, s, IF open = Zero \/ t >= open + gapLength(z, open)
                          THEN zoneEndAfter(z, t) ELSE open, t, limit)

LOCAL GapRunOr(z, s, t, next) ==
    IF s.DSTSkip THEN next ELSE Or(nextGapRun(z, s, t, next), next)

SpecNext(z, s, t) == GapRunOr(z, s, t, nextExisting(z, s, t))

-----------------------------------------------------------------------------
\* Backward.

LOCAL FullHourBefore(z, t, want, date) ==
    IF HourAt(z, date) = want /\ MinAt(z, date) = MinutesIn - 1
    THEN LastBefore(z, date, t) ELSE Zero

LOCAL HourEndOrChange(z, t, prev, last) ==
    IF ZoneStart(z, t) # Zero /\ last > prev /\ HourAt(z, last) # HourAt(z, t)
    THEN last ELSE prev

prevHourEnd(z, t) ==
    HourEndOrChange(z, t,
        Or(FullHourBefore(z, t, (HourAt(z, t) + HoursIn - 1) % HoursIn,
                          AtWall(z, Wall(z, t) - InHour(z, t) - 1)),
           t - Hour),
        ZoneStart(z, t) - 1)

\* mutant: the step back to the minute before keeps the second
prevMinuteSame(z, t) == t - Minute

prevMinuteEnd(z, t) == t - (SecAt(z, t) + 1)

subMinuteFallBack(z, t) ==
    /\ ZoneStart(z, t) # Zero
    /\ gapLength(z, ZoneStart(z, t)) < 0
    /\ -gapLength(z, ZoneStart(z, t)) < Minute

lastBeforeZone(z, from, t) ==
    IF ZoneStart(z, from) # Zero /\ t < ZoneStart(z, from) THEN ZoneStart(z, from) - 1 ELSE t

retreatSecond(z, s, from) ==
    LET retreat[t \in Int] ==
            IF fieldMatches(SecAt(z, t), s.Second) THEN At(t, "found")
            ELSE IF SecAt(z, t - 1) > SecAt(z, t) THEN At(t - 1, "wrapped")
            ELSE retreat[t - 1]
    IN  retreat[from]

\* The first step back reaches the last second of a minute; later ones keep it.
retreatMinute(z, s, from) ==
    LET wrapped(t, u) == MinAt(z, u) > MinAt(z, t) \/ HourAt(z, u) # HourAt(z, t)
        kept(t, back) == IF ~wrapped(t, back) /\ subMinuteFallBack(z, t)
                         THEN lastBeforeZone(z, t, back) ELSE back
        before(t, stepped) == kept(t, IF stepped THEN t - Minute ELSE prevMinuteEnd(z, t))
        retreat[t \in Int, stepped \in BOOLEAN] ==
            IF fieldMatches(MinAt(z, t), s.Minute) THEN At(t, "found")
            ELSE IF wrapped(t, before(t, stepped))
            THEN At(lastBeforeZone(z, t, before(t, stepped)), "wrapped")
            ELSE retreat[before(t, stepped), TRUE]
    IN  retreat[from, FALSE]

\* A loop has wrapped when it reaches a value above the last one it was at.
retreatHour(z, s, from) ==
    LET retreat[t \in Int, last \in Int] ==
            CASE HourAt(z, t) > last -> At(t, "wrapped")
              [] HourAt(z, t) <= last /\ fieldMatches(HourAt(z, t), s.Hour) -> At(t, "found")
              [] OTHER -> retreat[prevHourEnd(z, t), HourAt(z, t)]
    IN  retreat[from, HourAt(z, from)]

LOCAL SecondBefore(z, s, minute) ==
    IF minute.step = "found" THEN retreatSecond(z, s, minute.t) ELSE minute
LOCAL MinuteBefore(z, s, hour) ==
    IF hour.step = "found" THEN SecondBefore(z, s, retreatMinute(z, s, hour.t)) ELSE hour

retreatTime(z, s, t) == MinuteBefore(z, s, retreatHour(z, s, t))

normalizeDSTDayPrev(z, t) ==
    IF HourAt(z, t) = HoursIn - 1 THEN t ELSE AtWall(z, Midnight(Wall(z, t)) + Day - 1)

LOCAL OtherDay(z, t, back) ==
    IF DayAt(z, back) # DayAt(z, t) THEN back ELSE normalizeDSTDayPrev(z, back - Day)

prevDay(z, t) == OtherDay(z, t, normalizeDSTDayPrev(z, AtWall(z, Wall(z, t) - Day)))

LOCAL DayEnd(z, t, added) == IF added THEN t ELSE AtWall(z, Midnight(Wall(z, t)) + Day - 1)

retreatDay(z, s, from, addedBefore) ==
    LET retreat[t \in Int, added \in BOOLEAN, last \in Int] ==
            CASE DayAt(z, t) > last -> At(t, "wrapped")
              [] DayAt(z, t) <= last /\ dayMatches(s, Wall(z, t)) -> At(t, "found")
              [] OTHER -> retreat[prevDay(z, DayEnd(z, t, added)), TRUE, DayAt(z, t)]
    IN  retreat[from, addedBefore, DayAt(z, from)]

LOCAL LastOfMonthBefore(z, t) ==
    earlierCopy(z, AtWall(z, DayNumber(YearAt(z, t), MonthAt(z, t), 1) * Day)) - 1

retreatMonth(z, s, from) ==
    LET retreat[t \in Int, last \in Int] ==
            CASE MonthAt(z, t) > last -> At(t, "wrapped")
              [] MonthAt(z, t) <= last /\ fieldMatches(MonthAt(z, t), s.Month) -> At(t, "found")
              [] OTHER -> retreat[LastOfMonthBefore(z, t), MonthAt(z, t)]
    IN  retreat[from, MonthAt(z, from)]

LOCAL YearEnd(z, t, added) ==
    IF added THEN t ELSE AtWall(z, DayNumber(YearAt(z, t) + 1, 1, 1) * Day - 1)

retreatYear(z, s, from, addedBefore, yearLimit) ==
    LET retreat[t \in Int, added \in BOOLEAN] ==
            CASE YearAt(z, t) < yearLimit -> At(t, "exhausted")
              [] YearAt(z, t) >= yearLimit /\ yearMatches(YearAt(z, t), s.Year) -> At(t, "found")
              [] OTHER -> retreat[AtWall(z, Wall(z, YearEnd(z, t, added)) - YearDays * Day), TRUE]
    IN  retreat[from, addedBefore]

LOCAL DayBefore(z, s, t, added, month) ==
    IF month.step = "found"
    THEN retreatDay(z, s, month.t, added \/ month.t # t) ELSE month
LOCAL MonthBefore(z, s, t, added, year) ==
    IF year.step = "found"
    THEN DayBefore(z, s, t, added, retreatMonth(z, s, year.t)) ELSE year

retreatDate(z, s, t, added, yearLimit) ==
    MonthBefore(z, s, t, added, retreatYear(z, s, t, added, yearLimit))

\* `added` carries over to the next pass; a pass that only moved the seconds
\* leaves it as it was.
LOCAL Moved(z, s, t, date) ==
    \/ date.step = "wrapped" \/ date.t # t
    \/ ~fieldMatches(HourAt(z, date.t), s.Hour)
    \/ ~fieldMatches(MinAt(z, date.t), s.Minute)

LOCAL TimeBefore(z, s, date) ==
    IF date.step = "found" THEN retreatTime(z, s, date.t) ELSE date

searchBackward(z, s, from, yearLimit) ==
    LET search[pass \in Steps, added \in BOOLEAN] ==
            CASE pass.step = "found"     -> pass.t
              [] pass.step = "exhausted" -> Zero
              [] pass.step = "wrapped"   ->
                   IF YearAt(z, pass.t) < yearLimit THEN Zero
                   ELSE LET date == retreatDate(z, s, pass.t, added, yearLimit)
                        IN  search[TimeBefore(z, s, date), added \/ Moved(z, s, pass.t, date)]
    IN  search[At(from, "wrapped"), FALSE]

prevExisting(z, s, t) ==
    searchBackward(z, s, t - 1, YearAt(z, t - 1) - s.MaxSearchYears)

lastGapRun(z, s, from, t, limit) ==
    LET last[tr \in Int] ==
            IF tr = Zero THEN Zero
            ELSE Or(Within(limit, gapRun(z, s, tr), t),
                    IF tr <= limit THEN Zero ELSE last[ZoneStart(z, tr - 1)])
    IN  last[from]

prevGapRun(z, s, t, prev) ==
    lastGapRun(z, s, ZoneStart(z, t), t,
               IF prev # Zero THEN prev
               ELSE AtWall(z, DayNumber(YearAt(z, t) - s.MaxSearchYears, 1, 1) * Day) - 1)

LOCAL LastGapRunOr(z, s, t, prev) ==
    IF s.DSTSkip THEN prev ELSE Or(prevGapRun(z, s, t, prev), prev)

SpecPrev(z, s, t) == LastGapRunOr(z, s, t, prevExisting(z, s, t))
=============================================================================
