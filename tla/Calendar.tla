------------------------------ MODULE Calendar ------------------------------
(***************************************************************************)
(* Wall clocks, dates and time zones: what the schedules use of Go's time  *)
(* package, on a calendar whose radices are constants.  An instant is a    *)
(* number of seconds; the instant 0 is the zero time.Time.  A wall clock   *)
(* reading is the number of seconds the same reading would be in UTC.      *)
(* There are no leap years, and fractions of a second are left out.        *)
(*                                                                         *)
(* A zone is a base offset and a sequence of changes, in order, each with  *)
(* the instant it takes effect and the offset after it.                    *)
(***************************************************************************)
EXTENDS Integers, Sequences

CONSTANTS
    SecondsIn,   \* seconds in a minute
    MinutesIn,   \* minutes in an hour
    HoursIn,     \* hours in a day
    DaysIn,      \* days in a week: day 0 is Sunday, the last one Saturday
    MonthDays    \* the lengths of the months, in order

Minute == SecondsIn
Hour   == MinutesIn * Minute
Day    == HoursIn * Hour

Zero == 0

LOCAL Before[m \in 1..Len(MonthDays) + 1] ==
    IF m = 1 THEN 0 ELSE Before[m - 1] + MonthDays[m - 1]

Months   == Len(MonthDays)
YearDays == Before[Months + 1]

\* The number of the day y-mo-d; a month or a day past its end rolls over,
\* as time.Date normalizes it.
DayNumber(y, mo, d) ==
    (y + (mo - 1) \div Months) * YearDays + Before[((mo - 1) % Months) + 1] + d - 1

\* Of day k of a year, counted from 0.
LOCAL MonthOfDay(k) == CHOOSE m \in 1..Months : Before[m] <= k /\ k < Before[m + 1]
LOCAL DayInMonth(k) == k - Before[MonthOfDay(k)] + 1

\* The fields a wall clock reading shows.
YearOf(w)    == (w \div Day) \div YearDays
MonthOf(w)   == MonthOfDay((w \div Day) % YearDays)
DayOf(w)     == DayInMonth((w \div Day) % YearDays)
HourOf(w)    == (w \div Hour) % HoursIn
MinuteOf(w)  == (w \div Minute) % MinutesIn
SecondOf(w)  == w % SecondsIn
WeekdayOf(w) == (w \div Day) % DaysIn
Midnight(w)  == w - (w % Day)

\* The number of changes of zone z that are in effect at instant t.
LOCAL Period(z, t) ==
    CHOOSE i \in 0..Len(z.changes) :
        /\ i = 0 \/ z.changes[i].at <= t
        /\ i = Len(z.changes) \/ t < z.changes[i + 1].at

LOCAL OffsetIn(z, i) == IF i = 0 THEN z.base ELSE z.changes[i].offset
LOCAL StartOf(z, i)  == IF i = 0 THEN Zero ELSE z.changes[i].at
LOCAL EndOf(z, i)    == IF i = Len(z.changes) THEN Zero ELSE z.changes[i + 1].at

\* Time.Zone and Time.ZoneBounds; the bounds are Zero where there is none.
Offset(z, t)    == OffsetIn(z, Period(z, t))
ZoneStart(z, t) == StartOf(z, Period(z, t))
ZoneEnd(z, t)   == EndOf(z, Period(z, t))

\* The reading of the clock in zone z at instant t.
Wall(z, t) == t + Offset(z, t)

\* time.Date: an instant at which the clock of zone z shows w.  It tries the
\* offset in effect at the reading taken for UTC, then the one in effect at
\* what that gives: of a repeated reading it finds either copy, depending on
\* the side of UTC, and for a skipped one an instant that shows another.
LOCAL InPeriod(z, w, i, utc) == IF Period(z, utc) = i THEN utc ELSE w - Offset(z, utc)
LOCAL AtOffset(z, w, i)      == InPeriod(z, w, i, w - OffsetIn(z, i))
AtWall(z, w) == AtOffset(z, w, Period(z, w))
=============================================================================
