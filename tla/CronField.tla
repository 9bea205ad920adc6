------------------------------ MODULE CronField ------------------------------
(***************************************************************************)
(* src/parser.go: what a cron expression selects.  The text is taken apart *)
(* already: a field is the sequence of the items of its list, and an item  *)
(* is a record with                                                        *)
(*   form       "star" (a wildcard), "one" (N), "range" (N-M), "H", or     *)
(*              "Hrange" for an H with a range;                            *)
(*   low, high  its numbers;                                               *)
(*   step       the number after the slash, or NoStep.                     *)
(* The result is the set of the bits of the field, starBit included, or    *)
(* Bad for an error.                                                       *)
(***************************************************************************)
EXTENDS SpecSchedule, FiniteSets

\* A value is a bit below starBit, and only the days of the week have the limits
\* by which isDowBounds knows them.
ASSUME FieldsAssumption ==
    /\ {SecondsIn, MinutesIn, HoursIn} \subseteq 1..starBit \ {DaysIn + 1}
    /\ {DaysIn, Months} \subseteq 1..starBit - 1

NoStep == -1
Bad    == {-2}

\* The bounds of a field: the limits of its values and the parser's options.
bounds(min, max, options) ==
    [min |-> min, max |-> max, lenientSteps |-> "LenientSteps" \in options, stepEnd |-> 0]

seconds(options) == bounds(0, SecondsIn - 1, options)
minutes(options) == bounds(0, MinutesIn - 1, options)
hours(options)   == bounds(0, HoursIn - 1, options)
dom(options)     == bounds(1, 31, options)
months(options)  == bounds(1, Months, options)
dow(options)     ==
    [bounds(0, DaysIn, options) EXCEPT
        !.stepEnd = IF "DowStepToSaturday" \in options THEN DaysIn - 1 ELSE 0]

isDowBounds(r) == r.min = 0 /\ r.max = DaysIn

\* Sunday is day 0 and day DaysIn; a schedule knows it as day 0.
NormalizeDOW(bits) == IF DaysIn \in bits THEN (bits \ {DaysIn}) \union {0} ELSE bits

getBits(low, high, step) == {v \in low..high : (v - low) % step = 0}

size(r) == r.max - r.min + 1

cyclicRangeSize(start, end, r) ==
    IF start > end THEN r.max - start + 1 + end - r.min + 1 ELSE end - start + 1

\* Values past the end of the field, back in it.
Around(bits, r) == {((v - r.min) % size(r)) + r.min : v \in bits}

\* A day-of-week range on the cycle of the distinct days.
dowCycle(start, end, r) ==
    IF ~isDowBounds(r) THEN [start |-> start, end |-> end, r |-> r]
    ELSE [start |-> start % DaysIn,
          end   |-> IF start = 0 /\ end = DaysIn THEN DaysIn - 1 ELSE end % DaysIn,
          r     |-> [r EXCEPT !.max = DaysIn - 1]]

\* mutant: a stepped day-of-week range counts Sunday twice
cycleAsWritten(start, end, step, r) ==
    Around(getBits(start, end + size(r), step), r)

\* The bits of a cycle c from first on.
cycleBits(c, first, step) ==
    IF c.start <= c.end THEN getBits(first, c.end, step)
    ELSE Around(getBits(first, c.end + size(c.r), step), c.r)

wholeCycle(c, step) == cycleBits(c, c.start, step)

getWraparoundBits(start, end, step, r) ==
    wholeCycle(IF step > 1 THEN dowCycle(start, end, r)
               ELSE [start |-> start, end |-> end, r |-> r], step)

validateRangeBounds(start, end, r) == {start, end} \subseteq r.min..r.max

validateRangeParams(start, end, step, r) ==
    /\ validateRangeBounds(start, end, r)
    /\ step # 0
    /\ step > 1 /\ step >= cyclicRangeSize(start, end, r) => r.lenientSteps

\* The bits of a range from start to end; those in dropped are left out.
rangeBits(start, end, step, dropped, extra, r) ==
    CASE ~validateRangeParams(start, end, step, r) -> Bad
      [] OTHER -> extra \union (IF start > end THEN getWraparoundBits(start, end, step, r)
                                ELSE getBits(start, end, step) \ dropped)

getRange(i, r) ==
    LET start   == IF i.form = "star" THEN r.min ELSE i.low
        end     == CASE i.form = "star" -> r.max
                     [] i.form = "one"  -> IF i.step = NoStep THEN i.low ELSE r.max
                     [] OTHER           -> i.high
        step    == IF i.step = NoStep THEN 1 ELSE i.step
        extra   == IF i.form = "star" /\ step <= 1 THEN {starBit} ELSE {}
        dropped == IF /\ i.form = "one" /\ i.step # NoStep
                      /\ r.stepEnd # 0 /\ start <= r.stepEnd
                   THEN r.stepEnd + 1..r.max ELSE {}
    IN  rangeBits(start, end, step, dropped, extra, r)

-----------------------------------------------------------------------------
\* H: a value chosen by the hash of the entry's key.

\* How far into a range of n values the hash starts.
hashOffset(n, step, hash) == IF hash % step < n THEN hash % step ELSE (hash \div step) % n

hashCycleBits(c, step, hash) ==
    cycleBits(c, c.start + hashOffset(cyclicRangeSize(c.start, c.end, c.r), step, hash), step)

getHashStepBits(start, end, step, r, hash) == hashCycleBits(dowCycle(start, end, r), step, hash)

dowHashSunday7(start, end, n, hash) ==
    LET pos7 == (DaysIn - start) % (DaysIn + 1)
        j    == (hash \div n) % (n - 1)
    IN  IF start <= end /\ start # 0 THEN 0
        ELSE (start + (IF j >= pos7 THEN j + 1 ELSE j)) % (DaysIn + 1)

\* mutant: a hash that lands on the second Sunday stays there
getHashSingleRaw(start, end, r, hash) ==
    Around({start + (hash % cyclicRangeSize(start, end, r))}, r)

getHashSingleBit(start, end, r, hash) ==
    LET n   == cyclicRangeSize(start, end, r)
        val == ((start + (hash % n) - r.min) % size(r)) + r.min
    IN  IF val = DaysIn /\ isDowBounds(r) THEN {dowHashSunday7(start, end, n, hash)} ELSE {val}

getRangeWithHash(i, r, hash) ==
    LET start == IF i.form = "H" THEN r.min ELSE i.low
        end   == IF i.form = "H" THEN r.max ELSE i.high
    IN  CASE i.form \notin {"H", "Hrange"} -> getRange(i, r)
          [] i.form \in {"H", "Hrange"} /\ (~validateRangeBounds(start, end, r) \/ i.step = 0) -> Bad
          [] OTHER -> IF i.step = NoStep THEN getHashSingleBit(start, end, r, hash)
                      ELSE getHashStepBits(start, end, i.step, r, hash)

\* A list needs an item, and every item must be good.
joined(parts) == IF parts = {} \/ Bad \in parts THEN Bad ELSE UNION parts

getFieldWithHash(items, r, hash) ==
    joined({getRangeWithHash(items[k], r, hash) : k \in DOMAIN items})

\* Years: no wraparound, no wildcard bit but for the wildcard itself.
getYearRange(i) ==
    LET high == IF i.form = "range" THEN i.high ELSE i.low
        step == IF i.step = NoStep THEN 1 ELSE i.step
    IN  IF i.form \notin {"one", "range"} \/ i.low < 1 \/ i.low > high \/ step = 0 THEN Bad
        ELSE getBits(i.low, high, step)

getYearField(items) ==
    IF Len(items) = 1 /\ items[1].form = "star" THEN {starBit}
    ELSE joined({getYearRange(items[k]) : k \in DOMAIN items})

-----------------------------------------------------------------------------
\* Whole expressions.

wildcardBit(items) == IF items # <<>> /\ items[1].form = "star" THEN {starBit} ELSE {}

\* L, L-n, LW and nW need an option each, and so do the nth and last weekday.
parseDomConstraint(c, o) ==
    \/ c.type = "DomLast" /\ "DomL" \in o
    \/ c.type = "DomLastOffset" /\ "DomL" \in o /\ c.n \in 1..30
    \/ c.type = "DomLastWeekday" /\ "DomW" \in o
    \/ c.type = "DomNearestWeekday" /\ "DomW" \in o /\ c.n \in 1..31

parseDowConstraint(c, o) ==
    /\ c.weekday \in 0..DaysIn
    /\ \/ c.n = -1 /\ "DowLast" \in o
       \/ c.n \in 1..5 /\ "DowNth" \in o

NoKey == -1

\* The fields in which an H may stand, with their limits.
allBounds(options) ==
    [Second |-> seconds(options), Minute |-> minutes(options), Hour |-> hours(options),
     Dom |-> dom(options), Month |-> months(options), Dow |-> dow(options)]

\* An H needs the option and a key.
hashAllowed(e) ==
    \A f \in DOMAIN allBounds(e.options) : \A k \in DOMAIN e[f] :
        e[f][k].form \in {"H", "Hrange"} => "Hash" \in e.options /\ e.hash # NoKey

\* No day of month exists in any of the months, and no other rule stands in.
dayNeverMatches(days, month, week, constraints, or) ==
    /\ constraints = {}
    /\ ~(or /\ starBit \notin days /\ starBit \notin week)
    /\ \A m \in month \ {starBit} : \A d \in 1..MonthDays[m] : d \notin days

\* The schedule an expression e stands for, or Rejected.
Rejected == [kind |-> "rejected"]

\* The bits of every field; a field whose whole list is a constraint has none.
fieldBits(e) ==
    [f \in DOMAIN allBounds(e.options) |->
        IF f \in {"Dom", "Dow"} /\ e[f] = <<>> THEN {}
        ELSE getFieldWithHash(e[f], allBounds(e.options)[f], e.hash)]

constraintsAllowed(e) ==
    /\ \A c \in e.domConstraints : parseDomConstraint(c, e.options)
    /\ \A c \in e.dowConstraints : parseDowConstraint(c, e.options)
    /\ e.Dom = <<>> => e.domConstraints # {}
    /\ e.Dow = <<>> => e.dowConstraints # {}

\* The schedule with the given bits and years.
specOf(e, bits, year) ==
    [kind |-> "spec", Second |-> bits.Second, Minute |-> bits.Minute, Hour |-> bits.Hour,
     Dom |-> bits.Dom, Month |-> bits.Month, Dow |-> bits.Dow, Year |-> year,
     Location |-> e.location, MaxSearchYears |-> e.maxSearchYears,
     DomConstraints |-> e.domConstraints,
     DowConstraints |-> {[c EXCEPT !.weekday = @ % DaysIn] : c \in e.dowConstraints},
     DowOrDom |-> "DowOrDom" \in e.options, DSTSkip |-> "DSTSkip" \in e.options]

\* Like Vixie's cron, a leading wildcard may count as one whatever its step.
withWildcards(e, bits) ==
    LET vixie(items) == IF {"StepWildcard", "DowOrDom"} \subseteq e.options
                        THEN wildcardBit(items) ELSE {}
    IN  [bits EXCEPT !.Dom = @ \union vixie(e.Dom), !.Dow = NormalizeDOW(@) \union vixie(e.Dow)]

strict(e, s) ==
    "StrictDays" \in e.options /\ dayNeverMatches(s.Dom, s.Month, s.Dow, s.DomConstraints, s.DowOrDom)

unlessStrict(e, s) == IF strict(e, s) THEN Rejected ELSE s

parseBits(e, bits, year) ==
    IF \/ ~hashAllowed(e) \/ ~constraintsAllowed(e)
       \/ year = Bad \/ \E f \in DOMAIN bits : bits[f] = Bad
    THEN Rejected
    ELSE unlessStrict(e, specOf(e, withWildcards(e, bits), year))

parse(e) == parseBits(e, fieldBits(e), getYearField(e.Year))
=============================================================================
