----------------------------- MODULE MCSchedules -----------------------------
\* Days of 3 hours of 2 minutes of 3 seconds, weeks of 7 days, years of two
\* months; expressions of every kind, met by zone changes of every shape.
EXTENDS Schedules

MCMonthDays == <<9, 8>>

\* The first midnight of the last day of a year, a Saturday, about which the
\* zones change.
T == (6 * 17 + 16) * 18

\* A zone with the given base and changes <<reading before, shift>>.
Zone(base, shifts) ==
    LET offset[k \in 0..Len(shifts)] == IF k = 0 THEN base ELSE offset[k - 1] + shifts[k][2]
    IN  [base    |-> base,
         changes |-> [k \in 1..Len(shifts) |->
                         [at |-> shifts[k][1] - offset[k - 1], offset |-> offset[k]]]]

MCZones ==
    [flat      |-> Zone(0, <<>>),
     gapWest   |-> Zone(-12, <<<<T + 6, 6>>>>),
     gapEast   |-> Zone(12, <<<<T + 6, 6>>>>),
     gapNight  |-> Zone(-12, <<<<T, 6>>>>),
     gapHalf   |-> Zone(6, <<<<T + 9, 3>>>>),
     gapLMT    |-> Zone(-5, <<<<T, 7>>>>),
     skipDay   |-> Zone(-12, <<<<T - 18, 18>>>>),
     fallWest  |-> Zone(-12, <<<<T + 12, -6>>>>),
     fallEast  |-> Zone(12, <<<<T + 12, -6>>>>),
     fallNight |-> Zone(12, <<<<T, -6>>>>),
     fallHalf  |-> Zone(3, <<<<T + 9, -3>>>>),
     fallLMT   |-> Zone(5, <<<<T + 6, -5>>>>),
     fallTwo   |-> Zone(0, <<<<T + 15, -12>>>>),
     both      |-> Zone(6, <<<<T - 18 + 6, 6>>, <<T + 18 + 12, -6>>>>),
     \* the last hour of a day is skipped, east of UTC
     gapLast   |-> Zone(12, <<<<T - 6, 6>>>>)]

Item(form, low, high, step) == [form |-> form, low |-> low, high |-> high, step |-> step]
Star        == <<Item("star", 0, 0, NoStep)>>
One(n)      == <<Item("one", n, n, NoStep)>>
Span(a, b)  == <<Item("range", a, b, NoStep)>>
Each(n)     == <<Item("star", 0, 0, n)>>

Fields(minute, hour) ==
    [kind |-> "fields", options |-> {"DomL", "DomW", "DowNth", "DowLast"}, hash |-> NoKey,
     Second |-> One(0), Minute |-> minute, Hour |-> hour, Dom |-> Star, Month |-> Star,
     Dow |-> Star, Year |-> Star, domConstraints |-> {}, dowConstraints |-> {},
     location |-> "Local", maxSearchYears |-> 1]
DayIs(type, n) == [Fields(One(1), One(1)) EXCEPT !.Dom = <<>>, !.domConstraints = {[type |-> type, n |-> n]}]
Interval(name, d) ==
    [kind |-> "interval", name |-> name, duration |-> d, minEvery |-> 2, options |-> {"EveryRoundUp"}]
Daily(name) ==
    [kind |-> "descriptor", name |-> name, location |-> "Local", maxSearchYears |-> 1, options |-> {}]
Union(a, b) == [kind |-> "union", specs |-> <<a, b>>]

Expressions ==
    {Fields(One(1), One(1)), Fields(One(0), One(2)),
     Fields(Star, One(1)), Fields(One(0), Star), Fields(Star, Star),
     Fields(One(1), Span(2, 0)), Fields(Each(1), Each(2)),
     [Fields(One(1), Span(1, 2)) EXCEPT !.options = {"DSTSkip"}],
     [Fields(Star, One(2)) EXCEPT !.Dom = One(7) \o One(1)],
     [Fields(One(1), One(1)) EXCEPT !.Year = One(6), !.Dow = Span(5, 1)],
     [Fields(One(1), One(1)) EXCEPT !.Year = One(9)],
     [Fields(One(0), One(1)) EXCEPT !.options = {"DowOrDom"}, !.Dom = One(1), !.Dow = One(6)],
     [Fields(One(1), One(2)) EXCEPT !.Dow = <<>>,
        !.dowConstraints = {[weekday |-> 7, n |-> 1], [weekday |-> 6, n |-> -1]}],
     [Fields(One(1), One(1)) EXCEPT !.location = "fallEast"],
     Daily("@hourly"), Daily("@weekly"),
     Union(Fields(One(1), One(1)), Fields(One(0), Star)),
     Union(Fields(One(1), One(1)), Interval("@every_aligned", 5)),
     Union([Fields(One(1), One(1)) EXCEPT !.location = "fallEast"], Fields(One(0), One(1))),
     Union(Fields(One(1), One(2)), [Fields(One(1), One(2)) EXCEPT !.location = "gapEast"])}

\* Changes by half an hour and by two are told from others only by runs that
\* are as dense as that.
DenseExpressions ==
    {Fields(Star, One(1)), Fields(One(0), Star), Fields(Star, Star),
     Union(Fields(One(1), One(1)), Fields(One(0), Star))}
OddZones == {"gapHalf", "fallHalf", "fallTwo"}

\* Rules of the day of month meet the changes that move midnight or come in a
\* pair, and the finest grain those that split a minute.
DayExpressions ==
    {[Fields(One(1), Span(0, 1)) EXCEPT !.Month = One(2), !.Dom = Span(7, 8)],
     DayIs("DomLast", 0), DayIs("DomLastOffset", 1), DayIs("DomLastWeekday", 0),
     DayIs("DomNearestWeekday", 8), DayIs("DomNearestWeekday", 1)}
DayZones == {"gapNight", "skipDay", "fallNight", "both"}
Finest == {[Fields(One(0), Span(1, 2)) EXCEPT !.Second = Span(1, 2)]}

\* Intervals alone do not see the zone.
Intervals ==
    {Interval("@every", 4), Interval("@every_aligned", 5), Interval("@every_aligned", 1)}

\* From more than an hour before the first change to the day after the last.
About(expressions, zones) ==
    {[expr |-> e, zone |-> z,
      from |-> MCZones[z].changes[1].at - 8,
      to   |-> MCZones[z].changes[Len(MCZones[z].changes)].at + 20] : e \in expressions, z \in zones}

\* Expressions that are parsed and planned once.
Weekday(item, options) ==
    [Fields(One(0), One(0)) EXCEPT !.Dow = <<item>>, !.options = options, !.hash = 0]
Parsed ==
    {Weekday(Item(form, low, high, step), options) :
        form \in {"star", "one", "range"}, low \in 0..7, high \in 0..7, step \in {NoStep, 2, 3, 7},
        options \in {{"DowStepToSaturday"}, {"LenientSteps"}}}
    \union {Weekday(Item(form, low, high, step), {"Hash"}) :
        form \in {"H", "Hrange"}, low \in {0, 1, 5, 7}, high \in {0, 2, 6, 7}, step \in {NoStep, 2, 3, 9}}
    \union {[Fields(One(0), <<Item(form, low, high, step)>>) EXCEPT !.options = {"Hash"}, !.hash = 1] :
        form \in {"H", "Hrange", "range"}, low \in 0..2, high \in 0..2, step \in {NoStep, 2, 4}}
AtOnce == {[expr |-> e, zone |-> "flat", from |-> T, to |-> T] : e \in Parsed}

MCScenes ==
    About(Expressions, DOMAIN MCZones \ ({"flat", "gapLast"} \union OddZones))
        \union About(DenseExpressions, OddZones)
        \union About(DayExpressions, DayZones)
        \union About(Finest, {"gapLMT", "fallLMT", "fallHalf"})
        \union About(Intervals, {"both"}) \union AtOnce

\* Twice an hour, on the day before T only, up to the hour that is skipped.
PrevScenes == {[expr |-> [Fields(Star, Span(0, 1)) EXCEPT !.Dom = One(7)], zone |-> "gapLast",
                from |-> T - 40, to |-> T + 18]}
=============================================================================
