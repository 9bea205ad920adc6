--------------------------- MODULE SchedulesProofs ---------------------------
(***************************************************************************)
(* What the parser makes of the fields of an expression is what its items  *)
(* say, whatever the limits of the fields, and an H spreads its keys       *)
(* evenly over the values it may take.                                     *)
(***************************************************************************)
EXTENDS Schedules, FiniteSetTheorems, TLAPS

LEMMA ModSmall == \A n \in Nat \ {0}, x \in Int : 0 <= x /\ x < n => x % n = x
  BY SMT

LEMMA ModBelow == \A n \in Nat \ {0}, x \in Int : -n <= x /\ x < 0 => x % n = x + n
  BY SMT

LEMMA ModWrap == \A n \in Nat \ {0}, x \in Int : n <= x /\ x < 2 * n => x % n = x - n
  BY SMT

\* A number that passes the end of a cycle once at most.
Once(x, n) == n \in Nat \ {0} /\ x \in Int /\ 0 <= x /\ x < 2 * n
Reduced(x, n) == IF x < n THEN x ELSE x - n

LEMMA ModOnce ==
  ASSUME NEW x, NEW n, Once(x, n)
  PROVE  x % n = Reduced(x, n)
<1>1. CASE x < n
  BY <1>1, SMT DEF Once, Reduced
<1>2. CASE ~(x < n)
  BY <1>2, SMT DEF Once, Reduced
<1> QED BY <1>1, <1>2

LEMMA ModRange == \A n \in Nat \ {0}, x \in Int : x % n \in 0..n - 1
  BY SMT

-----------------------------------------------------------------------------
\* Every every-th of the values first, first + 1, ... of a cycle of n values
\* from min on, as far as hops steps go.
Cycle(min, n, first, hops, every) ==
    {((first + k - min) % n) + min : k \in {h \in 0..hops : h % every = 0}}

\* A range, by the number of steps from its first value.
LEMMA BitsByHops ==
  ASSUME NEW first \in Int, NEW last \in Int, NEW every \in Nat
  PROVE  getBits(first, last, every) = {first + k : k \in {h \in 0..last - first : h % every = 0}}
<1> DEFINE K == {h \in 0..last - first : h % every = 0}
<1>1. ASSUME NEW v \in getBits(first, last, every)
      PROVE  v - first \in K /\ v = first + (v - first)
  BY <1>1 DEF getBits
<1>2. ASSUME NEW k \in K
      PROVE  first + k \in getBits(first, last, every)
  <2>1. (first + k) - first = k
    OBVIOUS
  <2> QED BY <2>1 DEF getBits
<1> HIDE DEF K
<1>3. getBits(first, last, every) = {first + k : k \in K}
  BY <1>1, <1>2
<1> QED BY <1>3 DEF K

Numbers(min, n, first, last, every) ==
    min \in Int /\ n \in Nat \ {0} /\ first \in Int /\ last \in Int /\ every \in Nat
Straight(min, n, first, last, every) ==
    Numbers(min, n, first, last, every) /\ min <= first /\ last < min + n

\* As long as the end of the cycle is not passed, these are the bits of a range.
LEMMA CycleStraight ==
  ASSUME NEW min, NEW n, NEW first, NEW last, NEW every,
         Straight(min, n, first, last, every)
  PROVE  Cycle(min, n, first, last - first, every) = getBits(first, last, every)
<1> USE DEF Straight, Numbers
<1> DEFINE K == {h \in 0..last - first : h % every = 0}
<1>1. \A k \in 0..last - first : ((first + k - min) % n) + min = first + k
  BY ModSmall DEF Straight
<1>2. Cycle(min, n, first, last - first, every) = {first + k : k \in K}
  BY <1>1 DEF Cycle
<1>3. getBits(first, last, every) = {first + k : k \in K}
  BY BitsByHops, Zenon
<1> QED BY <1>2, <1>3

\* And beyond the end they are those of a range that goes on, set back.
SetBack(min, n, bits) == {((v - min) % n) + min : v \in bits}

LEMMA CycleOver ==
  ASSUME NEW min, NEW n, NEW first, NEW last, NEW every, Numbers(min, n, first, last, every)
  PROVE  Cycle(min, n, first, last - first, every) = SetBack(min, n, getBits(first, last, every))
<1> USE DEF Numbers
<1> DEFINE K == {h \in 0..last - first : h % every = 0}
           back(v) == ((v - min) % n) + min
<1>1. getBits(first, last, every) = {first + k : k \in K}
  BY BitsByHops, Zenon
<1>2. Cycle(min, n, first, last - first, every) = {back(first + k) : k \in K}
  BY DEF Cycle
<1>3. {back(v) : v \in {first + k : k \in K}} = {back(first + k) : k \in K}
  <2> HIDE DEF back, K
  <2> QED OBVIOUS
<1> QED BY <1>1, <1>2, <1>3 DEF SetBack

LEMMA CycleInside ==
  ASSUME NEW min \in Int, NEW n \in Nat \ {0}, NEW first \in Int, NEW hops \in Int, NEW every
  PROVE  Cycle(min, n, first, hops, every) \subseteq min..min + n - 1
BY ModRange DEF Cycle

-----------------------------------------------------------------------------
\* The numbers of a range item, as getRange and Walk read them.
Begin(i, r) == IF i.form = "star" THEN r.min ELSE i.low
End(i, r)   == CASE i.form = "star" -> r.max
                 [] i.form = "one"  -> IF i.step = NoStep THEN i.low ELSE r.max
                 [] OTHER           -> i.high
Every(i)    == IF i.step = NoStep THEN 1 ELSE i.step
Dropped(i, r) == IF /\ i.form = "one" /\ i.step # NoStep
                    /\ r.stepEnd # 0 /\ Begin(i, r) <= r.stepEnd
                 THEN r.stepEnd + 1..r.max ELSE {}
Extra(i, r) == IF i.form = "star" /\ Every(i) <= 1 THEN {starBit} ELSE {}
Hops(first, last, n) == IF last - first = n THEN n - 1 ELSE (last - first) % n

\* The values an item selects, without the wildcard bit.
Selected(i, r) ==
    IF Begin(i, r) > End(i, r) THEN getWraparoundBits(Begin(i, r), End(i, r), Every(i), r)
    ELSE getBits(Begin(i, r), End(i, r), Every(i)) \ Dropped(i, r)

\* A field that the parser may read.
Field(r) ==
    /\ r \in [min : Nat, max : Nat, lenientSteps : BOOLEAN, stepEnd : Nat]
    /\ r.max < starBit

Written(i) == i.step \in Nat \union {NoStep} /\ ~hashed(i)

LEMMA RangeParts ==
  ASSUME NEW i, NEW r, Field(r), Written(i), getRange(i, r) # Bad
  PROVE  /\ Begin(i, r) \in r.min..r.max
         /\ End(i, r) \in r.min..r.max
         /\ Every(i) \in Nat \ {0}
         /\ getRange(i, r) = Extra(i, r) \union Selected(i, r)
<1>1. getRange(i, r) = rangeBits(Begin(i, r), End(i, r), Every(i), Dropped(i, r), Extra(i, r), r)
  BY DEF getRange, Begin, End, Every, Dropped, Extra
<1>2. validateRangeParams(Begin(i, r), End(i, r), Every(i), r)
  BY <1>1 DEF rangeBits
<1>3. getRange(i, r) = Extra(i, r) \union Selected(i, r)
  BY <1>1, <1>2, Zenon DEF rangeBits, Selected
<1>4. Begin(i, r) \in r.min..r.max /\ End(i, r) \in r.min..r.max /\ Every(i) # 0
  BY <1>2, Zenon DEF validateRangeParams, validateRangeBounds
<1>5. Every(i) \in Nat
  BY DEF Written, Every, NoStep
<1> QED BY <1>3, <1>4, <1>5

\* Walk goes through the same numbers, up to where a step without an end stops.
Last(i, r) == IF i.form = "one" /\ i.step # NoStep THEN LastStep(Begin(i, r), r) ELSE End(i, r)

LEMMA WalkParts ==
  ASSUME NEW i, NEW r, Written(i)
  PROVE  LET distinct == IF isDowBounds(r) THEN DaysIn ELSE size(r)
         IN  Walk(i, r) = Cycle(r.min, distinct, Begin(i, r), Hops(Begin(i, r), Last(i, r), distinct), Every(i))
<1>1. i.form # "H" /\ i.form # "Hrange"
  BY DEF Written, hashed
<1>2. (IF i.form \in {"star", "H"} THEN r.min ELSE i.low) = Begin(i, r)
  BY <1>1 DEF Begin
<1>3. (IF i.step = NoStep \/ hashed(i) THEN 1 ELSE i.step) = Every(i)
  BY DEF Written, Every
<1>4. (CASE i.form \in {"star", "H"} -> r.max
         [] i.form = "one" /\ i.step = NoStep -> i.low
         [] i.form = "one" /\ i.step # NoStep -> LastStep(Begin(i, r), r)
         [] OTHER -> i.high) = Last(i, r)
  <2>1. CASE i.form = "star"
    BY <2>1, Zenon DEF Last, End
  <2>2. CASE i.form = "one"
    BY <2>2, Zenon DEF Last, End
  <2>3. CASE i.form # "star" /\ i.form # "one"
    BY <2>3, <1>1, Zenon DEF Last, End
  <2> QED BY <2>1, <2>2, <2>3, Zenon
<1> QED BY <1>2, <1>3, <1>4, Zenon DEF Walk, Cycle, Hops

-----------------------------------------------------------------------------
\* A field other than the days of the week.
LEMMA PlainField ==
  ASSUME NEW i, NEW r, Field(r), Written(i), getRange(i, r) # Bad,
         ~isDowBounds(r), r.stepEnd = 0
  PROVE  getRange(i, r) \ {starBit} = Walk(i, r)
<1> DEFINE first == Begin(i, r)
           last  == End(i, r)
           every == Every(i)
           n     == size(r)
<1>1. /\ first \in r.min..r.max /\ last \in r.min..r.max /\ every \in Nat \ {0}
      /\ getRange(i, r) = Extra(i, r) \union Selected(i, r)
  BY RangeParts
<1>2. n \in Nat \ {0} /\ r.min \in Nat /\ r.max = r.min + n - 1
  BY <1>1 DEF size, Field
<1>3. Walk(i, r) = Cycle(r.min, n, first, Hops(first, last, n), every)
  BY WalkParts DEF Last, LastStep, End
<1>4. Dropped(i, r) = {}
  BY DEF Dropped
<1>5. Selected(i, r) = Walk(i, r)
  <2>1. CASE first <= last
    <3>1. Hops(first, last, n) = last - first
      BY <1>1, <1>2, <2>1, ModSmall DEF Hops
    <3>2. Selected(i, r) = getBits(first, last, every)
      BY <1>1, <1>2, <1>4, <2>1 DEF Selected
    <3>3. Cycle(r.min, n, first, last - first, every) = getBits(first, last, every)
      <4>1. Straight(r.min, n, first, last, every)
        BY <1>1, <1>2 DEF Numbers, Straight
      <4> QED BY <4>1, CycleStraight, SMT
    <3> QED BY <1>3, <3>1, <3>2, <3>3
  <2>2. CASE first > last
    <3>1. Hops(first, last, n) = (last + n) - first
      BY <1>1, <1>2, <2>2, ModBelow DEF Hops
    <3>2. Selected(i, r) = getWraparoundBits(first, last, every, r)
      BY <2>2 DEF Selected
    <3>3. getWraparoundBits(first, last, every, r) = Around(getBits(first, last + n, every), r)
      BY <1>1, <1>2, <2>2 DEF getWraparoundBits, wholeCycle, cycleBits, dowCycle
    <3>4. Cycle(r.min, n, first, (last + n) - first, every)
            = SetBack(r.min, n, getBits(first, last + n, every))
      <4>1. Numbers(r.min, n, first, last + n, every)
        BY <1>1, <1>2 DEF Numbers
      <4> QED BY <4>1, CycleOver, Zenon
    <3> QED BY <1>3, <3>1, <3>2, <3>3, <3>4 DEF Around, SetBack
  <2> QED BY <1>1, <1>2, <2>1, <2>2
<1>6. starBit \notin Walk(i, r)
  <2>1. Hops(first, last, n) \in Int
    BY <1>1, <1>2 DEF Hops
  <2>2. Walk(i, r) \subseteq r.min..r.min + n - 1
    BY <2>1, <1>1, <1>2, <1>3, CycleInside
  <2> QED BY <2>2, <1>2 DEF Field, starBit
<1> QED BY <1>1, <1>5, <1>6 DEF Extra

-----------------------------------------------------------------------------
\* The days of the week: Sunday is both the first and the last of the numbers.
LEMMA DaysPositive == DaysIn \in Nat \ {0} /\ DaysIn < starBit
  BY FieldsAssumption DEF starBit

LEMMA SundayOnce ==
  ASSUME NEW S \in SUBSET (0..DaysIn)
  PROVE  NormalizeDOW(S) = SetBack(0, DaysIn, S)
<1>1. ASSUME NEW v \in S
      PROVE  ((v - 0) % DaysIn) + 0 = IF v = DaysIn THEN 0 ELSE v
  <2>1. Once(v, DaysIn) /\ (v < DaysIn \/ v = DaysIn) /\ v - 0 = v /\ v \in Int
    BY DaysPositive DEF Once
  <2>2. v % DaysIn = Reduced(v, DaysIn)
    BY <2>1, ModOnce, Zenon
  <2> QED BY <2>1, <2>2, DaysPositive DEF Reduced
<1>2. SetBack(0, DaysIn, S) = {IF v = DaysIn THEN 0 ELSE v : v \in S}
  BY <1>1 DEF SetBack
<1>3. NormalizeDOW(S) = {IF v = DaysIn THEN 0 ELSE v : v \in S}
  <2>1. CASE DaysIn \in S
    BY <2>1 DEF NormalizeDOW
  <2>2. CASE DaysIn \notin S
    BY <2>2 DEF NormalizeDOW
  <2> QED BY <2>1, <2>2
<1> QED BY <1>2, <1>3

LEMMA NoSunday ==
  ASSUME NEW S, DaysIn \notin S
  PROVE  NormalizeDOW(S) = S
BY DEF NormalizeDOW

\* A range that does not wrap around.
LEMMA WeekStraight ==
  ASSUME NEW start \in 0..DaysIn, NEW end \in 0..DaysIn, NEW step \in Nat \ {0}, start <= end
  PROVE  NormalizeDOW(getBits(start, end, step))
            = Cycle(0, DaysIn, start, Hops(start, end, DaysIn), step)
<1>0. Numbers(0, DaysIn, start, end, step)
  BY DaysPositive DEF Numbers
<1>1. NormalizeDOW(getBits(start, end, step)) = SetBack(0, DaysIn, getBits(start, end, step))
  <2>1. getBits(start, end, step) \in SUBSET (0..DaysIn)
    BY DaysPositive DEF getBits
  <2> QED BY <2>1, SundayOnce
<1>2. Cycle(0, DaysIn, start, end - start, step) = SetBack(0, DaysIn, getBits(start, end, step))
  BY <1>0, CycleOver, SMT
<1>3. CASE end - start # DaysIn
  <2>1. Hops(start, end, DaysIn) = end - start
    BY <1>3, DaysPositive, ModSmall DEF Hops
  <2> QED BY <2>1, <1>1, <1>2
<1>4. CASE end - start = DaysIn
  <2>1. start = 0 /\ end = DaysIn /\ Hops(start, end, DaysIn) = (DaysIn - 1) - start
    BY <1>4, DaysPositive DEF Hops
  <2>2. Straight(0, DaysIn, start, DaysIn - 1, step)
    BY <2>1, DaysPositive DEF Straight, Numbers
  <2>3. Cycle(0, DaysIn, start, (DaysIn - 1) - start, step) = getBits(0, DaysIn - 1, step)
    BY <2>1, <2>2, CycleStraight, SMT
  <2>4. 0 \in getBits(0, DaysIn, step)
    BY ModSmall, DaysPositive DEF getBits
  <2>5. getBits(0, DaysIn - 1, step) = getBits(0, DaysIn, step) \ {DaysIn}
    BY DaysPositive DEF getBits
  <2>6. NormalizeDOW(getBits(0, DaysIn, step)) = getBits(0, DaysIn - 1, step)
    BY <2>4, <2>5, DaysPositive DEF NormalizeDOW
  <2> QED BY <2>1, <2>3, <2>6
<1> QED BY <1>3, <1>4

\* A step that starts at a day and goes on to Saturday.
LEMMA WeekToSaturday ==
  ASSUME NEW start \in 0..DaysIn, NEW step \in Nat \ {0}, start <= DaysIn - 1
  PROVE  NormalizeDOW(getBits(start, DaysIn, step) \ (DaysIn - 1 + 1..DaysIn))
            = Cycle(0, DaysIn, start, Hops(start, DaysIn - 1, DaysIn), step)
<1>1. getBits(start, DaysIn, step) \ (DaysIn - 1 + 1..DaysIn) = getBits(start, DaysIn - 1, step)
  BY DaysPositive DEF getBits
<1>2. DaysIn \notin getBits(start, DaysIn - 1, step)
  BY DaysPositive DEF getBits
<1>3. Hops(start, DaysIn - 1, DaysIn) = (DaysIn - 1) - start
  BY DaysPositive, ModSmall DEF Hops
<1>4. Straight(0, DaysIn, start, DaysIn - 1, step)
  BY DaysPositive DEF Straight, Numbers
<1>5. Cycle(0, DaysIn, start, (DaysIn - 1) - start, step) = getBits(start, DaysIn - 1, step)
  BY <1>4, CycleStraight, SMT
<1> QED BY <1>1, <1>2, <1>3, <1>5, NoSunday

\* A range that wraps around.
LEMMA WeekWrap ==
  ASSUME NEW r, Field(r), isDowBounds(r),
         NEW start \in 0..DaysIn, NEW end \in 0..DaysIn, NEW step \in Nat \ {0}, start > end
  PROVE  NormalizeDOW(getWraparoundBits(start, end, step, r))
            = Cycle(0, DaysIn, start, Hops(start, end, DaysIn), step)
<1>0. end % DaysIn = end /\ r.min = 0 /\ r.max = DaysIn /\ size(r) = DaysIn + 1
  BY DaysPositive, ModSmall DEF isDowBounds, size
<1>1. Hops(start, end, DaysIn) = (end + DaysIn) - start
  BY DaysPositive, ModBelow DEF Hops
<1>2. CASE step > 1 /\ start = DaysIn
  <2>1. start % DaysIn = 0
    BY <1>2, DaysPositive, ModWrap
  <2>2. getWraparoundBits(start, end, step, r) = getBits(0, end, step)
    BY <1>0, <1>2, <2>1, DaysPositive DEF getWraparoundBits, wholeCycle, cycleBits, dowCycle
  <2>3. DaysIn \notin getBits(0, end, step)
    BY DEF getBits
  <2>4. Straight(0, DaysIn, 0, end, step)
    BY DaysPositive DEF Straight, Numbers
  <2>5. Cycle(0, DaysIn, 0, end - 0, step) = getBits(0, end, step)
    BY <2>4, CycleStraight, SMT
  <2>6. \A k \in 0..end : ((0 + k - 0) % DaysIn) + 0 = ((start + k - 0) % DaysIn) + 0
    <3>1. ASSUME NEW k \in 0..end PROVE k % DaysIn = k /\ (DaysIn + k) % DaysIn = k
      BY DaysPositive, ModSmall, ModWrap
    <3> QED BY <3>1, <1>2, DaysPositive
  <2>7. Cycle(0, DaysIn, start, end, step) = Cycle(0, DaysIn, 0, end, step)
    BY <2>6 DEF Cycle
  <2>8. (end + DaysIn) - start = end /\ end - 0 = end
    BY <1>2, DaysPositive
  <2> QED BY <1>1, <2>2, <2>3, <2>5, <2>7, <2>8, NoSunday
<1>3. CASE step > 1 /\ start < DaysIn
  <2>1. start % DaysIn = start
    BY <1>3, DaysPositive, ModSmall
  <2> DEFINE q == [r EXCEPT !.max = DaysIn - 1]
  <2>2. q.min = 0 /\ size(q) = DaysIn
    BY <1>0, DaysPositive DEF size, Field
  <2>3. getWraparoundBits(start, end, step, r) = Around(getBits(start, end + DaysIn, step), q)
    BY <1>0, <1>3, <2>1, <2>2, DaysPositive DEF getWraparoundBits, wholeCycle, cycleBits, dowCycle
  <2>4. Around(getBits(start, end + DaysIn, step), q)
          = SetBack(0, DaysIn, getBits(start, end + DaysIn, step))
    BY <2>2 DEF Around, SetBack
  <2>5. Numbers(0, DaysIn, start, end + DaysIn, step)
    BY DaysPositive DEF Numbers
  <2>6. Cycle(0, DaysIn, start, (end + DaysIn) - start, step)
          = SetBack(0, DaysIn, getBits(start, end + DaysIn, step))
    BY <2>5, CycleOver, Zenon
  <2>7. DaysIn \notin Cycle(0, DaysIn, start, (end + DaysIn) - start, step)
    BY DaysPositive, CycleInside
  <2> QED BY <1>1, <2>3, <2>4, <2>6, <2>7, NoSunday
<1>4. CASE step = 1
  <2> DEFINE over == start..end + (DaysIn + 1)
  <2>1. \A a, b \in Int : getBits(a, b, 1) = a..b
    BY ModRange DEF getBits
  <2>2. getWraparoundBits(start, end, step, r) = {((v - 0) % (DaysIn + 1)) + 0 : v \in over}
    <3>1. getWraparoundBits(start, end, step, r)
            = Around(getBits(start, end + (DaysIn + 1), 1), r)
      BY <1>0, <1>4 DEF getWraparoundBits, wholeCycle, cycleBits
    <3>2. getBits(start, end + (DaysIn + 1), 1) = over
      BY <2>1, DaysPositive
    <3> HIDE DEF over
    <3> QED BY <3>1, <3>2, <1>0 DEF Around
  <2>3. ASSUME NEW v \in over
        PROVE  ((v - 0) % (DaysIn + 1)) + 0 = IF v <= DaysIn THEN v ELSE v - (DaysIn + 1)
    <3>1. Once(v, DaysIn + 1) /\ v \in Int /\ v - 0 = v
      BY DaysPositive DEF Once
    <3>2. v % (DaysIn + 1) = Reduced(v, DaysIn + 1)
      BY <3>1, ModOnce, Zenon
    <3> QED BY <3>1, <3>2, DaysPositive DEF Reduced
  <2>4. getWraparoundBits(start, end, step, r) = (start..DaysIn) \union (0..end)
    <3>1. ASSUME NEW u \in start..DaysIn PROVE u \in over /\ u <= DaysIn
      BY <3>1, DaysPositive
    <3>2. ASSUME NEW u \in 0..end
          PROVE  u + (DaysIn + 1) \in over /\ ~(u + (DaysIn + 1) <= DaysIn)
                 /\ u = u + (DaysIn + 1) - (DaysIn + 1)
      BY <3>2, DaysPositive
    <3>3. ASSUME NEW v \in over
          PROVE  (IF v <= DaysIn THEN v ELSE v - (DaysIn + 1)) \in (start..DaysIn) \union (0..end)
      BY <3>3, DaysPositive
    <3> DEFINE V(v) == IF v <= DaysIn THEN v ELSE v - (DaysIn + 1)
    <3>4. {((v - 0) % (DaysIn + 1)) + 0 : v \in over} = {V(v) : v \in over}
      <4> HIDE DEF over
      <4> QED BY <2>3
    <3>5. {V(v) : v \in over} = (start..DaysIn) \union (0..end)
      <4>1. \A u \in start..DaysIn : u \in over /\ u = V(u)
        BY <3>1
      <4>2. \A u \in 0..end : u + (DaysIn + 1) \in over /\ u = V(u + (DaysIn + 1))
        BY <3>2, DaysPositive
      <4>3. \A v \in over : V(v) \in (start..DaysIn) \union (0..end)
        BY <3>3
      <4> HIDE DEF over, V
      <4> QED BY <4>1, <4>2, <4>3
    <3> QED BY <2>2, <3>4, <3>5
  <2>5. NormalizeDOW(getWraparoundBits(start, end, step, r)) = (start..DaysIn - 1) \union (0..end)
    BY <2>4, DaysPositive DEF NormalizeDOW
  <2>6. ASSUME NEW k \in 0..(end + DaysIn) - start
        PROVE  ((start + k - 0) % DaysIn) + 0
                  = IF start + k < DaysIn THEN start + k ELSE start + k - DaysIn
    <3>1. Once(start + k, DaysIn) /\ start + k \in Int /\ start + k - 0 = start + k
      BY DaysPositive DEF Once
    <3>2. (start + k) % DaysIn = Reduced(start + k, DaysIn)
      BY <3>1, ModOnce, Zenon
    <3> QED BY <3>1, <3>2, DaysPositive DEF Reduced
  <2>7. \A k \in Int : k % 1 = 0
    BY ModRange
  <2>8. Cycle(0, DaysIn, start, (end + DaysIn) - start, 1)
          = {IF start + k < DaysIn THEN start + k ELSE start + k - DaysIn :
               k \in 0..(end + DaysIn) - start}
    BY <2>6, <2>7 DEF Cycle
  <2>9. {IF start + k < DaysIn THEN start + k ELSE start + k - DaysIn :
               k \in 0..(end + DaysIn) - start} = (start..DaysIn - 1) \union (0..end)
    <3> DEFINE H == 0..(end + DaysIn) - start
               W(k) == IF start + k < DaysIn THEN start + k ELSE start + k - DaysIn
    <3>1. ASSUME NEW u \in start..DaysIn - 1 PROVE u - start \in H /\ u = W(u - start)
      BY <3>1, DaysPositive
    <3>2. ASSUME NEW u \in 0..end PROVE u + DaysIn - start \in H /\ u = W(u + DaysIn - start)
      BY <3>2, DaysPositive
    <3>3. ASSUME NEW k \in H PROVE W(k) \in (start..DaysIn - 1) \union (0..end)
      BY <3>3, DaysPositive
    <3> HIDE DEF H, W
    <3>4. {W(k) : k \in H} = (start..DaysIn - 1) \union (0..end)
      BY <3>1, <3>2, <3>3
    <3> QED BY <3>4 DEF H, W
  <2> QED BY <1>1, <1>4, <2>5, <2>8, <2>9
<1> QED BY <1>2, <1>3, <1>4, DaysPositive

LEMMA WeekField ==
  ASSUME NEW i, NEW r, Field(r), Written(i), getRange(i, r) # Bad,
         isDowBounds(r), r.stepEnd \in {0, DaysIn - 1}
  PROVE  NormalizeDOW(getRange(i, r)) \ {starBit} = Walk(i, r)
<1> DEFINE first == Begin(i, r)
           end   == End(i, r)
           every == Every(i)
           cut   == /\ i.form = "one" /\ i.step # NoStep
                    /\ r.stepEnd # 0 /\ first <= r.stepEnd
           last  == Last(i, r)
<1>1. /\ first \in 0..DaysIn /\ end \in 0..DaysIn /\ every \in Nat \ {0}
      /\ getRange(i, r) = Extra(i, r) \union Selected(i, r)
  BY RangeParts DEF isDowBounds
<1>2. r.min = 0 /\ r.max = DaysIn
  BY DEF isDowBounds
<1>3. Walk(i, r) = Cycle(0, DaysIn, first, Hops(first, last, DaysIn), every)
  BY <1>2, WalkParts
<1>4. cut => end = DaysIn /\ last = DaysIn - 1 /\ first <= DaysIn - 1
             /\ Dropped(i, r) = DaysIn - 1 + 1..DaysIn
  BY <1>2 DEF End, Dropped, Last, LastStep
<1>5. ~cut => last = end /\ Dropped(i, r) = {}
  BY DEF Dropped, End, Last, LastStep
<1>6. NormalizeDOW(Selected(i, r)) = Walk(i, r)
  <2>1. CASE cut
    <3>1. Selected(i, r) = getBits(first, DaysIn, every) \ (DaysIn - 1 + 1..DaysIn)
      BY <1>1, <1>4, <2>1, DaysPositive DEF Selected
    <3>2. NormalizeDOW(getBits(first, DaysIn, every) \ (DaysIn - 1 + 1..DaysIn))
            = Cycle(0, DaysIn, first, Hops(first, DaysIn - 1, DaysIn), every)
      BY <1>1, <1>4, <2>1, WeekToSaturday
    <3> QED BY <1>3, <1>4, <2>1, <3>1, <3>2
  <2>2. CASE ~cut /\ first <= end
    <3>1. Selected(i, r) = getBits(first, end, every)
      BY <1>1, <1>5, <2>2, DaysPositive DEF Selected
    <3>2. NormalizeDOW(getBits(first, end, every))
            = Cycle(0, DaysIn, first, Hops(first, end, DaysIn), every)
      BY <1>1, <2>2, WeekStraight
    <3> QED BY <1>3, <1>5, <2>2, <3>1, <3>2
  <2>3. CASE ~cut /\ first > end
    <3>1. Selected(i, r) = getWraparoundBits(first, end, every, r)
      BY <2>3 DEF Selected
    <3>2. NormalizeDOW(getWraparoundBits(first, end, every, r))
            = Cycle(0, DaysIn, first, Hops(first, end, DaysIn), every)
      BY <1>1, <2>3, WeekWrap
    <3> QED BY <1>3, <1>5, <2>3, <3>1, <3>2
  <2> QED BY <1>1, <2>1, <2>2, <2>3, DaysPositive
<1>7. starBit \notin Walk(i, r)
  <2>1. Hops(first, last, DaysIn) \in Int
    BY <1>1, <1>4, <1>5, DaysPositive DEF Hops
  <2>2. Walk(i, r) \subseteq 0..0 + DaysIn - 1
    BY <2>1, <1>1, <1>3, CycleInside, DaysPositive
  <2> QED BY <2>2, DaysPositive DEF starBit
<1>8. NormalizeDOW(Extra(i, r) \union Selected(i, r)) \ {starBit}
        = NormalizeDOW(Selected(i, r)) \ {starBit}
  BY DaysPositive DEF NormalizeDOW, Extra
<1> QED BY <1>1, <1>6, <1>7, <1>8

-----------------------------------------------------------------------------
\* The fields of an expression.
Names == {"Second", "Minute", "Hour", "Dom", "Month", "Dow"}

LEMMA Bounds ==
  ASSUME NEW options
  PROVE  /\ DOMAIN allBounds(options) = Names
         /\ \A f \in Names :
               /\ Field(allBounds(options)[f])
               /\ isDowBounds(allBounds(options)[f]) <=> f = "Dow"
               /\ f # "Dow" => allBounds(options)[f].stepEnd = 0
               /\ f = "Dow" => allBounds(options)[f].stepEnd \in {0, DaysIn - 1}
<1> USE FieldsAssumption DEF starBit
<1>1. DOMAIN allBounds(options) = Names
  BY DEF allBounds, Names
<1>2. ASSUME NEW f \in Names \ {"Dow"}, NEW r, r = allBounds(options)[f]
      PROVE  Field(r) /\ ~isDowBounds(r) /\ r.stepEnd = 0
  <2>1. CASE f = "Second"
    BY <1>2, <2>1 DEF allBounds, seconds, bounds, Field, isDowBounds
  <2>2. CASE f = "Minute"
    BY <1>2, <2>2 DEF allBounds, minutes, bounds, Field, isDowBounds
  <2>3. CASE f = "Hour"
    BY <1>2, <2>3 DEF allBounds, hours, bounds, Field, isDowBounds
  <2>4. CASE f = "Dom"
    BY <1>2, <2>4 DEF allBounds, dom, bounds, Field, isDowBounds
  <2>5. CASE f = "Month"
    BY <1>2, <2>5 DEF allBounds, months, bounds, Field, isDowBounds
  <2> QED BY <1>2, <2>1, <2>2, <2>3, <2>4, <2>5 DEF Names
<1>3. ASSUME NEW r, r = allBounds(options)["Dow"]
      PROVE  Field(r) /\ isDowBounds(r) /\ r.stepEnd \in {0, DaysIn - 1}
  <2>1. r = [bounds(0, DaysIn, options) EXCEPT
                !.stepEnd = IF "DowStepToSaturday" \in options THEN DaysIn - 1 ELSE 0]
    BY <1>3 DEF allBounds, dow
  <2>2. r = [min |-> 0, max |-> DaysIn, lenientSteps |-> "LenientSteps" \in options,
             stepEnd |-> IF "DowStepToSaturday" \in options THEN DaysIn - 1 ELSE 0]
    BY <2>1, Zenon DEF bounds
  <2>3. r.min = 0 /\ r.max = DaysIn /\ r.stepEnd \in {0, DaysIn - 1}
    BY <2>2
  <2>4. r \in [min : Nat, max : Nat, lenientSteps : BOOLEAN, stepEnd : Nat]
    BY <2>2
  <2> QED BY <2>3, <2>4 DEF Field, isDowBounds
<1> QED BY <1>1, <1>2, <1>3

LEMMA Normalized ==
  ASSUME NEW S, NEW v
  PROVE  v \in NormalizeDOW(S) <=> (v \in S /\ v # DaysIn) \/ (v = 0 /\ DaysIn \in S)
BY DaysPositive DEF NormalizeDOW

\* The bits of a field are what its items select.
AsWritten(bits, items, f, options) ==
    (IF f = "Dow" THEN NormalizeDOW(bits) ELSE bits) \ {starBit}
        = UNION {Walk(items[k], allBounds(options)[f]) : k \in DOMAIN items}

\* It is so for a list of items without a hash.
LEMMA ListAsWritten ==
  ASSUME NEW items, NEW hash, NEW f \in Names, NEW options,
         \A k \in DOMAIN items : Written(items[k]),
         getFieldWithHash(items, allBounds(options)[f], hash) # Bad
  PROVE  AsWritten(getFieldWithHash(items, allBounds(options)[f], hash), items, f, options)
<1> DEFINE r    == allBounds(options)[f]
           K    == DOMAIN items
           F    == [k \in K |-> getRange(items[k], r)]
           bits == getFieldWithHash(items, r, hash)
<1>1. \A k \in K : getRangeWithHash(items[k], r, hash) = F[k]
  <2>1. ASSUME NEW i, Written(i)
        PROVE  getRangeWithHash(i, r, hash) = getRange(i, r)
    BY <2>1, Zenon DEF getRangeWithHash, Written, hashed
  <2> QED BY <2>1
<1>2. {getRangeWithHash(items[k], r, hash) : k \in K} = {F[k] : k \in K}
  <2> HIDE DEF F, K, r
  <2> QED BY <1>1
<1>3. bits = joined({F[k] : k \in K})
  BY <1>2, Zenon DEF getFieldWithHash
<1>4. bits = UNION {F[k] : k \in K} /\ Bad \notin {F[k] : k \in K}
  <2> HIDE DEF F
  <2> QED BY <1>3, Zenon DEF joined
<1>5. ASSUME NEW k \in K
      PROVE  /\ F[k] = getRange(items[k], r) /\ F[k] # Bad
             /\ Written(items[k]) /\ Field(r)
  BY <1>4, Bounds
<1>6. CASE f = "Dow"
  <2>1. ASSUME NEW k \in K
        PROVE  NormalizeDOW(F[k]) \ {starBit} = Walk(items[k], r)
    <3>1. isDowBounds(r) /\ r.stepEnd \in {0, DaysIn - 1}
      BY <1>6, Bounds
    <3> QED BY <1>5, <3>1, WeekField
  <2>2. NormalizeDOW(bits) = UNION {NormalizeDOW(F[k]) : k \in K}
    <3> HIDE DEF F, bits, K
    <3>1. \A v : v \in bits <=> \E k \in K : v \in F[k]
      BY <1>4
    <3>2. ASSUME NEW v
          PROVE  v \in NormalizeDOW(bits) <=> \E k \in K : v \in NormalizeDOW(F[k])
      BY <3>1, Normalized
    <3> QED BY <3>2
  <2>3. NormalizeDOW(bits) \ {starBit} = UNION {Walk(items[k], r) : k \in K}
    <3> HIDE DEF F, bits, K, r
    <3> QED BY <2>1, <2>2
  <2> QED BY <1>6, <2>3 DEF AsWritten
<1>7. CASE f # "Dow"
  <2>1. ASSUME NEW k \in K
        PROVE  F[k] \ {starBit} = Walk(items[k], r)
    <3>1. ~isDowBounds(r) /\ r.stepEnd = 0
      BY <1>7, Bounds
    <3> QED BY <1>5, <3>1, PlainField
  <2>2. bits \ {starBit} = UNION {Walk(items[k], r) : k \in K}
    <3> HIDE DEF F, bits, K, r
    <3> QED BY <1>4, <2>1
  <2> QED BY <1>7, <2>2 DEF AsWritten
<1> QED BY <1>6, <1>7

\* What a field of an accepted expression holds.
LEMMA ParsedField ==
  ASSUME NEW e, parse(e) # Rejected, NEW f \in Names
  PROVE  LET bits == fieldBits(e)[f]
         IN  /\ bits # Bad
             /\ parse(e)[f] \ {starBit} = (IF f = "Dow" THEN NormalizeDOW(bits) ELSE bits) \ {starBit}
<1> DEFINE bits == fieldBits(e)
           full == withWildcards(e, bits)
<1>1. parse(e) = parseBits(e, bits, getYearField(e.Year))
  BY Zenon DEF parse
<1>2. /\ ~(\E g \in DOMAIN bits : bits[g] = Bad)
      /\ parse(e) = unlessStrict(e, specOf(e, full, getYearField(e.Year)))
  <2> HIDE DEF bits, full
  <2> QED BY <1>1, Zenon DEF parseBits, full
<1>3. parse(e) = specOf(e, full, getYearField(e.Year))
  BY <1>2, Zenon DEF unlessStrict
<1>4. DOMAIN bits = Names /\ bits = [g \in Names |-> bits[g]]
  BY Bounds DEF fieldBits
<1>5. parse(e)[f] = full[f]
  <2> HIDE DEF full
  <2> QED BY <1>3 DEF specOf, Names
<1>6. /\ f \notin {"Dom", "Dow"} => full[f] = bits[f]
      /\ f = "Dom" => full[f] \ {starBit} = bits[f] \ {starBit}
      /\ f = "Dow" => full[f] \ {starBit} = NormalizeDOW(bits[f]) \ {starBit}
  <2> HIDE DEF bits
  <2> QED BY <1>4 DEF full, withWildcards, wildcardBit, Names
<1> QED BY <1>2, <1>4, <1>5, <1>6

-----------------------------------------------------------------------------
\* The entry of a scene has no schedule, or that of the scene's expression.
EntryFields == {"sched", "next", "prev", "fallBackRuns"}
IsEntry(e)  == DOMAIN e = EntryFields /\ e = [x \in EntryFields |-> e[x]]

EntryInv ==
    /\ scene \in Scenes
    /\ IsEntry(entry)
    /\ added => entry.sched = Parse(expr)

LEMMA PlannedKeeps ==
  ASSUME NEW e, NEW t, IsEntry(e)
  PROVE  IsEntry(Planned(e, t)) /\ Planned(e, t).sched = e.sched
<1> DEFINE next == skipFallBackRepeats(e.sched, location, e.fallBackRuns, e.prev,
                                       NextOf(e.sched, location, t))
<1>1. Planned(e, t) = [e EXCEPT !.next = next]
  BY Zenon DEF Planned
<1> HIDE DEF next
<1> QED BY <1>1 DEF IsEntry, EntryFields

LEMMA RunKeeps ==
  ASSUME NEW e, IsEntry(e), NEW prev, NEW runs
  PROVE  LET fired == [e EXCEPT !.prev = prev, !.fallBackRuns = runs]
         IN  IsEntry(fired) /\ fired.sched = e.sched
BY DEF IsEntry, EntryFields

LEMMA EntryStays == Init => EntryInv
BY DEF Init, EntryInv, IsEntry, EntryFields, NoEntry, added

LEMMA EntryStep == EntryInv /\ [Next]_vars => EntryInv'
<1> SUFFICES ASSUME EntryInv, [Next]_vars PROVE EntryInv'
  OBVIOUS
<1>1. CASE Add
  <2> DEFINE s == Parse(expr)
             e == [NoEntry EXCEPT !.sched = s]
  <2>1. IsEntry(e) /\ e.sched = s
    <3> HIDE DEF s
    <3> QED BY DEF NoEntry, IsEntry, EntryFields
  <2>2. entry' = Planned(e, now) /\ scene' = scene
    BY <1>1, Zenon DEF Add, scheduleEntryNext
  <2>3. IsEntry(entry') /\ entry'.sched = s
    <3> HIDE DEF e
    <3> QED BY <2>1, <2>2, PlannedKeeps
  <2> QED BY <2>2, <2>3, Zenon DEF EntryInv, expr
<1>2. CASE Run
  <2> DEFINE runs == addFallBackRun(entry.sched, location, entry.fallBackRuns, entry.next)
             fired == [entry EXCEPT !.prev = entry.next, !.fallBackRuns = runs]
  <2>1. IsEntry(fired) /\ fired.sched = entry.sched
    <3> HIDE DEF runs
    <3> QED BY RunKeeps, Zenon DEF EntryInv
  <2>2. entry' = Planned(fired, now) /\ scene' = scene
    BY <1>2, Zenon DEF Run
  <2>3. IsEntry(entry') /\ entry'.sched = entry.sched
    <3> HIDE DEF fired
    <3> QED BY <2>1, <2>2, PlannedKeeps
  <2> QED BY <2>2, <2>3, Zenon DEF EntryInv, expr, added
<1>3. CASE SkipPaused
  <2>1. entry' = Planned(entry, now) /\ scene' = scene
    BY <1>3, Zenon DEF SkipPaused
  <2>2. IsEntry(entry') /\ entry'.sched = entry.sched
    BY <2>1, PlannedKeeps DEF EntryInv
  <2> QED BY <2>1, <2>2, Zenon DEF EntryInv, expr, added
<1>4. CASE Tick \/ UNCHANGED vars
  <2>1. entry' = entry /\ scene' = scene
    BY <1>4, Zenon DEF Tick, vars
  <2> QED BY <2>1, Zenon DEF EntryInv, expr, added
<1> QED BY <1>1, <1>2, <1>3, <1>4 DEF Next

LEMMA EntryAsParsed == EntryInv => FieldsAsWritten
<1> SUFFICES ASSUME EntryInv, added, expr.kind = "fields",
                    NEW f \in DOMAIN Limits,
                    \A k \in DOMAIN expr[f] : ~hashed(expr[f][k])
             PROVE  entry.sched[f] \ {starBit}
                      = UNION {Walk(expr[f][k], Limits[f]) : k \in DOMAIN expr[f]}
  BY Zenon DEF FieldsAsWritten
<1>1. entry.sched = parse(expr) /\ parse(expr) # Rejected
  <2>1. Parse(expr) = parse(expr)
    BY Zenon DEF Parse, ParseOne
  <2> QED BY <2>1, Zenon DEF EntryInv, added
<1>2. f \in Names
  BY Bounds, Zenon DEF Limits
<1>3. \A k \in DOMAIN expr[f] : Written(expr[f][k])
  <2>1. \A k \in DOMAIN expr[f] : expr[f][k].step \in Nat \union {NoStep}
    BY ScenesAssumption, Zenon DEF EntryInv, expr, Limits
  <2> QED BY <2>1, Zenon DEF Written
<1> DEFINE bits == fieldBits(expr)[f]
<1>4. /\ bits # Bad
      /\ parse(expr)[f] \ {starBit} = (IF f = "Dow" THEN NormalizeDOW(bits) ELSE bits) \ {starBit}
  BY <1>1, <1>2, ParsedField, Zenon
<1>5. bits = IF f \in {"Dom", "Dow"} /\ expr[f] = <<>> THEN {}
             ELSE getFieldWithHash(expr[f], Limits[f], expr.hash)
  BY Zenon DEF fieldBits, Limits
<1>6. CASE f \in {"Dom", "Dow"} /\ expr[f] = <<>>
  <2>1. bits = {} /\ DOMAIN expr[f] = {}
    BY <1>5, <1>6
  <2> HIDE DEF bits
  <2>2. NormalizeDOW(bits) = {}
    BY <2>1 DEF NormalizeDOW
  <2> QED BY <1>1, <1>4, <2>1, <2>2
<1>7. CASE ~(f \in {"Dom", "Dow"} /\ expr[f] = <<>>)
  <2>1. bits = getFieldWithHash(expr[f], allBounds(expr.options)[f], expr.hash)
    BY <1>5, <1>7, Zenon DEF Limits
  <2> HIDE DEF bits
  <2>2. getFieldWithHash(expr[f], allBounds(expr.options)[f], expr.hash) # Bad
    BY <1>4, <2>1, Zenon
  <2>3. AsWritten(getFieldWithHash(expr[f], allBounds(expr.options)[f], expr.hash),
                  expr[f], f, expr.options)
    BY <1>2, <1>3, <2>2, ListAsWritten, Zenon
  <2>4. AsWritten(bits, expr[f], f, expr.options)
    BY <2>1, <2>3, Zenon
  <2> QED BY <1>1, <1>4, <2>4, Zenon DEF AsWritten, Limits
<1> QED BY <1>6, <1>7

\* Every field of an accepted expression holds the values its items select:
\* ranges that wrap around go on, and no step counts Sunday twice.
THEOREM FieldsAlwaysAsWritten == Spec => []FieldsAsWritten
<1>1. Init => EntryInv
  BY EntryStays
<1>2. EntryInv /\ [Next]_vars => EntryInv'
  BY EntryStep
<1>3. EntryInv => FieldsAsWritten
  BY EntryAsParsed
<1> QED BY <1>1, <1>2, <1>3, PTL DEF Spec

\* The number with quotient q and remainder a.
Quoted(n, q, a) == (q * n) + a

LEMMA Unquoted ==
  ASSUME NEW n \in Nat \ {0}, NEW h \in Nat
  PROVE  h % n \in 0..n - 1 /\ h \div n \in Nat /\ h = Quoted(n, h \div n, h % n)
BY SMT DEF Quoted

LEMMA QuotedParts ==
  ASSUME NEW n \in Nat \ {0}, NEW q \in Nat, NEW a \in 0..n - 1
  PROVE  Quoted(n, q, a) % n = a /\ Quoted(n, q, a) \div n = q
BY SMT DEF Quoted

LEMMA QuotedBelow ==
  ASSUME NEW n \in Nat \ {0}, NEW m \in Nat \ {0}, NEW q \in 0..m - 1, NEW a \in 0..n - 1
  PROVE  Quoted(n, q, a) \in 0..n * m - 1
<1>1. q * n <= (m - 1) * n
  BY SMT
<1> QED BY <1>1, SMT DEF Quoted

\* Its quotient and remainder, again.
Parted(n, m, h, q, a) == h \in 0..n * m - 1 /\ h % n = a /\ h \div n = q

LEMMA QuotedParted ==
  ASSUME NEW n \in Nat \ {0}, NEW m \in Nat \ {0}
  PROVE  \A q \in 0..m - 1, a \in 0..n - 1 : Parted(n, m, Quoted(n, q, a), q, a)
<1>1. ASSUME NEW q \in 0..m - 1, NEW a \in 0..n - 1
      PROVE  Parted(n, m, Quoted(n, q, a), q, a)
  <2>1. q \in Nat
    OBVIOUS
  <2> QED BY <2>1, QuotedParts, QuotedBelow DEF Parted
<1> QED BY <1>1

LEMMA QuotientBelow ==
  ASSUME NEW n \in Nat \ {0}, NEW m \in Nat \ {0}, NEW h \in 0..n * m - 1
  PROVE  h \in Nat /\ h \div n \in 0..m - 1
<1>1. n * m \in Nat
  BY SMT
<1>2. h \in Nat /\ h < n * m
  BY <1>1
<1>3. h \div n < m
  BY <1>2, SMT
<1> QED BY <1>2, <1>3, Unquoted

Lands(h, n, S, q, k) == IF h % n \in S THEN h \div n = q ELSE h % n = k

Landing(n, m, S, q, k) == {h \in 0..n * m - 1 : Lands(h, n, S, q, k)}

LEMMA LandingMoves ==
  ASSUME NEW n \in Nat \ {0}, NEW m \in Nat \ {0}, NEW S,
         NEW q1 \in 0..m - 1, NEW k1 \in (0..n - 1) \ S,
         NEW q2 \in 0..m - 1, NEW k2 \in (0..n - 1) \ S
  PROVE  Cardinality(Landing(n, m, S, q1, k1)) <= Cardinality(Landing(n, m, S, q2, k2))
<1> DEFINE A == Landing(n, m, S, q1, k1)
           B == Landing(n, m, S, q2, k2)
           to(h) == IF h % n \in S THEN Quoted(n, q2, h % n) ELSE Quoted(n, h \div n, k2)
           move == [h \in A |-> to(h)]
<1>1. n * m \in Nat
  BY SMT
<1>2. IsFiniteSet(B)
  <2>1. IsFiniteSet(0..n * m - 1)
    BY <1>1, FS_Interval
  <2>2. B \in SUBSET (0..n * m - 1)
    BY DEF Landing
  <2> QED BY <2>1, <2>2, FS_Subset
<1>3. ASSUME NEW h \in A
      PROVE  /\ h % n \in 0..n - 1 /\ h \div n \in 0..m - 1
             /\ h = Quoted(n, h \div n, h % n)
             /\ h % n \in S => h \div n = q1
             /\ h % n \notin S => h % n = k1
  <2>1. h \in 0..n * m - 1 /\ Lands(h, n, S, q1, k1)
    BY <1>3 DEF Landing
  <2>2. h \in Nat /\ h \div n \in 0..m - 1
    BY <2>1, QuotientBelow
  <2> QED BY <2>1, <2>2, Unquoted DEF Lands
<1>4. ASSUME NEW h \in A
      PROVE  /\ to(h) \in B
             /\ h % n \in S => to(h) % n = h % n
             /\ h % n \notin S => to(h) % n = k2 /\ to(h) \div n = h \div n
  <2>1. CASE h % n \in S
    <3>1. Parted(n, m, to(h), q2, h % n)
      BY <1>3, <2>1, QuotedParted, Zenon
    <3> HIDE DEF A, to
    <3> QED BY <2>1, <3>1 DEF Parted, Landing, Lands
  <2>2. CASE h % n \notin S
    <3>1. Parted(n, m, to(h), h \div n, k2)
      BY <1>3, <2>2, QuotedParted, Zenon
    <3> HIDE DEF A, to
    <3> QED BY <2>2, <3>1 DEF Parted, Landing, Lands
  <2> QED BY <2>1, <2>2
<1>5. ASSUME NEW g \in A, NEW h \in A, to(g) = to(h)
      PROVE  g = h
  <2>1. g % n \in S <=> h % n \in S
    <3> HIDE DEF A, B, to
    <3> QED BY <1>4, <1>5
  <2>2. CASE h % n \in S
    <3>1. g % n = h % n /\ g \div n = h \div n
      BY <1>3, <1>4, <1>5, <2>1, <2>2
    <3> QED BY <1>3, <3>1, Zenon
  <2>3. CASE h % n \notin S
    <3>1. g % n = h % n /\ g \div n = h \div n
      BY <1>3, <1>4, <1>5, <2>1, <2>3
    <3> QED BY <1>3, <3>1, Zenon
  <2> QED BY <2>2, <2>3
<1>6. move \in Injection(A, B)
  <2> HIDE DEF A, B, to
  <2>1. move \in [A -> B]
    BY <1>4
  <2>2. IsInjective(move)
    BY <1>5 DEF IsInjective
  <2> QED BY <2>1, <2>2 DEF Injection
<1> QED
  <2> HIDE DEF A, B, move
  <2>1. Cardinality(A) <= Cardinality(B)
    BY <1>2, <1>6, FS_Injection
  <2> QED BY <2>1 DEF A, B

\* Sets that hash values choose by remainder and quotient: 
LEMMA LandingEven ==
  ASSUME NEW n \in Nat \ {0}, NEW m \in Nat \ {0}, NEW S,
         NEW q1 \in 0..m - 1, NEW k1 \in (0..n - 1) \ S,
         NEW q2 \in 0..m - 1, NEW k2 \in (0..n - 1) \ S
  PROVE  Cardinality(Landing(n, m, S, q1, k1)) = Cardinality(Landing(n, m, S, q2, k2))
<1>1. ASSUME NEW q \in 0..m - 1, NEW k \in (0..n - 1) \ S
      PROVE  Cardinality(Landing(n, m, S, q, k)) \in Nat
  <2>1. n * m \in Nat
    BY SMT
  <2>2. IsFiniteSet(0..n * m - 1)
    BY <2>1, FS_Interval
  <2>3. Landing(n, m, S, q, k) \in SUBSET (0..n * m - 1)
    BY DEF Landing
  <2> QED BY <2>2, <2>3, FS_Subset, FS_CardinalityType
<1>2. /\ Cardinality(Landing(n, m, S, q1, k1)) <= Cardinality(Landing(n, m, S, q2, k2))
      /\ Cardinality(Landing(n, m, S, q2, k2)) <= Cardinality(Landing(n, m, S, q1, k1))
  BY LandingMoves
<1> QED BY <1>1, <1>2

-----------------------------------------------------------------------------
\* The k-th value of a cycle that begins at first.
Distinct(r)        == IF isDowBounds(r) THEN DaysIn ELSE size(r)
Place(r, first, k) == ((first + k - r.min) % Distinct(r)) + r.min

\* The range of an item with an H and how far it goes.
First(i, r) == IF i.form = "H" THEN r.min ELSE i.low
Final(i, r) == IF i.form = "H" THEN r.max ELSE i.high
Reach(i, r) == Hops(First(i, r), Final(i, r), Distinct(r))

\* Two numbers of a field, and the cycle of its distinct values.
Ends(r, first, last) ==
    /\ Field(r) /\ r.min <= r.max
    /\ first \in r.min..r.max /\ last \in r.min..r.max

LEMMA DistinctFacts ==
  ASSUME NEW r, NEW first, NEW last, Ends(r, first, last)
  PROVE  /\ Distinct(r) \in Nat \ {0} /\ r.min \in Nat /\ first \in Nat /\ last \in Nat
         /\ first - r.min \in 0..Distinct(r) /\ last - r.min \in 0..Distinct(r)
         /\ isDowBounds(r) => r.min = 0 /\ r.max = DaysIn /\ Distinct(r) = DaysIn
                              /\ size(r) = DaysIn + 1
         /\ ~isDowBounds(r) => r.max = r.min + Distinct(r) - 1 /\ size(r) = Distinct(r)
BY DaysPositive DEF Ends, Distinct, Field, isDowBounds, size

\* How far a range goes on the cycle.
LEMMA ReachFacts ==
  ASSUME NEW r, NEW first, NEW last, Ends(r, first, last)
  PROVE  /\ Hops(first, last, Distinct(r)) \in 0..Distinct(r) - 1
         /\ last - first = Distinct(r) => Hops(first, last, Distinct(r)) = Distinct(r) - 1
         /\ first <= last /\ last - first # Distinct(r) => Hops(first, last, Distinct(r)) = last - first
         /\ first > last /\ first - last < Distinct(r) => Hops(first, last, Distinct(r)) = Distinct(r) + last - first
         /\ first - last = Distinct(r) => Hops(first, last, Distinct(r)) = 0
<1> DEFINE n == Distinct(r)
<1>1. /\ n \in Nat \ {0} /\ first \in Nat /\ last \in Nat
      /\ last - first \in -n..n
  BY DistinctFacts
<1> HIDE DEF n
<1>2. CASE last - first = n
  BY <1>1, <1>2 DEF Hops, n
<1>3. CASE first <= last /\ last - first # n
  <2>1. (last - first) % n = last - first
    BY <1>1, <1>3, ModSmall
  <2> QED BY <1>1, <1>3, <2>1 DEF Hops, n
<1>4. CASE first > last
  <2>1. (last - first) % n = last - first + n
    BY <1>1, <1>4, ModBelow
  <2> QED BY <1>1, <1>4, <2>1 DEF Hops, n
<1> QED BY <1>1, <1>2, <1>3, <1>4

\* The values of a cycle are different.
LEMMA PlaceFacts ==
  ASSUME NEW r, NEW first, NEW last, Ends(r, first, last), NEW k \in 0..Distinct(r) - 1
  PROVE  /\ Place(r, first, k) \in r.min..r.min + Distinct(r) - 1
         /\ Place(r, first, k) = IF first + k < r.min + Distinct(r) THEN first + k
                                 ELSE first + k - Distinct(r)
<1>1. /\ Distinct(r) \in Nat \ {0} /\ r.min \in Nat /\ first \in Nat
      /\ first - r.min \in 0..Distinct(r)
  BY DistinctFacts
<1>2. Once(first + k - r.min, Distinct(r))
  BY <1>1 DEF Once
<1>3. (first + k - r.min) % Distinct(r) = Reduced(first + k - r.min, Distinct(r))
  BY <1>2, ModOnce, Zenon
<1> QED BY <1>1, <1>3 DEF Place, Reduced

LEMMA PlaceOnce ==
  ASSUME NEW r, NEW first, NEW last, Ends(r, first, last),
         NEW j \in 0..Distinct(r) - 1, NEW k \in 0..Distinct(r) - 1,
         Place(r, first, j) = Place(r, first, k)
  PROVE  j = k
<1>1. /\ Distinct(r) \in Nat \ {0} /\ r.min \in Nat /\ first \in Nat
  BY DistinctFacts
<1>2. /\ Place(r, first, k) = IF first + k < r.min + Distinct(r) THEN first + k
                              ELSE first + k - Distinct(r)
      /\ Place(r, first, j) = IF first + j < r.min + Distinct(r) THEN first + j
                              ELSE first + j - Distinct(r)
  BY PlaceFacts
<1> QED BY <1>1, <1>2

\* The values an H may take.
LEMMA HashWalk ==
  ASSUME NEW i, NEW r, i.form \in {"H", "Hrange"}
  PROVE  Walk(i, r) = {Place(r, First(i, r), k) : k \in {h \in 0..Reach(i, r) : h % 1 = 0}}
<1>1. i.form # "one" /\ i.form # "star" /\ hashed(i)
  BY DEF hashed
<1>2. (IF i.form \in {"star", "H"} THEN r.min ELSE i.low) = First(i, r)
  BY <1>1 DEF First
<1>3. (IF i.step = NoStep \/ hashed(i) THEN 1 ELSE i.step) = 1
  BY <1>1
<1>4. (CASE i.form \in {"star", "H"} -> r.max
         [] i.form = "one" /\ i.step = NoStep -> i.low
         [] i.form = "one" /\ i.step # NoStep -> LastStep(First(i, r), r)
         [] OTHER -> i.high) = Final(i, r)
  <2>1. CASE i.form = "H"
    BY <2>1, <1>1, Zenon DEF Final
  <2>2. CASE i.form = "Hrange"
    <3>1. i.form # "H"
      BY <2>2
    <3> QED BY <2>2, <3>1, <1>1, Zenon DEF Final
  <2> QED BY <2>1, <2>2
<1> QED BY <1>2, <1>3, <1>4, Zenon DEF Walk, Place, Distinct, Hops, Reach

LEMMA HashWalkPlaces ==
  ASSUME NEW i, NEW r, i.form \in {"H", "Hrange"}, Ends(r, First(i, r), Final(i, r))
  PROVE  /\ Walk(i, r) = {Place(r, First(i, r), k) : k \in 0..Reach(i, r)}
         /\ Cardinality(Walk(i, r)) = Reach(i, r) + 1
<1> DEFINE P(k) == Place(r, First(i, r), k)
           n    == Reach(i, r)
<1>1. n \in 0..Distinct(r) - 1 /\ Distinct(r) \in Nat
  BY ReachFacts, DistinctFacts DEF Reach
<1>2. {h \in 0..n : h % 1 = 0} = 0..n
  BY <1>1, ModRange
<1>3. Walk(i, r) = {P(k) : k \in 0..n}
  BY <1>2, HashWalk
<1>4. ASSUME NEW j \in 0..n, NEW k \in 0..n, P(j) = P(k)
      PROVE  j = k
  <2>1. j \in 0..Distinct(r) - 1 /\ k \in 0..Distinct(r) - 1
    BY <1>1
  <2> QED BY <1>4, <2>1, PlaceOnce
<1>5. Cardinality(0..n) = n + 1 /\ IsFiniteSet(0..n)
  BY <1>1, FS_Interval
<1> DEFINE f == [k \in 0..n |-> P(k)]
<1> HIDE DEF P, n
<1>6. f \in Surjection(0..n, {P(k) : k \in 0..n})
  BY DEF Surjection
<1>7. IsInjective(f)
  BY <1>4 DEF IsInjective
<1>8. f \in Injection(0..n, {P(k) : k \in 0..n})
  BY <1>6, <1>7 DEF Injection, Surjection
<1>9. Cardinality({P(k) : k \in 0..n}) = n + 1
  BY <1>5, <1>6, <1>8, FS_Surjection
<1> QED BY <1>3, <1>9 DEF P, n

-----------------------------------------------------------------------------
\* An H without a step: the hash picks one number of the range.
Norm(r, S) == IF isDowBounds(r) THEN NormalizeDOW(S) ELSE S

\* Sunday is in the range with both of its numbers.
Twice(r, first, last) == isDowBounds(r) /\ (first > last \/ (first = 0 /\ last = DaysIn))

LEMMA RangeSize ==
  ASSUME NEW r, NEW first, NEW last, Ends(r, first, last)
  PROVE  LET n == cyclicRangeSize(first, last, r)
             m == Hops(first, last, Distinct(r))
         IN  /\ n \in Nat \ {0}
             /\ n = IF Twice(r, first, last) THEN m + 2 ELSE m + 1
<1> DEFINE d == Distinct(r)
           m == Hops(first, last, Distinct(r))
           n == cyclicRangeSize(first, last, r)
<1>1. /\ d \in Nat \ {0} /\ r.min \in Nat /\ first \in Nat /\ last \in Nat /\ r.max \in Nat
      /\ first \in r.min..r.max /\ last \in r.min..r.max
      /\ isDowBounds(r) => r.min = 0 /\ r.max = DaysIn /\ d = DaysIn
      /\ ~isDowBounds(r) => r.max = r.min + d - 1
  BY DistinctFacts DEF Ends, Field
<1>2. /\ last - first = d => m = d - 1
      /\ first <= last /\ last - first # d => m = last - first
      /\ first > last /\ first - last < d => m = d + last - first
      /\ first - last = d => m = 0
  BY ReachFacts
<1>3. n = IF first > last THEN r.max - first + 1 + last - r.min + 1 ELSE last - first + 1
  BY DEF cyclicRangeSize
<1>4. Twice(r, first, last) <=> isDowBounds(r) /\ (first > last \/ (first = 0 /\ last = DaysIn))
  BY DEF Twice
<1> HIDE DEF d, m, n
<1>5. n \in Nat \ {0} /\ n = IF Twice(r, first, last) THEN m + 2 ELSE m + 1
  <2>1. CASE first > last
    BY <1>1, <1>2, <1>3, <1>4, <2>1
  <2>2. CASE first <= last
    BY <1>1, <1>2, <1>3, <1>4, <2>2
  <2> QED BY <1>1, <2>1, <2>2
<1> QED BY <1>5 DEF m, n

\* The number a hash hits, before Sunday is looked at.
Hit(r, first, a) == ((first + a - r.min) % size(r)) + r.min

LEMMA HitFacts ==
  ASSUME NEW r, NEW first, NEW last, Ends(r, first, last),
         NEW a \in 0..cyclicRangeSize(first, last, r) - 1
  PROVE  /\ Hit(r, first, a) = IF first + a <= r.max THEN first + a
                               ELSE first + a - size(r)
         /\ Hit(r, first, a) \in r.min..r.max
<1>1. /\ r.min \in Nat /\ first \in Nat /\ last \in Nat /\ r.max \in Nat
      /\ first \in r.min..r.max /\ last \in r.min..r.max
      /\ size(r) = r.max - r.min + 1 /\ size(r) \in Nat \ {0}
  BY DEF Ends, Field, size
<1>2. first + a - r.min < 2 * size(r) /\ a \in Nat
  BY <1>1 DEF cyclicRangeSize
<1>3. Once(first + a - r.min, size(r))
  BY <1>1, <1>2 DEF Once
<1>4. (first + a - r.min) % size(r) = Reduced(first + a - r.min, size(r))
  BY <1>3, ModOnce, Zenon
<1> QED BY <1>1, <1>2, <1>4 DEF Hit, Reduced

LEMMA SingleOnce ==
  ASSUME NEW r, NEW first, NEW last, Ends(r, first, last), ~Twice(r, first, last),
         NEW h \in Nat
  PROVE  Norm(r, getHashSingleBit(first, last, r, h))
            = {Place(r, first, h % cyclicRangeSize(first, last, r))}
<1> DEFINE n == cyclicRangeSize(first, last, r)
           a == h % n
           v == Hit(r, first, a)
<1>1. n \in Nat \ {0} /\ n = Hops(first, last, Distinct(r)) + 1
      /\ Hops(first, last, Distinct(r)) \in 0..Distinct(r) - 1
  BY RangeSize, ReachFacts
<1>2. a \in 0..n - 1
  BY <1>1, ModRange
<1>3. a \in 0..Distinct(r) - 1
  <2> HIDE DEF a, n
  <2> QED BY <1>1, <1>2, DistinctFacts
<1>4. /\ v = IF first + a <= r.max THEN first + a ELSE first + a - size(r)
      /\ v \in r.min..r.max
  BY <1>2, HitFacts
<1>5. Place(r, first, a) = IF first + a < r.min + Distinct(r) THEN first + a
                           ELSE first + a - Distinct(r)
  BY <1>3, PlaceFacts
<1>6. getHashSingleBit(first, last, r, h)
        = IF v = DaysIn /\ isDowBounds(r) THEN {dowHashSunday7(first, last, n, h)} ELSE {v}
  BY DEF getHashSingleBit, Hit
<1>7. /\ first \in Nat /\ last \in Nat /\ r.max \in Nat /\ r.min \in Nat
      /\ first \in r.min..r.max /\ last \in r.min..r.max
      /\ isDowBounds(r) => r.min = 0 /\ r.max = DaysIn /\ Distinct(r) = DaysIn
      /\ ~isDowBounds(r) => r.max = r.min + Distinct(r) - 1 /\ size(r) = Distinct(r)
  BY DistinctFacts DEF Ends, Field
<1>8. isDowBounds(r) => first <= last /\ n = last - first + 1
  BY <1>7 DEF Twice, cyclicRangeSize
<1>9. CASE ~isDowBounds(r)
  <2>1. r.max = r.min + Distinct(r) - 1 /\ size(r) = Distinct(r) /\ Distinct(r) \in Nat
    BY <1>7, <1>9, DistinctFacts
  <2>2. v = Place(r, first, a)
    <3> HIDE DEF a, v, n
    <3> QED BY <1>3, <1>4, <1>5, <1>7, <2>1
  <2> QED BY <1>6, <1>9, <2>2 DEF Norm
<1>10. CASE isDowBounds(r) /\ v # DaysIn
  <2>1. v = Place(r, first, a) /\ v # DaysIn
    <3> HIDE DEF a, v, n
    <3> QED BY <1>2, <1>4, <1>5, <1>7, <1>8, <1>10, DaysPositive
  <2>2. getHashSingleBit(first, last, r, h) = {Place(r, first, a)}
    BY <1>6, <1>10, <2>1
  <2> HIDE DEF a, v, n
  <2>3. DaysIn \notin {Place(r, first, a)}
    BY <2>1
  <2> QED BY <2>2, <2>3, <1>10, NoSunday DEF Norm, a, n
<1>11. CASE isDowBounds(r) /\ v = DaysIn
  <2>1. first + a = DaysIn /\ first # 0 /\ Place(r, first, a) = 0
    <3> HIDE DEF a, v, n
    <3> QED BY <1>2, <1>4, <1>5, <1>7, <1>8, <1>11, DaysPositive DEF Twice
  <2>2. dowHashSunday7(first, last, n, h) = 0
    BY <1>8, <1>11, <2>1 DEF dowHashSunday7
  <2>3. getHashSingleBit(first, last, r, h) = {0}
    BY <1>6, <1>11, <2>2
  <2>4. NormalizeDOW({0}) = {0}
    BY DaysPositive, NoSunday
  <2> QED BY <2>1, <2>3, <2>4, <1>11 DEF Norm
<1> QED BY <1>9, <1>10, <1>11

\* With both numbers of Sunday in the range, the hashes that hit the second go
\* on to the other numbers in turn.
Second7(first)   == DaysIn - first
Skip(first, k)   == IF k >= Second7(first) THEN k + 1 ELSE k

LEMMA HitSkip ==
  ASSUME NEW r, NEW first, NEW last, Ends(r, first, last), Twice(r, first, last),
         NEW k \in 0..Hops(first, last, Distinct(r))
  PROVE  /\ Skip(first, k) \in (0..cyclicRangeSize(first, last, r) - 1) \ {Second7(first)}
         /\ Second7(first) \in 0..cyclicRangeSize(first, last, r) - 1
         /\ Hit(r, first, Skip(first, k)) = Place(r, first, k)
         /\ Place(r, first, k) \in 0..DaysIn - 1
<1> DEFINE n == cyclicRangeSize(first, last, r)
           m == Hops(first, last, Distinct(r))
<1>1. n \in Nat \ {0} /\ n = m + 2 /\ m \in 0..Distinct(r) - 1
  BY RangeSize, ReachFacts
<1>2. /\ first \in Nat /\ last \in Nat /\ r.max = DaysIn /\ r.min = 0
      /\ first \in 0..DaysIn /\ last \in 0..DaysIn
      /\ Distinct(r) = DaysIn /\ size(r) = DaysIn + 1
  BY DistinctFacts DEF Ends, Field, Twice
<1>3. n = IF first > last THEN DaysIn - first + 1 + last + 1 ELSE DaysIn + 1
  BY <1>2, DaysPositive DEF cyclicRangeSize, Twice
<1>4. k \in 0..Distinct(r) - 1
  BY <1>1, <1>2, DaysPositive
<1>5. /\ Place(r, first, k) \in 0..DaysIn - 1
      /\ Place(r, first, k) = IF first + k < DaysIn THEN first + k ELSE first + k - DaysIn
  BY <1>2, <1>4, PlaceFacts, DaysPositive
<1> HIDE DEF n, m
<1>6. Skip(first, k) \in (0..n - 1) \ {Second7(first)} /\ Second7(first) \in 0..n - 1
  BY <1>1, <1>2, <1>3, DaysPositive DEF Skip, Second7, Twice, m
<1>7. Hit(r, first, Skip(first, k)) = IF first + Skip(first, k) <= DaysIn THEN first + Skip(first, k)
                                      ELSE first + Skip(first, k) - (DaysIn + 1)
  BY <1>2, <1>6, HitFacts DEF n
<1>8. Hit(r, first, Skip(first, k)) = Place(r, first, k)
  BY <1>1, <1>2, <1>5, <1>7, DaysPositive DEF Skip, Second7, m
<1> QED BY <1>5, <1>6, <1>8 DEF n

LEMMA HitOnce ==
  ASSUME NEW r, NEW first, NEW last, Ends(r, first, last),
         cyclicRangeSize(first, last, r) <= size(r),
         NEW a \in 0..cyclicRangeSize(first, last, r) - 1,
         NEW b \in 0..cyclicRangeSize(first, last, r) - 1,
         Hit(r, first, a) = Hit(r, first, b)
  PROVE  a = b
<1> DEFINE n == cyclicRangeSize(first, last, r)
<1>1. /\ first \in Nat /\ r.max \in Nat /\ size(r) \in Nat /\ n \in Nat /\ n <= size(r)
  BY RangeSize DEF Ends, Field, size
<1>2. /\ Hit(r, first, a) = IF first + a <= r.max THEN first + a ELSE first + a - size(r)
      /\ Hit(r, first, b) = IF first + b <= r.max THEN first + b ELSE first + b - size(r)
  BY HitFacts
<1>3. a \in Nat /\ b \in Nat /\ a < size(r) /\ b < size(r)
  <2> HIDE DEF n
  <2>1. a \in 0..n - 1 /\ b \in 0..n - 1
    BY DEF n
  <2> QED BY <1>1, <2>1
<1> DEFINE u == Hit(r, first, a)
           s == size(r)
<1>4. u = IF first + a <= r.max THEN first + a ELSE first + a - s
  BY <1>2
<1>5. u = IF first + b <= r.max THEN first + b ELSE first + b - s
  BY <1>2
<1> HIDE DEF n, u, s
<1>6. s \in Nat /\ a < s /\ b < s
  BY <1>1, <1>3 DEF s
<1> QED BY <1>1, <1>3, <1>4, <1>5, <1>6

LEMMA SundayInTurn ==
  ASSUME NEW r, NEW first, NEW last, Ends(r, first, last), Twice(r, first, last),
         NEW n, n = cyclicRangeSize(first, last, r),
         NEW h \in Nat, h \div n \in 0..n - 2
  PROVE  dowHashSunday7(first, last, n, h) = Hit(r, first, Skip(first, h \div n))
<1> DEFINE j == h \div n
<1>1. n \in Nat \ {0} /\ n >= 2
  BY RangeSize, ReachFacts DEF Twice
<1>2. first \in 0..DaysIn /\ r.min = 0 /\ size(r) = DaysIn + 1 /\ ~(first <= last /\ first # 0)
  <2>1. isDowBounds(r) /\ (first > last \/ (first = 0 /\ last = DaysIn)) /\ Ends(r, first, last)
    BY DEF Twice
  <2>2. r.min = 0 /\ r.max = DaysIn /\ size(r) = DaysIn + 1 /\ first \in Nat /\ last \in Nat
    BY <2>1, DistinctFacts
  <2>3. first \in r.min..r.max
    BY <2>1 DEF Ends
  <2> QED BY <2>1, <2>2, <2>3
<1>3. (DaysIn - first) % (DaysIn + 1) = Second7(first)
  BY <1>2, ModSmall, DaysPositive DEF Second7
<1>4. j % (n - 1) = j /\ j \in Nat
  <2>1. n - 1 \in Nat \ {0} /\ j \in Int /\ 0 <= j /\ j < n - 1
    <3> HIDE DEF j
    <3>1. j \in 0..n - 2
      BY DEF j
    <3> QED BY <1>1, <3>1
  <2> HIDE DEF j
  <2> QED BY <2>1, ModSmall
<1>5. dowHashSunday7(first, last, n, h) = (first + Skip(first, j)) % (DaysIn + 1)
  <2> HIDE DEF j
  <2>1. dowHashSunday7(first, last, n, h)
          = (first + (IF j % (n - 1) >= (DaysIn - first) % (DaysIn + 1)
                      THEN (j % (n - 1)) + 1 ELSE j % (n - 1))) % (DaysIn + 1)
    BY <1>2, Zenon DEF dowHashSunday7, j
  <2> QED BY <1>3, <1>4, <2>1 DEF Skip
<1> HIDE DEF j
<1>6. Skip(first, j) \in Nat
  BY <1>4 DEF Skip
<1>7. Hit(r, first, Skip(first, j)) = ((first + Skip(first, j) - 0) % (DaysIn + 1)) + 0
  BY <1>2, Zenon DEF Hit
<1> DEFINE y == first + Skip(first, j)
<1>8. y \in Int /\ first + Skip(first, j) - 0 = y
  BY <1>2, <1>6
<1>9. (y % (DaysIn + 1)) + 0 = y % (DaysIn + 1)
  <2> HIDE DEF y
  <2>1. y % (DaysIn + 1) \in 0..DaysIn + 1 - 1
    BY <1>8, DaysPositive, ModRange
  <2> QED BY <2>1, DaysPositive
<1>10. Hit(r, first, Skip(first, j)) = y % (DaysIn + 1)
  <2> HIDE DEF y
  <2> QED BY <1>7, <1>8, <1>9
<1> QED BY <1>5, <1>10, Zenon DEF j

\* The hashes that choose the k-th value.
SingleSpecial(r, first, last) == IF Twice(r, first, last) THEN {Second7(first)} ELSE {}
SingleQuotient(r, first, last, k) == IF Twice(r, first, last) THEN k ELSE 0
SingleRemainder(r, first, last, k) == IF Twice(r, first, last) THEN Skip(first, k) ELSE k
SingleRounds(n) == IF n = 1 THEN 1 ELSE n - 1

LEMMA SingleLands ==
  ASSUME NEW r, NEW first, NEW last, Ends(r, first, last),
         NEW n, n = cyclicRangeSize(first, last, r),
         NEW k \in 0..Hops(first, last, Distinct(r)),
         NEW S, S = SingleSpecial(r, first, last),
         NEW q, q = SingleQuotient(r, first, last, k),
         NEW x, x = SingleRemainder(r, first, last, k)
  PROVE  /\ n \in Nat \ {0} /\ SingleRounds(n) \in Nat \ {0}
         /\ q \in 0..SingleRounds(n) - 1 /\ x \in (0..n - 1) \ S
         /\ \A h \in 0..n * SingleRounds(n) - 1 :
               Place(r, first, k) \in Norm(r, getHashSingleBit(first, last, r, h)) <=> Lands(h, n, S, q, x)
<1> DEFINE m == Hops(first, last, Distinct(r))
           P(j) == Place(r, first, j)
<1>1. /\ n \in Nat \ {0} /\ m \in 0..Distinct(r) - 1 /\ Distinct(r) \in Nat
      /\ n = IF Twice(r, first, last) THEN m + 2 ELSE m + 1
  BY RangeSize, ReachFacts, DistinctFacts
<1>2. SingleRounds(n) \in Nat \ {0}
  BY <1>1 DEF SingleRounds
<1>3. ASSUME NEW j \in 0..m, P(j) = P(k)
      PROVE  j = k
  <2>1. j \in 0..Distinct(r) - 1 /\ k \in 0..Distinct(r) - 1
    BY <1>1
  <2> QED BY <1>3, <2>1, PlaceOnce
<1>4. CASE ~Twice(r, first, last)
  <2>1. n = m + 1 /\ S = {} /\ q = 0 /\ x = k
    BY <1>1, <1>4 DEF SingleSpecial, SingleQuotient, SingleRemainder
  <2>2. ASSUME NEW h \in 0..n * SingleRounds(n) - 1
        PROVE  P(k) \in Norm(r, getHashSingleBit(first, last, r, h)) <=> Lands(h, n, S, q, x)
    <3>1. h \in Nat /\ h % n \in 0..n - 1
      BY <1>1, <1>2, QuotientBelow, Unquoted
    <3>2. Norm(r, getHashSingleBit(first, last, r, h)) = {P(h % n)}
      BY <1>4, <3>1, SingleOnce
    <3>3. h % n \in 0..m
      BY <3>1, <2>1, <1>1
    <3> HIDE DEF P, m
    <3> QED BY <1>3, <2>1, <3>2, <3>3 DEF Lands
  <2>3. q \in 0..SingleRounds(n) - 1 /\ x \in (0..n - 1) \ S
    BY <1>1, <1>2, <2>1
  <2> QED BY <1>1, <1>2, <2>2, <2>3
<1>5. CASE Twice(r, first, last)
  <2>1. n = m + 2 /\ S = {Second7(first)} /\ q = k /\ x = Skip(first, k) /\ SingleRounds(n) = n - 1
    BY <1>1, <1>5 DEF SingleSpecial, SingleQuotient, SingleRemainder, SingleRounds
  <2>2. /\ Distinct(r) = DaysIn /\ size(r) = DaysIn + 1 /\ r.max = DaysIn
        /\ first \in Nat /\ first \in 0..DaysIn /\ isDowBounds(r) /\ n <= DaysIn + 1
    <3>1. isDowBounds(r)
      BY <1>5 DEF Twice
    <3>2. r.min = 0 /\ r.max = DaysIn /\ Distinct(r) = DaysIn /\ size(r) = DaysIn + 1 /\ first \in Nat
      BY <3>1, DistinctFacts
    <3>3. first \in r.min..r.max
      BY DEF Ends
    <3>4. n = m + 2 /\ m \in 0..DaysIn - 1
      BY <1>1, <2>1, <3>2
    <3> HIDE DEF m
    <3>5. n <= DaysIn + 1
      BY <3>4, DaysPositive
    <3> QED BY <3>1, <3>2, <3>3, <3>5
  <2>3. ASSUME NEW j \in 0..m
        PROVE  /\ Skip(first, j) \in (0..n - 1) \ {Second7(first)}
               /\ Hit(r, first, Skip(first, j)) = P(j)
               /\ P(j) \in 0..DaysIn - 1
    BY <1>5, HitSkip
  <2>4. Second7(first) \in 0..n - 1
    BY <1>5, HitSkip
  <2>5. ASSUME NEW h \in 0..n * SingleRounds(n) - 1
        PROVE  P(k) \in Norm(r, getHashSingleBit(first, last, r, h)) <=> Lands(h, n, S, q, x)
    <3> DEFINE a == h % n
               v == Hit(r, first, a)
    <3>1. h \in Nat /\ h \div n \in 0..SingleRounds(n) - 1
      BY <1>1, <1>2, QuotientBelow
    <3>2. a \in 0..n - 1
      BY <1>1, <3>1, Unquoted
    <3>3. v = IF first + a <= DaysIn THEN first + a ELSE first + a - (DaysIn + 1)
      BY <2>2, <3>2, HitFacts
    <3>4. v = DaysIn <=> a = Second7(first)
      <4> HIDE DEF a, v
      <4> QED BY <1>1, <2>2, <3>2, <3>3, DaysPositive DEF Second7
    <3>5. getHashSingleBit(first, last, r, h)
            = IF v = DaysIn THEN {dowHashSunday7(first, last, n, h)} ELSE {v}
      BY <2>2 DEF getHashSingleBit, Hit
    <3>6. CASE a # Second7(first)
      <4>1. getHashSingleBit(first, last, r, h) = {v} /\ v # DaysIn
        BY <3>4, <3>5, <3>6
      <4>2. Norm(r, getHashSingleBit(first, last, r, h)) = {v}
        <5> HIDE DEF a, v
        <5> QED BY <4>1, <2>2, NoSunday DEF Norm
      <4>3. P(k) = Hit(r, first, x) /\ x \in 0..n - 1
        BY <2>1, <2>3
      <4>4. Hit(r, first, x) = v => a = x
        <5>1. n <= size(r)
          BY <2>2
        <5> HIDE DEF a
        <5> QED BY <3>2, <4>3, <5>1, HitOnce DEF v
      <4>5. P(k) \in {v} <=> a = x
        <5> HIDE DEF P, a
        <5> QED BY <4>3, <4>4
      <4> HIDE DEF P, v
      <4> QED BY <2>1, <3>6, <4>2, <4>5 DEF Lands
    <3>7. CASE a = Second7(first)
      <4>1. h \div n \in 0..m
        BY <3>1, <2>1, <1>1
      <4>2. dowHashSunday7(first, last, n, h) = P(h \div n)
        <5>1. h \div n \in 0..n - 2
          BY <4>1, <2>1, <1>1
        <5>2. dowHashSunday7(first, last, n, h) = Hit(r, first, Skip(first, h \div n))
          BY <1>5, <3>1, <5>1, SundayInTurn
        <5> QED BY <4>1, <5>2, <2>3
      <4>3. getHashSingleBit(first, last, r, h) = {P(h \div n)} /\ P(h \div n) # DaysIn
        <5>1. P(h \div n) \in 0..DaysIn - 1
          BY <4>1, <2>3
        <5> HIDE DEF P
        <5> QED BY <3>4, <3>5, <3>7, <4>2, <5>1, DaysPositive
      <4>4. Norm(r, getHashSingleBit(first, last, r, h)) = {P(h \div n)}
        <5> HIDE DEF P
        <5> QED BY <4>3, <2>2, NoSunday DEF Norm
      <4> HIDE DEF P
      <4> QED BY <1>3, <2>1, <3>7, <4>1, <4>4 DEF Lands
    <3> QED BY <3>6, <3>7
  <2>6. q \in 0..SingleRounds(n) - 1 /\ x \in (0..n - 1) \ S
    BY <1>1, <2>1, <2>3
  <2> QED BY <1>1, <1>2, <2>5, <2>6
<1> QED BY <1>4, <1>5

-----------------------------------------------------------------------------
\* An H with a step: the hash picks where in the range the steps begin.
LEMMA HashCycle ==
  ASSUME NEW r, NEW first, NEW last, Ends(r, first, last),
         NEW c, c = dowCycle(first, last, r)
  PROVE  LET d == Distinct(r)
             m == Hops(first, last, d)
         IN  /\ c.r.min = r.min /\ size(c.r) = d
             /\ c.start \in r.min..r.min + d - 1 /\ c.end \in r.min..r.min + d - 1
             /\ m = IF c.start <= c.end THEN c.end - c.start ELSE d + c.end - c.start
             /\ cyclicRangeSize(c.start, c.end, c.r) = m + 1
             /\ \A k \in 0..d - 1 : Place(r, c.start, k) = Place(r, first, k)
<1> DEFINE d == Distinct(r)
           m == Hops(first, last, Distinct(r))
<1>1. /\ d \in Nat \ {0} /\ r.min \in Nat /\ first \in Nat /\ last \in Nat /\ r.max \in Nat
      /\ first \in r.min..r.max /\ last \in r.min..r.max
      /\ isDowBounds(r) => r.min = 0 /\ r.max = DaysIn /\ d = DaysIn
      /\ ~isDowBounds(r) => r.max = r.min + d - 1 /\ size(r) = d
  BY DistinctFacts DEF Ends, Field
<1>2. /\ last - first = d => m = d - 1
      /\ first <= last /\ last - first # d => m = last - first
      /\ first > last /\ first - last < d => m = d + last - first
      /\ first - last = d => m = 0
  BY ReachFacts
<1>3. c.r.min = r.min /\ size(c.r) = d /\ c.r.max = r.min + d - 1
  <2>1. CASE isDowBounds(r)
    <3>1. c.r = [r EXCEPT !.max = DaysIn - 1]
      BY <2>1 DEF dowCycle
    <3>2. c.r.min = r.min /\ c.r.max = DaysIn - 1
      BY <3>1 DEF Ends, Field
    <3> QED BY <1>1, <2>1, <3>2, DaysPositive DEF size
  <2>2. CASE ~isDowBounds(r)
    BY <1>1, <2>2 DEF dowCycle
  <2> QED BY <2>1, <2>2
<1>4. ~isDowBounds(r) => c.start = first /\ c.end = last
  BY DEF dowCycle
<1>5. ASSUME isDowBounds(r)
      PROVE  /\ c.start = IF first = DaysIn THEN 0 ELSE first
             /\ c.end = IF first = 0 /\ last = DaysIn THEN DaysIn - 1
                        ELSE IF last = DaysIn THEN 0 ELSE last
  <2>1. ASSUME NEW v \in 0..DaysIn
        PROVE  v % DaysIn = IF v = DaysIn THEN 0 ELSE v
    <3>1. Once(v, DaysIn) /\ (v < DaysIn \/ v = DaysIn)
      BY DaysPositive DEF Once
    <3>2. v % DaysIn = Reduced(v, DaysIn)
      BY <3>1, ModOnce, Zenon
    <3> QED BY <3>1, <3>2, DaysPositive DEF Reduced
  <2>2. first \in 0..DaysIn /\ last \in 0..DaysIn
    BY <1>1, <1>5
  <2>3. c.start = first % DaysIn
        /\ c.end = IF first = 0 /\ last = DaysIn THEN DaysIn - 1 ELSE last % DaysIn
    BY <1>5 DEF dowCycle
  <2> QED BY <2>1, <2>2, <2>3
<1> HIDE DEF d, m
<1>6. c.start \in r.min..r.min + d - 1 /\ c.end \in r.min..r.min + d - 1
  <2>1. CASE isDowBounds(r)
    BY <1>1, <1>5, <2>1, DaysPositive
  <2>2. CASE ~isDowBounds(r)
    BY <1>1, <1>4, <2>2
  <2> QED BY <2>1, <2>2
<1>7. m = IF c.start <= c.end THEN c.end - c.start ELSE d + c.end - c.start
  <2>1. CASE isDowBounds(r)
    BY <1>1, <1>2, <1>5, <2>1, DaysPositive
  <2>2. CASE ~isDowBounds(r)
    BY <1>1, <1>2, <1>4, <2>2
  <2> QED BY <2>1, <2>2
<1>8. cyclicRangeSize(c.start, c.end, c.r) = m + 1
  <2>1. cyclicRangeSize(c.start, c.end, c.r)
          = IF c.start > c.end THEN c.r.max - c.start + 1 + c.end - c.r.min + 1
            ELSE c.end - c.start + 1
    BY DEF cyclicRangeSize
  <2> QED BY <1>1, <1>3, <1>6, <1>7, <2>1
<1>9. ASSUME NEW k \in 0..d - 1
      PROVE  Place(r, c.start, k) = Place(r, first, k)
  <2>1. k \in 0..Distinct(r) - 1 /\ k \in Nat
    BY <1>1 DEF d
  <2>2. Ends(r, c.start, last)
    BY <1>1, <1>6, DaysPositive DEF Ends
  <2>3. /\ Place(r, first, k) = IF first + k < r.min + d THEN first + k ELSE first + k - d
        /\ Place(r, c.start, k) = IF c.start + k < r.min + d THEN c.start + k ELSE c.start + k - d
    BY <2>1, <2>2, PlaceFacts DEF d
  <2>4. CASE isDowBounds(r)
    BY <1>1, <1>5, <1>9, <2>1, <2>3, <2>4, DaysPositive
  <2>5. CASE ~isDowBounds(r)
    BY <1>4, <2>5
  <2> QED BY <2>4, <2>5
<1> QED BY <1>3, <1>6, <1>7, <1>8, <1>9 DEF d, m

LEMMA StepBits ==
  ASSUME NEW r, NEW first, NEW last, Ends(r, first, last), NEW s \in Nat \ {0},
         NEW c, c = dowCycle(first, last, r),
         NEW m, m = Hops(first, last, Distinct(r)), NEW off \in 0..m
  PROVE  cycleBits(c, c.start + off, s) = Cycle(r.min, Distinct(r), c.start + off, m - off, s)
<1> DEFINE d == Distinct(r)
<1>1. /\ d \in Nat \ {0} /\ r.min \in Nat /\ m \in 0..d - 1
      /\ c.r.min = r.min /\ size(c.r) = d
      /\ c.start \in r.min..r.min + d - 1 /\ c.end \in r.min..r.min + d - 1
      /\ m = IF c.start <= c.end THEN c.end - c.start ELSE d + c.end - c.start
  BY HashCycle, DistinctFacts, ReachFacts
<1>2. c.start \in Nat /\ c.end \in Nat /\ off \in Nat
  BY <1>1
<1> HIDE DEF d
<1>3. CASE c.start <= c.end
  <2>1. Straight(r.min, d, c.start + off, c.end, s)
    BY <1>1, <1>2 DEF Straight, Numbers
  <2>2. cycleBits(c, c.start + off, s) = getBits(c.start + off, c.end, s)
    BY <1>3 DEF cycleBits
  <2>3. c.end - (c.start + off) = m - off
    BY <1>1, <1>2, <1>3
  <2>4. Cycle(r.min, d, c.start + off, c.end - (c.start + off), s) = getBits(c.start + off, c.end, s)
    BY <2>1, CycleStraight, SMT
  <2> QED BY <2>2, <2>3, <2>4 DEF d
<1>4. CASE ~(c.start <= c.end)
  <2>1. Numbers(r.min, d, c.start + off, c.end + d, s)
    BY <1>1, <1>2 DEF Numbers
  <2>2. cycleBits(c, c.start + off, s) = SetBack(r.min, d, getBits(c.start + off, c.end + d, s))
    <3>1. cycleBits(c, c.start + off, s) = Around(getBits(c.start + off, c.end + d, s), c.r)
      BY <1>1, <1>4, Zenon DEF cycleBits
    <3> QED BY <3>1, <1>1, Zenon DEF Around, SetBack
  <2>3. (c.end + d) - (c.start + off) = m - off
    BY <1>1, <1>2, <1>4
  <2>4. Cycle(r.min, d, c.start + off, (c.end + d) - (c.start + off), s)
          = SetBack(r.min, d, getBits(c.start + off, c.end + d, s))
    BY <2>1, CycleOver, SMT
  <2> QED BY <2>2, <2>3, <2>4 DEF d
<1> QED BY <1>3, <1>4

LEMMA StepFrom ==
  ASSUME NEW s \in Nat \ {0}, NEW k \in Nat, NEW a \in 0..s - 1
  PROVE  k >= a /\ (k - a) % s = 0 <=> k % s = a
<1>1. ASSUME k >= a, (k - a) % s = 0
      PROVE  k % s = a
  <2>1. k - a \in Nat
    BY <1>1
  <2>2. k - a = Quoted(s, (k - a) \div s, 0) /\ (k - a) \div s \in Nat
    BY <1>1, <2>1, Unquoted
  <2> DEFINE q == (k - a) \div s
  <2>3. k = Quoted(s, q, a)
    <3> HIDE DEF q
    <3>1. q \in Nat /\ k - a = q * s + 0
      BY <2>2 DEF q, Quoted
    <3>2. q * s \in Nat
      BY <3>1
    <3> QED BY <3>1, <3>2 DEF Quoted
  <2> HIDE DEF q
  <2>4. q \in Nat
    BY <2>2 DEF q
  <2> QED BY <2>3, <2>4, QuotedParts
<1>2. ASSUME k % s = a
      PROVE  k >= a /\ (k - a) % s = 0
  <2> DEFINE q == k \div s
  <2>1. k = Quoted(s, q, a) /\ q \in Nat
    BY <1>2, Unquoted
  <2> HIDE DEF q
  <2>2. q * s \in Nat
    BY <2>1
  <2>3. k >= a /\ k - a = Quoted(s, q, 0)
    BY <2>1, <2>2 DEF Quoted
  <2>4. Quoted(s, q, 0) % s = 0
    BY <2>1, QuotedParts
  <2> QED BY <2>3, <2>4
<1> QED BY <1>1, <1>2

\* The hashes that choose the k-th value.
StepSpecial(m, s) == {x \in 0..s - 1 : x > m}

LEMMA StepLands ==
  ASSUME NEW r, NEW first, NEW last, Ends(r, first, last), NEW s \in Nat \ {0},
         NEW m, m = Hops(first, last, Distinct(r)), NEW k \in 0..m
  PROVE  /\ k % s \in (0..s - 1) \ StepSpecial(m, s)
         /\ \A h \in 0..s * (m + 1) - 1 :
               Place(r, first, k) \in Norm(r, getHashStepBits(first, last, s, r, h))
                  <=> Lands(h, s, StepSpecial(m, s), k, k % s)
<1> DEFINE d == Distinct(r)
           c == dowCycle(first, last, r)
<1>1. /\ d \in Nat \ {0} /\ r.min \in Nat /\ m \in 0..d - 1
      /\ c.start \in r.min..r.min + d - 1
      /\ cyclicRangeSize(c.start, c.end, c.r) = m + 1
      /\ \A j \in 0..d - 1 : Place(r, c.start, j) = Place(r, first, j)
      /\ isDowBounds(r) => r.min = 0 /\ d = DaysIn
  BY HashCycle, DistinctFacts, ReachFacts
<1> HIDE DEF d, c
<1>2. m \in Nat /\ k \in Nat
  BY <1>1
<1>3. k % s \in (0..s - 1) \ StepSpecial(m, s)
  <2>1. k % s \in 0..s - 1 /\ k % s <= k
    BY <1>2, StepFrom, Unquoted
  <2> QED BY <1>1, <1>2, <2>1 DEF StepSpecial
<1>4. ASSUME NEW h \in 0..s * (m + 1) - 1
      PROVE  Place(r, first, k) \in Norm(r, getHashStepBits(first, last, s, r, h))
                <=> Lands(h, s, StepSpecial(m, s), k, k % s)
  <2> DEFINE off == IF h % s <= m THEN h % s ELSE h \div s
             bits == Cycle(r.min, d, c.start + off, m - off, s)
  <2>1. h \in Nat /\ h \div s \in 0..m /\ h % s \in 0..s - 1
    <3>0. m + 1 \in Nat \ {0}
      BY <1>2
    <3>1. h \in Nat /\ h \div s \in 0..(m + 1) - 1
      BY <3>0, QuotientBelow, Zenon
    <3>2. (m + 1) - 1 = m
      BY <1>2
    <3>3. h % s \in 0..s - 1
      BY <3>1, Unquoted, Zenon
    <3> QED BY <3>1, <3>2, <3>3, Zenon
  <2>2. hashOffset(m + 1, s, h) = off
    <3>1. (h \div s) % (m + 1) = h \div s
      BY <1>2, <2>1, ModSmall
    <3>2. h % s < m + 1 <=> h % s <= m
      BY <1>2, <2>1
    <3> QED BY <3>1, <3>2 DEF hashOffset
  <2>3. off \in 0..m
    BY <1>2, <2>1
  <2>4. getHashStepBits(first, last, s, r, h) = bits
    <3> HIDE DEF off
    <3>1. getHashStepBits(first, last, s, r, h) = cycleBits(c, c.start + off, s)
      BY <1>1, <2>2, Zenon DEF getHashStepBits, hashCycleBits, c
    <3>2. cycleBits(c, c.start + off, s) = bits
      BY <2>3, StepBits DEF c, d
    <3> QED BY <3>1, <3>2
  <2>5. Norm(r, bits) = bits
    <3> HIDE DEF off
    <3>1. bits \subseteq r.min..r.min + d - 1
      BY <1>1, <1>2, <2>3, CycleInside
    <3> HIDE DEF bits
    <3>2. isDowBounds(r) => DaysIn \notin bits
      BY <1>1, <3>1, DaysPositive
    <3> QED BY <3>2, NoSunday DEF Norm
  <2>6. Place(r, first, k) \in bits <=> k >= off /\ (k - off) % s = 0
    <3> HIDE DEF off
    <3>1. ASSUME NEW t \in 0..m - off
          PROVE  /\ ((c.start + off + t - r.min) % d) + r.min = Place(r, first, off + t)
                 /\ off + t \in 0..d - 1 /\ off + t \in Nat
      <4>1. off + t \in 0..d - 1 /\ off + t \in Nat
        BY <1>1, <1>2, <2>3
      <4>2. c.start + off + t - r.min = c.start + (off + t) - r.min
        BY <1>1, <2>3
      <4>3. Place(r, c.start, off + t) = ((c.start + (off + t) - r.min) % d) + r.min
        BY Zenon DEF Place, d
      <4> QED BY <1>1, <4>1, <4>2, <4>3
    <3>2. bits = {Place(r, first, off + t) : t \in {x \in 0..m - off : x % s = 0}}
      BY <3>1 DEF Cycle
    <3>3. ASSUME NEW t \in 0..m - off, Place(r, first, k) = Place(r, first, off + t)
          PROVE  k = off + t
      <4>1. k \in 0..Distinct(r) - 1 /\ off + t \in 0..Distinct(r) - 1
        BY <1>1, <1>2, <3>1 DEF d
      <4> QED BY <3>3, <4>1, PlaceOnce
    <3>4. ASSUME k >= off, (k - off) % s = 0
          PROVE  Place(r, first, k) \in bits
      <4>1. k - off \in {x \in 0..m - off : x % s = 0} /\ off + (k - off) = k
        BY <1>2, <2>3, <3>4
      <4> QED BY <3>2, <4>1
    <3>5. ASSUME Place(r, first, k) \in bits
          PROVE  k >= off /\ (k - off) % s = 0
      <4>1. PICK t \in {x \in 0..m - off : x % s = 0} : Place(r, first, k) = Place(r, first, off + t)
        BY <3>2, <3>5
      <4>2. k = off + t
        BY <3>3, <4>1
      <4>3. k - off = t /\ k >= off
        BY <1>2, <2>3, <4>1, <4>2
      <4> QED BY <4>1, <4>3
    <3> QED BY <3>4, <3>5
  <2>7. CASE h % s <= m
    <3>1. h % s \notin StepSpecial(m, s) /\ off = h % s
      BY <1>2, <2>1, <2>7 DEF StepSpecial
    <3>2. k >= h % s /\ (k - (h % s)) % s = 0 <=> k % s = h % s
      BY <1>2, <2>1, StepFrom
    <3> HIDE DEF off
    <3> QED BY <2>4, <2>5, <2>6, <3>1, <3>2 DEF Lands
  <2>8. CASE ~(h % s <= m)
    <3>1. h % s \in StepSpecial(m, s) /\ off = h \div s
      BY <1>2, <2>1, <2>8 DEF StepSpecial
    <3> HIDE DEF off
    <3>2. k >= off /\ (k - off) % s = 0 <=> k = off
      <4>1. k >= off => (k - off) % s = k - off
        <5>1. k >= off => k - off \in Nat /\ k - off < s
          BY <1>2, <2>1, <2>3, <2>8
        <5> QED BY <5>1, ModSmall
      <4> QED BY <1>2, <2>3, <4>1
    <3> QED BY <2>4, <2>5, <2>6, <3>1, <3>2 DEF Lands
  <2> QED BY <2>7, <2>8
<1> QED BY <1>3, <1>4

-----------------------------------------------------------------------------
\* What an H is made of, once the parser has accepted it.
HashedSteps(i) == i.form \in {"H", "Hrange"} /\ i.step \in Nat \union {NoStep}

HashBits(i, r, h) ==
    IF i.step = NoStep THEN getHashSingleBit(First(i, r), Final(i, r), r, h)
    ELSE getHashStepBits(First(i, r), Final(i, r), i.step, r, h)

LEMMA HashParts ==
  ASSUME NEW i, NEW r, Field(r), HashedSteps(i), NEW h0, getRangeWithHash(i, r, h0) # Bad
  PROVE  /\ Ends(r, First(i, r), Final(i, r))
         /\ i.step \in (Nat \ {0}) \union {NoStep}
         /\ \A h : getRangeWithHash(i, r, h) = HashBits(i, r, h)
<1>1. \A h : getRangeWithHash(i, r, h)
               = IF ~validateRangeBounds(First(i, r), Final(i, r), r) \/ i.step = 0 THEN Bad
                 ELSE HashBits(i, r, h)
  <2>1. i.form \in {"H", "Hrange"}
    BY DEF HashedSteps
  <2> TAKE h
  <2>2. CASE ~validateRangeBounds(First(i, r), Final(i, r), r) \/ i.step = 0
    BY <2>1, <2>2, Zenon DEF getRangeWithHash, First, Final
  <2>3. CASE ~(~validateRangeBounds(First(i, r), Final(i, r), r) \/ i.step = 0)
    BY <2>1, <2>3, Zenon DEF getRangeWithHash, First, Final, HashBits
  <2> QED BY <2>2, <2>3, Zenon
<1>2. validateRangeBounds(First(i, r), Final(i, r), r) /\ i.step # 0
  BY <1>1, Zenon
<1>3. First(i, r) \in r.min..r.max /\ Final(i, r) \in r.min..r.max
  BY <1>2, Zenon DEF validateRangeBounds
<1>4. r.min <= r.max
  BY <1>3 DEF Field
<1> QED BY <1>1, <1>2, <1>3, <1>4 DEF Ends, HashedSteps

LEMMA PeriodParts ==
  ASSUME NEW i, NEW r, HashedSteps(i), Ends(r, First(i, r), Final(i, r))
  PROVE  LET n == cyclicRangeSize(First(i, r), Final(i, r), r)
         IN  HashPeriod(i, r) = IF i.step = NoStep THEN n * SingleRounds(n)
                                ELSE i.step * (Reach(i, r) + 1)
<1> DEFINE n == cyclicRangeSize(First(i, r), Final(i, r), r)
<1>1. (IF i.form = "H" THEN size(r) ELSE cyclicRangeSize(i.low, i.high, r)) = n
  <2>1. CASE i.form = "H"
    <3>1. n = r.max - r.min + 1
      BY <2>1 DEF First, Final, Ends, Field, cyclicRangeSize
    <3> QED BY <2>1, <3>1 DEF size
  <2>2. CASE i.form # "H"
    BY <2>2, Zenon DEF First, Final
  <2> QED BY <2>1, <2>2
<1>2. Cardinality(Walk(i, r)) = Reach(i, r) + 1
  BY HashWalkPlaces DEF HashedSteps
<1> HIDE DEF n
<1>3. HashPeriod(i, r) = IF i.step = NoStep THEN n * SingleRounds(n) ELSE i.step * Cardinality(Walk(i, r))
  BY <1>1, Zenon DEF HashPeriod, SingleRounds
<1> QED BY <1>2, <1>3, Zenon DEF n

\* What is chosen by remainder and quotient is chosen evenly.
LEMMA EvenSpread ==
  ASSUME NEW n \in Nat \ {0}, NEW m \in Nat \ {0}, NEW S, NEW chosen, NEW values,
         DOMAIN chosen = 0..n * m - 1,
         \A v \in values : \E q \in 0..m - 1, x \in (0..n - 1) \ S :
             \A h \in 0..n * m - 1 : v \in chosen[h] <=> Lands(h, n, S, q, x)
  PROVE  Even(chosen, values)
<1> SUFFICES ASSUME NEW v \in values, NEW u \in values
             PROVE  Cardinality({h \in DOMAIN chosen : v \in chosen[h]})
                      = Cardinality({h \in DOMAIN chosen : u \in chosen[h]})
  BY Zenon DEF Even
<1>1. PICK q1 \in 0..m - 1, x1 \in (0..n - 1) \ S :
        \A h \in 0..n * m - 1 : v \in chosen[h] <=> Lands(h, n, S, q1, x1)
  BY Zenon
<1>2. PICK q2 \in 0..m - 1, x2 \in (0..n - 1) \ S :
        \A h \in 0..n * m - 1 : u \in chosen[h] <=> Lands(h, n, S, q2, x2)
  BY Zenon
<1>3. {h \in DOMAIN chosen : v \in chosen[h]} = Landing(n, m, S, q1, x1)
  BY <1>1, Zenon DEF Landing
<1>4. {h \in DOMAIN chosen : u \in chosen[h]} = Landing(n, m, S, q2, x2)
  BY <1>2, Zenon DEF Landing
<1>5. Cardinality(Landing(n, m, S, q1, x1)) = Cardinality(Landing(n, m, S, q2, x2))
  BY LandingEven
<1> QED BY <1>3, <1>4, <1>5

LEMMA ItemEven ==
  ASSUME NEW i, NEW r, HashedSteps(i), Ends(r, First(i, r), Final(i, r)),
         i.step \in (Nat \ {0}) \union {NoStep},
         NEW chosen, DOMAIN chosen = 0..HashPeriod(i, r) - 1,
         \A h \in DOMAIN chosen : \A v \in Walk(i, r) :
             v \in chosen[h] <=> v \in Norm(r, HashBits(i, r, h))
  PROVE  Even(chosen, Walk(i, r))
<1> DEFINE first == First(i, r)
           last  == Final(i, r)
           P(k)  == Place(r, first, k)
           top   == Hops(first, last, Distinct(r))
<1>1. Walk(i, r) = {P(k) : k \in 0..top} /\ top \in Nat
  <2>1. top \in 0..Distinct(r) - 1
    BY ReachFacts
  <2> QED BY <2>1, HashWalkPlaces, DistinctFacts DEF HashedSteps, Reach
<1>2. CASE i.step = NoStep
  <2> DEFINE n == cyclicRangeSize(first, last, r)
             m == SingleRounds(n)
             S == SingleSpecial(r, first, last)
  <2>1. ASSUME NEW k \in 0..top, NEW q, q = SingleQuotient(r, first, last, k),
               NEW x, x = SingleRemainder(r, first, last, k)
        PROVE  /\ n \in Nat \ {0} /\ m \in Nat \ {0}
               /\ q \in 0..m - 1 /\ x \in (0..n - 1) \ S
               /\ \A h \in 0..n * m - 1 :
                     P(k) \in Norm(r, getHashSingleBit(first, last, r, h)) <=> Lands(h, n, S, q, x)
    BY <2>1, SingleLands
  <2>2. n \in Nat \ {0} /\ m \in Nat \ {0}
    <3>1. 0 \in 0..top
      BY <1>1
    <3> QED BY <2>1, <3>1, Zenon
  <2>3. DOMAIN chosen = 0..n * m - 1
    BY <1>2, PeriodParts, Zenon
  <2>4. \A h : HashBits(i, r, h) = getHashSingleBit(first, last, r, h)
    BY <1>2, Zenon DEF HashBits
  <2> HIDE DEF n, m, S, P, first, last, top
  <2>5. ASSUME NEW v \in Walk(i, r)
        PROVE  \E q \in 0..m - 1, x \in (0..n - 1) \ S :
                 \A h \in 0..n * m - 1 : v \in chosen[h] <=> Lands(h, n, S, q, x)
    <3>1. PICK k \in 0..top : v = P(k)
      BY <1>1, Zenon
    <3>2. \A h \in 0..n * m - 1 : v \in chosen[h] <=> P(k) \in Norm(r, getHashSingleBit(first, last, r, h))
      BY <2>3, <2>4, <3>1, Zenon
    <3>3. PICK q, x : q = SingleQuotient(r, first, last, k) /\ x = SingleRemainder(r, first, last, k)
      OBVIOUS
    <3> QED BY <2>1, <3>2, <3>3, Zenon
  <2> QED BY <2>2, <2>3, <2>5, EvenSpread, Zenon
<1>3. CASE i.step # NoStep
  <2> DEFINE s == i.step
             S == StepSpecial(top, s)
  <2>1. s \in Nat \ {0} /\ top + 1 \in Nat \ {0}
    BY <1>1, <1>3
  <2>2. ASSUME NEW k \in 0..top
        PROVE  /\ k % s \in (0..s - 1) \ S
               /\ \A h \in 0..s * (top + 1) - 1 :
                     P(k) \in Norm(r, getHashStepBits(first, last, s, r, h)) <=> Lands(h, s, S, k, k % s)
    BY <2>1, StepLands, Zenon
  <2>3. DOMAIN chosen = 0..s * (top + 1) - 1
    BY <1>3, PeriodParts, Zenon DEF Reach
  <2>4. \A h : HashBits(i, r, h) = getHashStepBits(first, last, s, r, h)
    BY <1>3, Zenon DEF HashBits
  <2>5. \A k \in 0..top : k \in 0..(top + 1) - 1
    BY <1>1
  <2> HIDE DEF s, S, P, first, last, top
  <2>6. ASSUME NEW v \in Walk(i, r)
        PROVE  \E q \in 0..(top + 1) - 1, x \in (0..s - 1) \ S :
                 \A h \in 0..s * (top + 1) - 1 : v \in chosen[h] <=> Lands(h, s, S, q, x)
    <3>1. PICK k \in 0..top : v = P(k)
      BY <1>1, Zenon
    <3>2. \A h \in 0..s * (top + 1) - 1 :
            v \in chosen[h] <=> P(k) \in Norm(r, getHashStepBits(first, last, s, r, h))
      BY <2>3, <2>4, <3>1, Zenon
    <3> QED BY <2>2, <2>5, <3>2, Zenon
  <2> QED BY <2>1, <2>3, <2>6, EvenSpread, Zenon
<1> QED BY <1>2, <1>3

-----------------------------------------------------------------------------
\* An expression that is accepted with one key is accepted with any other: no
\* item is good for one hash and bad for another.
Clean(bits) == -2 \notin bits

LEMMA ModNat ==
  ASSUME NEW n \in Nat \ {0}, NEW x \in Nat
  PROVE  x % n \in Nat /\ x % n < n
BY SMT

LEMMA CleanInside ==
  ASSUME NEW a \in Nat, NEW b, NEW bits \in SUBSET (a..b)
  PROVE  Clean(bits)
<1> SUFFICES ASSUME -2 \in bits PROVE FALSE
  BY DEF Clean
<1>1. -2 \in a..b
  OBVIOUS
<1> QED BY <1>1

LEMMA StepClean ==
  ASSUME NEW r, NEW first, NEW last, Ends(r, first, last), NEW s \in Nat \ {0},
         NEW c, c = dowCycle(first, last, r),
         NEW off \in 0..Hops(first, last, Distinct(r))
  PROVE  Clean(cycleBits(c, c.start + off, s))
<1> DEFINE d == Distinct(r)
           m == Hops(first, last, Distinct(r))
<1>1. /\ d \in Nat \ {0} /\ r.min \in Nat /\ m \in 0..d - 1
      /\ c.start \in r.min..r.min + d - 1
  BY HashCycle, DistinctFacts, ReachFacts
<1>2. cycleBits(c, c.start + off, s) = Cycle(r.min, d, c.start + off, m - off, s)
  BY StepBits
<1> HIDE DEF d, m
<1>3. m \in Nat /\ c.start \in Nat /\ off \in 0..m
  BY <1>1 DEF m
<1>4. Cycle(r.min, d, c.start + off, m - off, s) \subseteq r.min..r.min + d - 1
  BY <1>1, <1>3, CycleInside
<1> QED BY <1>1, <1>2, <1>4, CleanInside

LEMMA HashClean ==
  ASSUME NEW i, NEW r, HashedSteps(i), Ends(r, First(i, r), Final(i, r)),
         i.step \in (Nat \ {0}) \union {NoStep}, NEW h \in Nat
  PROVE  Clean(HashBits(i, r, h))
<1> DEFINE first == First(i, r)
           last  == Final(i, r)
           n     == cyclicRangeSize(first, last, r)
           m     == Hops(first, last, Distinct(r))
           single == getHashSingleBit(first, last, r, h)
<1>1. /\ n \in Nat \ {0} /\ n = IF Twice(r, first, last) THEN m + 2 ELSE m + 1
      /\ m \in 0..Distinct(r) - 1 /\ Distinct(r) \in Nat \ {0} /\ r.min \in Nat
  BY RangeSize, ReachFacts, DistinctFacts
<1>2. h % n \in 0..n - 1 /\ h \div n \in Nat
  BY <1>1, Unquoted
<1>3. CASE i.step = NoStep /\ ~Twice(r, first, last)
  <2>1. Norm(r, single) = {Place(r, first, h % n)}
    BY <1>3, SingleOnce
  <2>2. h % n \in 0..Distinct(r) - 1
    <3> HIDE DEF n, m
    <3> QED BY <1>1, <1>2, <1>3
  <2>3. Place(r, first, h % n) \in r.min..r.min + Distinct(r) - 1
    BY <2>2, PlaceFacts
  <2> DEFINE p == Place(r, first, h % n)
  <2> HIDE DEF p, single
  <2>4. p # -2
    BY <1>1, <2>3 DEF p
  <2>5. -2 \in single => -2 \in Norm(r, single)
    BY DaysPositive, Normalized DEF Norm
  <2>6. -2 \notin single
    BY <2>1, <2>4, <2>5 DEF p
  <2> QED BY <1>3, <2>6 DEF Clean, HashBits, single
<1>4. CASE i.step = NoStep /\ Twice(r, first, last)
  <2> DEFINE v == Hit(r, first, h % n)
             w == dowHashSunday7(first, last, n, h)
  <2>1. single = {v} \/ single = {w}
    BY DEF getHashSingleBit, Hit
  <2>2. v \in r.min..r.max
    BY <1>2, HitFacts
  <2>3. w \in 0..DaysIn
    <3>1. n - 1 \in Nat \ {0} /\ first \in Nat
      <4>1. first \in Nat
        BY DistinctFacts
      <4> HIDE DEF n, m, first, last
      <4> QED BY <1>1, <1>4, <4>1
    <3> DEFINE j == (h \div n) % (n - 1)
    <3>2. j \in Nat
      <4> HIDE DEF n
      <4> QED BY <1>2, <3>1, ModNat
    <3>3. w = 0 \/ w = (first + (IF j >= (DaysIn - first) % (DaysIn + 1) THEN j + 1 ELSE j)) % (DaysIn + 1)
      <4> HIDE DEF first, last, n
      <4> QED BY Zenon DEF dowHashSunday7
    <3> HIDE DEF w, j
    <3>4. w = 0 \/ w \in 0..DaysIn + 1 - 1
      <4> DEFINE y == first + (IF j >= (DaysIn - first) % (DaysIn + 1) THEN j + 1 ELSE j)
      <4>1. y \in Int
        BY <3>1, <3>2
      <4>2. w = 0 \/ w = y % (DaysIn + 1)
        BY <3>3
      <4> HIDE DEF y
      <4>3. y % (DaysIn + 1) \in 0..DaysIn + 1 - 1
        BY <4>1, DaysPositive, ModRange
      <4> QED BY <4>2, <4>3
    <3> QED BY <3>4, DaysPositive
  <2> HIDE DEF v, w, single
  <2>4. v # -2 /\ w # -2
    BY <1>1, <2>2, <2>3
  <2>5. -2 \notin single
    BY <2>1, <2>4
  <2> QED BY <1>4, <2>5 DEF Clean, HashBits, single
<1>5. CASE i.step # NoStep
  <2> DEFINE s == i.step
             c == dowCycle(first, last, r)
             off == hashOffset(m + 1, s, h)
  <2>1. s \in Nat \ {0}
    BY <1>5
  <2>2. m \in Nat
    <3> HIDE DEF m
    <3> QED BY <1>1
  <2>3. off \in 0..m
    <3>1. h % s \in 0..s - 1 /\ h \div s \in Nat
      BY <2>1, Unquoted
    <3>2. (h \div s) % (m + 1) \in 0..m
      <4> HIDE DEF m, s
      <4>1. m + 1 \in Nat \ {0}
        BY <2>2
      <4>2. (h \div s) % (m + 1) \in Nat /\ (h \div s) % (m + 1) < m + 1
        BY <3>1, <4>1, ModNat
      <4> QED BY <2>2, <4>2
    <3> HIDE DEF m, s
    <3> QED BY <2>1, <2>2, <3>1, <3>2 DEF hashOffset
  <2>4. cyclicRangeSize(c.start, c.end, c.r) = m + 1
    BY HashCycle
  <2>5. getHashStepBits(first, last, s, r, h) = cycleBits(c, c.start + off, s)
    <3> HIDE DEF m
    <3> QED BY <2>4, Zenon DEF getHashStepBits, hashCycleBits
  <2>6. Clean(cycleBits(c, c.start + off, s))
    <3> HIDE DEF off, s
    <3> QED BY <2>1, <2>3, StepClean
  <2> QED BY <1>5, <2>5, <2>6, Zenon DEF HashBits
<1> QED BY <1>3, <1>4, <1>5

LEMMA RangeClean ==
  ASSUME NEW i, NEW r, Field(r), Written(i), getRange(i, r) # Bad
  PROVE  Clean(getRange(i, r))
<1> DEFINE first == Begin(i, r)
           last  == End(i, r)
           every == Every(i)
<1>1. /\ first \in r.min..r.max /\ last \in r.min..r.max /\ every \in Nat \ {0}
      /\ getRange(i, r) = Extra(i, r) \union Selected(i, r)
  BY RangeParts
<1>2. Ends(r, first, last) /\ first \in Nat /\ last \in Nat /\ r.min \in Nat /\ r.max \in Nat
  <2>1. r.min \in Nat /\ r.max \in Nat
    BY DEF Field
  <2> HIDE DEF first, last
  <2> QED BY <1>1, <2>1 DEF Ends
<1> HIDE DEF first, last, every
<1>3. CASE first <= last
  <2>1. getBits(first, last, every) \subseteq first..last
    BY DEF getBits
  <2>2. Clean(getBits(first, last, every))
    BY <1>2, <2>1, CleanInside
  <2>3. ~(first > last)
    BY <1>2, <1>3
  <2> QED BY <1>1, <2>2, <2>3 DEF Clean, Selected, Extra, starBit, first, last, every
<1>4. CASE first > last
  <2>1. Clean(getWraparoundBits(first, last, every, r))
    <3>1. CASE every > 1
      <4> DEFINE c == dowCycle(first, last, r)
                 m == Hops(first, last, Distinct(r))
      <4>1. c.start \in r.min..r.min + Distinct(r) - 1 /\ Distinct(r) \in Nat /\ m \in 0..Distinct(r) - 1
        BY <1>2, HashCycle, ReachFacts, DistinctFacts
      <4>2. getWraparoundBits(first, last, every, r) = cycleBits(c, c.start, every)
        BY <3>1, Zenon DEF getWraparoundBits, wholeCycle
      <4> HIDE DEF c, m
      <4>3. c.start + 0 = c.start /\ 0 \in 0..m
        BY <1>2, <4>1
      <4>4. Clean(cycleBits(c, c.start + 0, every))
        BY <1>1, <1>2, <4>3, StepClean DEF c, m
      <4> QED BY <4>2, <4>3, <4>4
    <3>2. CASE ~(every > 1)
      <4> DEFINE n == size(r)
                 over == getBits(first, last + n, every)
      <4>1. getWraparoundBits(first, last, every, r) = Around(over, r)
        <5>1. ~(first <= last)
          BY <1>2, <1>4
        <5> DEFINE c == [start |-> first, end |-> last, r |-> r]
        <5>2. getWraparoundBits(first, last, every, r) = cycleBits(c, c.start, every)
          BY <3>2, Zenon DEF getWraparoundBits, wholeCycle
        <5>3. c.start = first /\ c.end = last /\ c.r = r
          OBVIOUS
        <5> HIDE DEF c
        <5> QED BY <5>1, <5>2, <5>3, Zenon DEF cycleBits
      <4>2. n \in Nat \ {0}
        BY <1>2, <1>1, <1>4 DEF size
      <4>3. \A v \in over : v \in Int
        BY <1>2, <4>2 DEF getBits
      <4>4. ASSUME NEW v \in over PROVE ((v - r.min) % n) + r.min \in r.min..r.min + n - 1
        <5>1. v - r.min \in Int
          BY <1>2, <4>3
        <5> HIDE DEF n, over
        <5>2. (v - r.min) % n \in 0..n - 1
          BY <4>2, <5>1, ModRange
        <5> QED BY <1>2, <4>2, <5>2
      <4>5. Around(over, r) \subseteq r.min..r.min + n - 1
        <5> HIDE DEF over
        <5> QED BY <4>4 DEF Around
      <4> QED BY <1>2, <4>1, <4>5, CleanInside
    <3> QED BY <3>1, <3>2
  <2> QED BY <1>1, <1>4, <2>1 DEF Clean, Selected, Extra, starBit, first, last, every
<1> QED BY <1>2, <1>3, <1>4

LEMMA ItemStaysGood ==
  ASSUME NEW i, NEW r, Field(r), i.step \in Nat \union {NoStep},
         NEW h0, getRangeWithHash(i, r, h0) # Bad, NEW h \in Nat
  PROVE  Clean(getRangeWithHash(i, r, h))
<1>1. CASE hashed(i)
  <2>1. HashedSteps(i)
    BY <1>1 DEF HashedSteps, hashed
  <2>2. /\ Ends(r, First(i, r), Final(i, r)) /\ i.step \in (Nat \ {0}) \union {NoStep}
        /\ getRangeWithHash(i, r, h) = HashBits(i, r, h)
    BY <2>1, HashParts
  <2> QED BY <2>1, <2>2, HashClean
<1>2. CASE ~hashed(i)
  <2>1. \A g : getRangeWithHash(i, r, g) = getRange(i, r)
    BY <1>2, Zenon DEF getRangeWithHash, hashed
  <2>2. Written(i)
    BY <1>2 DEF Written
  <2> QED BY <2>1, <2>2, RangeClean
<1> QED BY <1>1, <1>2

LEMMA FieldStaysGood ==
  ASSUME NEW items, NEW r, Field(r), \A k \in DOMAIN items : items[k].step \in Nat \union {NoStep},
         NEW h0, getFieldWithHash(items, r, h0) # Bad, NEW h \in Nat
  PROVE  getFieldWithHash(items, r, h) # Bad
<1> DEFINE F(g) == {getRangeWithHash(items[k], r, g) : k \in DOMAIN items}
<1>1. F(h0) # {} /\ Bad \notin F(h0)
  BY Zenon DEF getFieldWithHash, joined
<1>2. ASSUME NEW bits \in F(h)
      PROVE  Clean(bits)
  <2>1. PICK k \in DOMAIN items : bits = getRangeWithHash(items[k], r, h)
    BY <1>2, Zenon
  <2>2. getRangeWithHash(items[k], r, h0) # Bad
    BY <1>1, Zenon
  <2> QED BY <2>1, <2>2, ItemStaysGood
<1>3. F(h) # {}
  BY <1>1
<1> HIDE DEF F
<1>4. Bad \notin F(h)
  BY <1>2 DEF Clean, Bad
<1>5. getFieldWithHash(items, r, h) = joined(F(h))
  BY Zenon DEF getFieldWithHash, F
<1>6. joined(F(h)) = UNION F(h)
  BY <1>3, <1>4, Zenon DEF joined
<1>7. -2 \notin UNION F(h)
  BY <1>2 DEF Clean
<1> QED BY <1>5, <1>6, <1>7 DEF Bad

\* Expression e with the hash h and without StrictDays.
Rekeyed(e, o, h) ==
    /\ o.hash = h /\ o.options = e.options \ {"StrictDays"}
    /\ \A p \in ExprParts \ {"hash", "options"} : o[p] = e[p]

LEMMA SameBounds ==
  ASSUME NEW o, NEW u, u = o \ {"StrictDays"}
  PROVE  allBounds(u) = allBounds(o)
<1>1. ("LenientSteps" \in u) = ("LenientSteps" \in o)
      /\ ("DowStepToSaturday" \in u) = ("DowStepToSaturday" \in o)
  OBVIOUS
<1>2. \A min, max : bounds(min, max, u) = bounds(min, max, o)
  BY <1>1, Zenon DEF bounds
<1> QED BY <1>1, <1>2, Zenon DEF allBounds, seconds, minutes, hours, dom, months, dow

LEMMA RekeyedAccepted ==
  ASSUME NEW e, NEW o, NEW h \in Nat, Rekeyed(e, o, h), parse(e) # Rejected,
         \A f \in Names : \A k \in DOMAIN e[f] : e[f][k].step \in Nat \union {NoStep}
  PROVE  parse(o) # Rejected
<1> DEFINE bits == fieldBits(o)
           full == withWildcards(o, bits)
           year == getYearField(o.Year)
<1>1. /\ hashAllowed(e) /\ constraintsAllowed(e) /\ getYearField(e.Year) # Bad
      /\ \A f \in DOMAIN fieldBits(e) : fieldBits(e)[f] # Bad
  BY Zenon DEF parse, parseBits
<1>2. /\ o.domConstraints = e.domConstraints /\ o.dowConstraints = e.dowConstraints
      /\ o.Year = e.Year /\ \A f \in Names : o[f] = e[f]
      /\ o.options = e.options \ {"StrictDays"} /\ o.hash = h
  BY DEF Rekeyed, ExprParts, Names
<1>3. allBounds(o.options) = allBounds(e.options) /\ DOMAIN allBounds(e.options) = Names
  BY <1>2, SameBounds, Bounds, Zenon
<1>4. hashAllowed(o)
  <2> SUFFICES ASSUME NEW f \in Names, NEW k \in DOMAIN e[f], e[f][k].form \in {"H", "Hrange"}
               PROVE  "Hash" \in o.options /\ o.hash # NoKey
    BY <1>2, <1>3, Zenon DEF hashAllowed
  <2>1. "Hash" \in e.options
    BY <1>1, <1>3, Zenon DEF hashAllowed
  <2> QED BY <1>2, <2>1 DEF NoKey
<1>5. constraintsAllowed(o)
  <2>1. \A x \in {"DomL", "DomW", "DowLast", "DowNth"} : x \in o.options <=> x \in e.options
    BY <1>2
  <2>2. ASSUME NEW c, parseDomConstraint(c, e.options)
        PROVE  parseDomConstraint(c, o.options)
    BY <2>1, <2>2 DEF parseDomConstraint
  <2>3. ASSUME NEW c, parseDowConstraint(c, e.options)
        PROVE  parseDowConstraint(c, o.options)
    BY <2>1, <2>3, Zenon DEF parseDowConstraint
  <2>4. o.Dom = e.Dom /\ o.Dow = e.Dow
    BY <1>2 DEF Names
  <2> QED BY <1>1, <1>2, <2>2, <2>3, <2>4, Zenon DEF constraintsAllowed
<1>6. ASSUME NEW f \in DOMAIN bits
      PROVE  bits[f] # Bad
  <2> DEFINE r == allBounds(e.options)[f]
  <2>1. f \in Names /\ Field(r)
    BY <1>3, <1>6, Bounds, Zenon DEF fieldBits
  <2>2. bits[f] = IF f \in {"Dom", "Dow"} /\ e[f] = <<>> THEN {} ELSE getFieldWithHash(e[f], r, h)
    BY <1>2, <1>3, <2>1, Zenon DEF fieldBits
  <2>3. fieldBits(e)[f] = IF f \in {"Dom", "Dow"} /\ e[f] = <<>> THEN {}
                          ELSE getFieldWithHash(e[f], r, e.hash)
    BY <1>3, <2>1, Zenon DEF fieldBits
  <2>4. f \in DOMAIN fieldBits(e)
    BY <1>3, <2>1, Zenon DEF fieldBits
  <2> HIDE DEF r, bits
  <2>5. CASE f \in {"Dom", "Dow"} /\ e[f] = <<>>
    BY <2>2, <2>5 DEF Bad
  <2>6. CASE ~(f \in {"Dom", "Dow"} /\ e[f] = <<>>)
    <3>1. getFieldWithHash(e[f], r, e.hash) # Bad
      BY <1>1, <2>3, <2>4, <2>6, Zenon
    <3>2. getFieldWithHash(e[f], r, h) # Bad
      BY <2>1, <3>1, FieldStaysGood
    <3> QED BY <2>2, <2>6, <3>2, Zenon
  <2> QED BY <2>5, <2>6
<1>7. parse(o) = unlessStrict(o, specOf(o, full, year))
  <2>1. year # Bad
    BY <1>1, <1>2, Zenon
  <2> QED BY <1>4, <1>5, <1>6, <2>1, Zenon DEF parse, parseBits
<1>8. ~strict(o, specOf(o, full, year))
  <2>1. "StrictDays" \notin o.options
    BY <1>2
  <2> QED BY <2>1, Zenon DEF strict
<1>9. parse(o) = specOf(o, full, year)
  BY <1>7, <1>8, Zenon DEF unlessStrict
<1> HIDE DEF full, year
<1>10. parse(o).kind = "spec"
  BY <1>9 DEF specOf
<1> QED BY <1>10 DEF Rejected

\* What a field with one H holds.
LEMMA RekeyedField ==
  ASSUME NEW e, NEW o, NEW h \in Nat, Rekeyed(e, o, h), parse(e) # Rejected,
         \A g \in Names : \A k \in DOMAIN e[g] : e[g][k].step \in Nat \union {NoStep},
         NEW f \in Names, DOMAIN e[f] = {1}, hashed(e[f][1]),
         NEW r, r = allBounds(e.options)[f]
  PROVE  /\ HashedSteps(e[f][1]) /\ Ends(r, First(e[f][1], r), Final(e[f][1], r))
         /\ e[f][1].step \in (Nat \ {0}) \union {NoStep}
         /\ \A v \in Walk(e[f][1], r) : v \in parse(o)[f] <=> v \in Norm(r, HashBits(e[f][1], r, h))
<1> DEFINE i == e[f][1]
           bits == fieldBits(o)[f]
<1>1. parse(o) # Rejected
  BY RekeyedAccepted
<1>2. bits # Bad /\ parse(o)[f] \ {starBit} = (IF f = "Dow" THEN NormalizeDOW(bits) ELSE bits) \ {starBit}
  BY <1>1, ParsedField, Zenon
<1>3. /\ Field(r) /\ (isDowBounds(r) <=> f = "Dow")
  BY Bounds
<1>4. bits = getFieldWithHash(e[f], r, h)
  <2>1. o[f] = e[f] /\ o.hash = h /\ o.options = e.options \ {"StrictDays"}
    BY DEF Rekeyed, ExprParts, Names
  <2>2. allBounds(o.options) = allBounds(e.options) /\ DOMAIN allBounds(e.options) = Names
    BY <2>1, SameBounds, Bounds, Zenon
  <2>3. e[f] # <<>>
    <3>1. DOMAIN e[f] # {}
      OBVIOUS
    <3> QED BY <3>1
  <2> QED BY <2>1, <2>2, <2>3, Zenon DEF fieldBits
<1>5. bits = getRangeWithHash(i, r, h)
  <2> DEFINE parts == {getRangeWithHash(e[f][k], r, h) : k \in DOMAIN e[f]}
  <2>1. parts = {getRangeWithHash(i, r, h)}
    OBVIOUS
  <2>2. bits = joined(parts)
    BY <1>4, Zenon DEF getFieldWithHash
  <2> HIDE DEF parts, bits, i
  <2>3. bits = UNION parts
    BY <1>2, <2>2, Zenon DEF joined
  <2> QED BY <2>1, <2>3
<1>6. HashedSteps(i)
  BY DEF HashedSteps, hashed
<1>7. /\ Ends(r, First(i, r), Final(i, r)) /\ i.step \in (Nat \ {0}) \union {NoStep}
      /\ bits = HashBits(i, r, h)
  <2>1. getRangeWithHash(i, r, h) # Bad
    BY <1>2, <1>5, Zenon
  <2> HIDE DEF i, bits
  <2> QED BY <1>3, <1>5, <1>6, <2>1, HashParts
<1>8. starBit \notin Walk(i, r)
  <2> DEFINE first == First(i, r)
             P(k) == Place(r, first, k)
  <2>1. Walk(i, r) = {P(k) : k \in 0..Reach(i, r)}
    BY <1>6, <1>7, HashWalkPlaces DEF HashedSteps
  <2>2. Reach(i, r) \in 0..Distinct(r) - 1
    BY <1>7, ReachFacts DEF Reach
  <2>3. /\ Distinct(r) \in Nat /\ r.min \in Nat /\ r.min + Distinct(r) - 1 < starBit
    <3>1. /\ Distinct(r) \in Nat \ {0} /\ r.min \in Nat
          /\ isDowBounds(r) => r.min = 0 /\ r.max = DaysIn /\ Distinct(r) = DaysIn
          /\ ~isDowBounds(r) => r.max = r.min + Distinct(r) - 1
      BY <1>7, DistinctFacts
    <3>2. r.max < starBit /\ r.max \in Nat /\ starBit \in Nat
      BY <1>3 DEF Field, starBit
    <3>3. CASE isDowBounds(r)
      BY <3>1, <3>2, <3>3
    <3>4. CASE ~isDowBounds(r)
      BY <3>1, <3>2, <3>4
    <3> QED BY <3>3, <3>4
  <2>4. ASSUME NEW k \in 0..Reach(i, r)
        PROVE  P(k) # starBit
    <3>1. k \in 0..Distinct(r) - 1
      BY <2>2, <2>3
    <3>2. P(k) \in r.min..r.min + Distinct(r) - 1
      BY <1>7, <3>1, PlaceFacts
    <3> HIDE DEF P
    <3> QED BY <2>3, <3>2 DEF starBit
  <2> HIDE DEF P
  <2> QED BY <2>1, <2>4
<1>9. ASSUME NEW v \in Walk(i, r)
      PROVE  v \in parse(o)[f] <=> v \in Norm(r, HashBits(i, r, h))
  <2>1. v # starBit
    BY <1>8
  <2> HIDE DEF i, bits
  <2>2. Norm(r, bits) = IF f = "Dow" THEN NormalizeDOW(bits) ELSE bits
    BY <1>3, Zenon DEF Norm
  <2>3. v \in parse(o)[f] <=> v \in Norm(r, bits)
    BY <1>2, <2>1, <2>2
  <2> QED BY <1>7, <2>3
<1> QED BY <1>6, <1>7, <1>9

LEMMA EntryFair == EntryInv => HashFair
<1> SUFFICES ASSUME EntryInv, added, expr.kind = "fields",
                    NEW f \in DOMAIN Limits, DOMAIN expr[f] = {1}, hashed(expr[f][1])
             PROVE  Even([h \in 0..HashPeriod(expr[f][1], Limits[f]) - 1 |-> Parse(WithHash(h))[f]],
                         Walk(expr[f][1], Limits[f]))
  BY Zenon DEF HashFair
<1> DEFINE i == expr[f][1]
           r == Limits[f]
           period == HashPeriod(i, r)
           chosen == [h \in 0..period - 1 |-> Parse(WithHash(h))[f]]
<1>1. entry.sched = parse(expr) /\ parse(expr) # Rejected
  <2>1. Parse(expr) = parse(expr)
    BY Zenon DEF Parse, ParseOne
  <2> QED BY <2>1, Zenon DEF EntryInv, added
<1>2. f \in Names /\ DOMAIN Limits = Names /\ r = allBounds(expr.options)[f]
  BY Bounds, Zenon DEF Limits
<1>3. ExprParts \subseteq DOMAIN expr
      /\ \A g \in Names : \A k \in DOMAIN expr[g] : expr[g][k].step \in Nat \union {NoStep}
  BY <1>2, ScenesAssumption, Zenon DEF EntryInv, expr, Limits
<1>4. ASSUME NEW h
      PROVE  Rekeyed(expr, WithHash(h), h) /\ Parse(WithHash(h)) = parse(WithHash(h))
  <2>1. Rekeyed(expr, WithHash(h), h)
    <3> DEFINE e == expr
    <3>1. WithHash(h) = [[e EXCEPT !.hash = h] EXCEPT !.options = @ \ {"StrictDays"}]
      BY Zenon DEF WithHash
    <3>2. ExprParts \subseteq DOMAIN e
      BY <1>3
    <3> HIDE DEF e
    <3>3. Rekeyed(e, WithHash(h), h)
      BY <3>1, <3>2 DEF Rekeyed, ExprParts
    <3> QED BY <3>3 DEF e
  <2>2. WithHash(h).kind = "fields"
    BY <2>1 DEF Rekeyed, ExprParts
  <2> QED BY <2>1, <2>2, Zenon DEF Parse, ParseOne
<1>5. ASSUME NEW h \in Nat
      PROVE  /\ HashedSteps(i) /\ Ends(r, First(i, r), Final(i, r))
             /\ i.step \in (Nat \ {0}) \union {NoStep}
             /\ \A v \in Walk(i, r) : v \in Parse(WithHash(h))[f] <=> v \in Norm(r, HashBits(i, r, h))
  <2>1. Rekeyed(expr, WithHash(h), h) /\ Parse(WithHash(h)) = parse(WithHash(h))
    BY <1>4
  <2> DEFINE e == expr
             o == WithHash(h)
             b == Limits[f]
  <2>2. /\ Rekeyed(e, o, h) /\ parse(e) # Rejected
        /\ \A g \in Names : \A k \in DOMAIN e[g] : e[g][k].step \in Nat \union {NoStep}
        /\ f \in Names /\ DOMAIN e[f] = {1} /\ hashed(e[f][1]) /\ b = allBounds(e.options)[f]
    BY <1>1, <1>2, <1>3, <2>1, Zenon
  <2> HIDE DEF e, o, b
  <2>3. /\ HashedSteps(e[f][1]) /\ Ends(b, First(e[f][1], b), Final(e[f][1], b))
        /\ e[f][1].step \in (Nat \ {0}) \union {NoStep}
        /\ \A v \in Walk(e[f][1], b) : v \in parse(o)[f] <=> v \in Norm(b, HashBits(e[f][1], b, h))
    BY <2>2, RekeyedField
  <2> QED BY <2>1, <2>3, Zenon DEF e, o, b
<1>6. \A h \in DOMAIN chosen : h \in Nat
  <2>1. period \in Int
    <3> DEFINE n == cyclicRangeSize(First(i, r), Final(i, r), r)
    <3>1. 0 \in Nat
      OBVIOUS
    <3>2. period = IF i.step = NoStep THEN n * SingleRounds(n) ELSE i.step * (Reach(i, r) + 1)
      BY <1>5, <3>1, PeriodParts, Zenon
    <3>3. n \in Nat /\ Reach(i, r) \in Nat /\ i.step \in Int
      <4>1. n \in Nat \ {0} /\ Reach(i, r) \in 0..Distinct(r) - 1
        BY <1>5, <3>1, RangeSize, ReachFacts, Zenon DEF Reach
      <4>2. i.step \in (Nat \ {0}) \union {NoStep}
        BY <1>5, <3>1, Zenon
      <4> HIDE DEF n, i, r
      <4> QED BY <4>1, <4>2 DEF NoStep
    <3> HIDE DEF n, i, r, period
    <3> QED BY <3>2, <3>3 DEF SingleRounds
  <2> HIDE DEF period
  <2> QED BY <2>1
<1>7. \A h \in DOMAIN chosen : \A v \in Walk(i, r) :
        v \in chosen[h] <=> v \in Norm(r, HashBits(i, r, h))
  <2> TAKE h \in DOMAIN chosen
  <2>1. chosen[h] = Parse(WithHash(h))[f] /\ h \in Nat
    BY <1>6, Zenon
  <2> QED BY <1>5, <2>1, Zenon
<1>8. DOMAIN chosen = 0..HashPeriod(i, r) - 1
  BY Zenon
<1>9. 0 \in Nat
  OBVIOUS
<1>10. HashedSteps(i) /\ Ends(r, First(i, r), Final(i, r)) /\ i.step \in (Nat \ {0}) \union {NoStep}
  BY <1>5, <1>9, Zenon
<1> HIDE DEF i, r, chosen, period
<1>11. Even(chosen, Walk(i, r))
  BY <1>7, <1>8, <1>10, ItemEven, Zenon
<1> QED BY <1>11 DEF chosen, i, r, period

\* An H gives every value it may take to equally many keys: no value of the
\* range is left out and none, Sunday least of all, is favoured.
THEOREM HashAlwaysFair == Spec => []HashFair
<1>1. Init => EntryInv
  BY EntryStays
<1>2. EntryInv /\ [Next]_vars => EntryInv'
  BY EntryStep
<1>3. EntryInv => HashFair
  BY EntryFair
<1> QED BY <1>1, <1>2, <1>3, PTL DEF Spec
=============================================================================
