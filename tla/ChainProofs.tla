----------------------------- MODULE ChainProofs -----------------------------
(***************************************************************************)
(* What the wrappers of a chain guarantee, for any number of runs and jobs *)
(* and any chains: slots, failures, skips, reservations and the circuit    *)
(* breaker.                                                                *)
(***************************************************************************)
EXTENDS Chain, LockerProofs, FiniteSetTheorems

-----------------------------------------------------------------------------
(* The levels of one run: kinds are the wrappers and the job at level b,   *)
(* f and g are the phases of the levels before and after a step, and w     *)
(* says whether the run belongs to a workflow.                             *)

Phases == {"idle", "entered", "loaded", "timed", "inside", "grace", "recording", "stamped",
           "returned", "panicked"}
Quiet  == {"idle", "entered", "loaded", "timed"}
Live   == Phases \ ({"idle"} \union Finished)
Lines  == [Levels -> Phases]

\* No level between i and m lets go of the one below it.
Untimed(kinds, i, m) == \A l \in Levels : i <= l /\ l < m => kinds[l] \notin Timing

\* The context that level i receives carries the values of the run.
Carried(kinds, i) == \A l \in Levels : l < i => kinds[l] \notin Dropping

\* Some level may return although the job has panicked.
Hides(kinds, w) ==
    \E l \in Levels : \/ kinds[l] \in Timing
                      \/ kinds[l] = "Recover" /\ ~(w /\ Carried(kinds, l))
                      \/ kinds[l] = "Retry" /\ \E m \in Levels : m > l /\ kinds[m] \in Declining

\* Nothing happens below a level that has not called, a panic comes from the
\* job, and a level returns only when the one below has, timeouts excepted.
Nested(kinds, b, f) ==
    /\ \A m \in Levels : m > b => f[m] = "idle"
    /\ \A i, m \in Levels : i < m /\ f[i] \in Quiet => f[m] = "idle"
    /\ \A i, m \in Levels : i < m /\ m <= b /\ f[i] \in {"panicked", "recording", "stamped"} => f[m] = "panicked"
    /\ \A i, m \in Levels : i < m /\ f[m] \in Live /\ Untimed(kinds, i, m) => f[i] = "inside"

\* When the job has panicked, x, a level that waits does so for a retry, and one
\* that has returned hides the panic.
Surfaces(kinds, w, f, x) ==
    x => /\ f[1] # "idle"
         /\ \A i \in Levels : f[i] \in Quiet \ {"idle"} =>
                               \E l \in Levels : l < i /\ kinds[l] = "Retry"
         /\ (\E i \in Levels : f[i] = "returned") => Hides(kinds, w)

\* What may return without a call: a wait for a slot only when the context ends,
\* that of the run or that of a timeout.
GivesUp(kinds, i) ==
    \/ kinds[i] \in {"Skip", "MaxConcurrentSkip", "Circuit"}
    \/ kinds[i] = "MaxConcurrent" /\ (Carried(kinds, i) \/ \E l \in Levels : kinds[l] \in Timing)

Calls(f, g, i)     == g = [f EXCEPT ![i] = "inside", ![i + 1] = "entered"]
Leaves(f, g, i, p) == g = [f EXCEPT ![i] = p]
Retries(f, g, i)   == g = [l \in Levels |-> IF l <= i THEN f[l]
                                            ELSE IF l = i + 1 THEN "entered" ELSE "idle"]

\* What one step does to the levels of a run, when it is not the start of the
\* job or the refusal of a locker.
WrapperMove(kinds, w, f, g, i) ==
    \/ f[i] \in {"entered", "timed"} /\ Calls(f, g, i)
    \/ GivesUp(kinds, i) /\ f[i] \in {"entered", "timed"} /\ Leaves(f, g, i, "returned")
    \/ f[i] = "entered" /\ Leaves(f, g, i, "loaded")
    \/ f[i] = "loaded" /\ Leaves(f, g, i, "timed")
    \/ f[i] = "inside" /\ f[i + 1] = "panicked" /\ Leaves(f, g, i, "recording")
    \/ f[i] = "recording" /\ Leaves(f, g, i, "stamped")
    \/ f[i] = "stamped" /\ Leaves(f, g, i, "panicked")
    \/ f[i] \in {"inside", "grace"} /\ f[i + 1] \in Finished /\ Leaves(f, g, i, f[i + 1])
    \/ /\ kinds[i] = "Recover" /\ ~(w /\ Carried(kinds, i))
       /\ f[i] = "inside" /\ f[i + 1] \in Finished /\ Leaves(f, g, i, "returned")
    \/ /\ kinds[i] \in Timing /\ f[i] \in {"inside", "grace"}
       /\ (Leaves(f, g, i, "grace") \/ Leaves(f, g, i, "returned"))
    \/ kinds[i] = "Retry" /\ f[i] = "inside" /\ f[i + 1] = "panicked" /\ Retries(f, g, i)

RefuseMove(kinds, f, g, i) ==
    kinds[i] \in {"Exclusive", "Dedup"} /\ f[i] = "entered" /\ Leaves(f, g, i, "returned")

JobMove(f, g, b) == f[b] = "entered" /\ Leaves(f, g, b, "inside")

PlainMove(kinds, b, w, f, g) ==
    \/ f[1] = "idle" /\ Leaves(f, g, 1, "entered")
    \/ f[b] = "inside" /\ \E p \in Finished : Leaves(f, g, b, p)
    \/ \E i \in 1..(b - 1) : WrapperMove(kinds, w, f, g, i)

Move(kinds, b, w, f, g) ==
    \/ PlainMove(kinds, b, w, f, g)
    \/ JobMove(f, g, b)
    \/ \E i \in 1..(b - 1) : RefuseMove(kinds, f, g, i)

LEMMA LevelNumbers ==
    /\ Depth \in Nat /\ Levels \subseteq Nat /\ 1 \in Levels /\ \A l \in Levels : 1 <= l
    /\ \A b \in Levels : \A i \in 1..(b - 1) : i \in Levels /\ i + 1 \in Levels /\ i < b /\ i + 1 <= b
BY ChainAssumption DEF Levels

\* A step at one level: everything below it stays as it is.
LEMMA LeaveKeepsNested ==
    ASSUME NEW kinds, NEW b \in Levels, NEW f \in Lines, Nested(kinds, b, f),
           NEW i \in Levels, i <= b, NEW p \in Phases, p # "idle", NEW g, Leaves(f, g, i, p),
           f[i] \notin Finished,
           p \in Quiet \/ f[i] = "idle" => \A m \in Levels : m > i => f[m] = "idle",
           p \in {"panicked", "recording", "stamped"} => \A m \in Levels : m > i /\ m <= b => f[m] = "panicked",
           f[i] = "idle" => i = 1,
           p # "inside" /\ f[i] = "inside" => \A m \in Levels : m > i /\ f[m] \in Live => ~Untimed(kinds, i, m)
    PROVE  g \in Lines /\ Nested(kinds, b, g)
<1>1. g \in Lines /\ g[i] = p /\ \A l \in Levels : l # i => g[l] = f[l]
    BY DEF Leaves, Lines
<1>2. Levels \subseteq Nat /\ \A l \in Levels : 1 <= l
    BY LevelNumbers
<1> HIDE DEF Levels
<1>3. \A m \in Levels : m > b => g[m] = "idle"
    BY <1>1, <1>2 DEF Nested
<1>4. \A l, m \in Levels : l < m /\ g[l] \in Quiet => g[m] = "idle"
    BY <1>1, <1>2 DEF Nested
<1>5. \A l, m \in Levels : l < m /\ m <= b /\ g[l] \in {"panicked", "recording", "stamped"} => g[m] = "panicked"
    BY <1>1, <1>2 DEF Nested, Finished
<1>6. \A l, m \in Levels : l < m /\ g[m] \in Live /\ Untimed(kinds, l, m) => g[l] = "inside"
    <2>1. SUFFICES ASSUME NEW l \in Levels, NEW m \in Levels, l < m, g[m] \in Live, Untimed(kinds, l, m)
                   PROVE  g[l] = "inside"
        OBVIOUS
    <2>2. CASE m # i /\ l # i
        BY <1>1, <2>1, <2>2 DEF Nested
    <2>3. CASE m = i
        <3>1. f[i] # "idle" /\ f[i] \in Phases
            BY <1>2, <2>1, <2>3 DEF Lines
        <3>2. f[i] \in Live
            BY <3>1 DEF Live, Finished, Phases
        <3>3. QED
            BY <1>1, <1>2, <2>1, <2>3, <3>2 DEF Nested
    <2>4. CASE l = i
        <3>1. f[i] = "inside"
            BY <1>1, <1>2, <2>1, <2>4 DEF Nested
        <3>2. QED
            BY <1>1, <1>2, <2>1, <2>4, <3>1
    <2>5. QED
        BY <2>2, <2>3, <2>4
<1>7. QED
    BY <1>1, <1>3, <1>4, <1>5, <1>6 DEF Nested

\* A level calls the next one.
LEMMA CallKeepsNested ==
    ASSUME NEW kinds, NEW b \in Levels, NEW f \in Lines, Nested(kinds, b, f),
           NEW i \in 1..(b - 1), f[i] \in {"entered", "loaded", "timed"}, NEW g, Calls(f, g, i)
    PROVE  g \in Lines /\ Nested(kinds, b, g)
<1>1. /\ Levels \subseteq Nat /\ i \in Levels /\ i + 1 \in Levels /\ i < b /\ i + 1 <= b
    BY LevelNumbers
<1>2. /\ g \in Lines /\ g[i] = "inside" /\ g[i + 1] = "entered"
      /\ \A l \in Levels : l # i /\ l # i + 1 => g[l] = f[l]
    BY <1>1 DEF Calls, Lines, Phases
<1>3. \A m \in Levels : i < m => f[m] = "idle"
    BY <1>1 DEF Nested, Quiet
<1> HIDE DEF Levels
<1>4. \A m \in Levels : m > b => g[m] = "idle"
    BY <1>1, <1>2 DEF Nested
<1>5. \A l, m \in Levels : l < m /\ g[l] \in Quiet => g[m] = "idle"
    BY <1>1, <1>2, <1>3 DEF Nested, Quiet
<1>6. \A l, m \in Levels : l < m /\ m <= b /\ g[l] \in {"panicked", "recording", "stamped"} => g[m] = "panicked"
    BY <1>1, <1>2, <1>3 DEF Nested
<1>7. \A l, m \in Levels : l < m /\ g[m] \in Live /\ Untimed(kinds, l, m) => g[l] = "inside"
    <2>1. SUFFICES ASSUME NEW l \in Levels, NEW m \in Levels, l < m, g[m] \in Live, Untimed(kinds, l, m)
                   PROVE  g[l] = "inside"
        OBVIOUS
    <2>2. m < i \/ m = i \/ m = i + 1
        BY <1>1, <1>2, <1>3, <2>1 DEF Live
    <2>3. CASE l = i
        BY <1>2, <2>3
    <2>4. CASE l < i
        <3>1. f[i] \in Live
            BY DEF Live, Phases, Finished
        <3>2. m < i => f[m] \in Live
            BY <1>1, <1>2, <2>1
        <3>3. Untimed(kinds, l, i) \/ m < i
            BY <1>1, <2>1, <2>2 DEF Untimed
        <3>4. f[l] = "inside"
            BY <1>1, <2>1, <2>4, <3>1, <3>2, <3>3 DEF Nested
        <3>5. QED
            BY <1>1, <1>2, <2>4, <3>4
    <2>5. QED
        BY <1>1, <2>1, <2>2, <2>3, <2>4
<1>8. QED
    BY <1>2, <1>4, <1>5, <1>6, <1>7 DEF Nested

\* When a level panicked, so did every level below it.
LEMMA PanicBelow ==
    ASSUME NEW kinds, NEW b \in Levels, NEW f \in Lines, Nested(kinds, b, f),
           NEW i \in 1..(b - 1), f[i + 1] = "panicked"
    PROVE  \A m \in Levels : m > i => f[m] = IF m <= b THEN "panicked" ELSE "idle"
<1>1. /\ Levels \subseteq Nat /\ i \in Levels /\ i + 1 \in Levels /\ i < b /\ i + 1 <= b
    BY LevelNumbers
<1>2. QED
    BY <1>1 DEF Nested

\* A level that is not live has none below it that it could let go of.
LEMMA NoneLiveBelow ==
    ASSUME NEW kinds, NEW b \in Levels, NEW f \in Lines, Nested(kinds, b, f),
           NEW i \in 1..(b - 1), f[i + 1] \in Finished,
           NEW m \in Levels, m > i, f[m] \in Live
    PROVE  ~Untimed(kinds, i, m)
<1>1. /\ Levels \subseteq Nat /\ i \in Levels /\ i + 1 \in Levels
    BY LevelNumbers
<1>2. m > i + 1
    BY <1>1 DEF Live
<1>3. Untimed(kinds, i, m) => Untimed(kinds, i + 1, m)
    BY <1>1 DEF Untimed
<1>4. QED
    BY <1>1, <1>2, <1>3 DEF Nested, Finished

LEMMA RetryKeepsNested ==
    ASSUME NEW kinds, NEW b \in Levels, NEW f \in Lines, Nested(kinds, b, f),
           NEW i \in 1..(b - 1), f[i] = "inside", f[i + 1] = "panicked", NEW g, Retries(f, g, i)
    PROVE  g \in Lines /\ Nested(kinds, b, g)
<1>1. /\ Levels \subseteq Nat /\ i \in Levels /\ i + 1 \in Levels /\ i < b /\ i + 1 <= b
    BY LevelNumbers
<1>2. /\ g \in Lines
      /\ \A l \in Levels : g[l] = IF l <= i THEN f[l] ELSE IF l = i + 1 THEN "entered" ELSE "idle"
    BY DEF Retries, Lines, Phases
<1> HIDE DEF Levels
<1>3. \A m \in Levels : m > b => g[m] = "idle"
    BY <1>1, <1>2 DEF Nested
<1>4. \A l, m \in Levels : l < m /\ g[l] \in Quiet => g[m] = "idle"
    BY <1>1, <1>2 DEF Nested, Quiet
<1>5. \A l, m \in Levels : l < m /\ m <= b /\ g[l] \in {"panicked", "recording", "stamped"} => g[m] = "panicked"
    BY <1>1, <1>2 DEF Nested
<1>6. \A l, m \in Levels : l < m /\ g[m] \in Live /\ Untimed(kinds, l, m) => g[l] = "inside"
    <2>1. SUFFICES ASSUME NEW l \in Levels, NEW m \in Levels, l < m, g[m] \in Live, Untimed(kinds, l, m)
                   PROVE  g[l] = "inside"
        OBVIOUS
    <2>2. m <= i + 1
        BY <1>1, <1>2, <2>1 DEF Live
    <2>3. CASE m <= i
        BY <1>1, <1>2, <2>1, <2>3 DEF Nested
    <2>4. CASE m = i + 1
        <3>1. l = i \/ (l < i /\ Untimed(kinds, l, i))
            BY <1>1, <2>1, <2>4 DEF Untimed
        <3>2. f[i] \in Live
            BY DEF Live, Phases, Finished
        <3>3. f[l] = "inside"
            BY <1>1, <3>1, <3>2 DEF Nested
        <3>4. QED
            BY <1>1, <1>2, <3>1, <3>3
    <2>5. QED
        BY <1>1, <2>2, <2>3, <2>4
<1>7. QED
    BY <1>2, <1>3, <1>4, <1>5, <1>6 DEF Nested

LEMMA WrapperMoveKeepsNested ==
    ASSUME NEW kinds, NEW b \in Levels, NEW w \in BOOLEAN, NEW f \in Lines, Nested(kinds, b, f),
           NEW i \in 1..(b - 1), NEW g,
           WrapperMove(kinds, w, f, g, i) \/ RefuseMove(kinds, f, g, i)
    PROVE  g \in Lines /\ Nested(kinds, b, g)
<1>1. /\ Levels \subseteq Nat /\ i \in Levels /\ i + 1 \in Levels /\ i < b /\ i + 1 <= b
    BY LevelNumbers
<1>2. CASE f[i] \in {"entered", "loaded", "timed"} /\ Calls(f, g, i)
    BY <1>2, CallKeepsNested
<1>3. ASSUME NEW p \in {"loaded", "timed", "returned"}, f[i] \in {"entered", "loaded", "timed"}, Leaves(f, g, i, p)
      PROVE  g \in Lines /\ Nested(kinds, b, g)
    <2>1. \A m \in Levels : m > i => f[m] = "idle"
        BY <1>1, <1>3 DEF Nested, Quiet
    <2>2. f[i] \notin Finished /\ f[i] # "idle" /\ f[i] # "inside" /\ p \in Phases
        BY <1>3 DEF Finished, Phases
    <2>3. QED
        BY <1>1, <1>3, <2>1, <2>2, LeaveKeepsNested
<1>4. ASSUME NEW p \in Finished \union {"recording", "stamped"},
             f[i] \in {"inside", "grace", "recording", "stamped"},
             p \in {"panicked", "recording", "stamped"} =>
                 f[i + 1] = "panicked" \/ f[i] \in {"recording", "stamped"},
             f[i] = "inside" => f[i + 1] \in Finished \/ kinds[i] \in Timing,
             Leaves(f, g, i, p)
      PROVE  g \in Lines /\ Nested(kinds, b, g)
    <2>1. f[i] \notin Finished /\ f[i] # "idle" /\ p \in Phases /\ p # "idle" /\ p \notin Quiet
        BY <1>4 DEF Finished, Phases, Quiet
    <2>2. p \in {"panicked", "recording", "stamped"} => \A m \in Levels : m > i /\ m <= b => f[m] = "panicked"
        <3>1. CASE f[i + 1] = "panicked"
            BY <1>1, <3>1 DEF Nested
        <3>2. CASE f[i] \in {"recording", "stamped"}
            BY <1>1, <3>2 DEF Nested
        <3>3. QED
            BY <1>4, <3>1, <3>2
    <2>3. f[i] = "inside" => \A m \in Levels : m > i /\ f[m] \in Live => ~Untimed(kinds, i, m)
        <3>1. CASE f[i + 1] \in Finished
            BY <3>1, NoneLiveBelow
        <3>2. CASE kinds[i] \in Timing
            BY <1>1, <3>2 DEF Untimed
        <3>3. QED
            BY <1>4, <3>1, <3>2
    <2>4. QED
        BY <1>1, <1>4, <2>1, <2>2, <2>3, LeaveKeepsNested
<1>5. CASE kinds[i] \in Timing /\ f[i] \in {"inside", "grace"} /\ Leaves(f, g, i, "grace")
    <2>1. "grace" \in Phases /\ f[i] \notin Finished /\ f[i] # "idle" /\ "grace" \notin Quiet
        BY <1>5 DEF Finished, Phases, Quiet
    <2>2. \A m \in Levels : m > i => ~Untimed(kinds, i, m)
        BY <1>1, <1>5 DEF Untimed
    <2>3. QED
        BY <1>1, <1>5, <2>1, <2>2, LeaveKeepsNested
<1>6. CASE kinds[i] = "Retry" /\ f[i] = "inside" /\ f[i + 1] = "panicked" /\ Retries(f, g, i)
    BY <1>6, RetryKeepsNested
<1>7. QED
    BY <1>2, <1>3, <1>4, <1>5, <1>6 DEF WrapperMove, RefuseMove, Finished

LEMMA MoveKeepsNested ==
    ASSUME NEW kinds, NEW b \in Levels, NEW w \in BOOLEAN, NEW f \in Lines, Nested(kinds, b, f),
           NEW g, Move(kinds, b, w, f, g)
    PROVE  g \in Lines /\ Nested(kinds, b, g)
<1>1. /\ Levels \subseteq Nat /\ 1 \in Levels /\ \A l \in Levels : 1 <= l
    BY LevelNumbers
<1>2. CASE f[1] = "idle" /\ Leaves(f, g, 1, "entered")
    <2>1. \A m \in Levels : m > 1 => f[m] = "idle"
        BY <1>1, <1>2 DEF Nested, Quiet
    <2>2. "entered" \in Phases /\ f[1] \notin Finished /\ 1 <= b
        BY <1>1, <1>2 DEF Phases, Finished
    <2>3. QED
        BY <1>1, <1>2, <2>1, <2>2, LeaveKeepsNested
<1>3. ASSUME NEW p \in Finished \union {"inside"}, f[b] \in {"entered", "inside"}, Leaves(f, g, b, p)
      PROVE  g \in Lines /\ Nested(kinds, b, g)
    <2>1. \A m \in Levels : m > b => f[m] = "idle"
        BY DEF Nested
    <2>2. f[b] \notin Finished /\ f[b] # "idle" /\ p \in Phases /\ p # "idle" /\ p \notin Quiet
        BY <1>3 DEF Finished, Phases, Quiet
    <2>3. \A m \in Levels : m > b => f[m] \notin Live
        BY <2>1 DEF Live
    <2>4. \A m \in Levels : ~(m > b /\ m <= b) /\ b <= b
        BY <1>1
    <2>5. QED
        BY <1>1, <1>3, <2>1, <2>2, <2>3, <2>4, LeaveKeepsNested
<1>4. ASSUME NEW i \in 1..(b - 1), WrapperMove(kinds, w, f, g, i) \/ RefuseMove(kinds, f, g, i)
      PROVE  g \in Lines /\ Nested(kinds, b, g)
    BY <1>4, WrapperMoveKeepsNested
<1>5. QED
    BY <1>2, <1>3, <1>4 DEF Move, PlainMove, JobMove

LEMMA LeavesPhases ==
    ASSUME NEW f \in Lines, NEW i, NEW p, NEW g, Leaves(f, g, i, p)
    PROVE  \A l \in Levels : g[l] = IF l = i THEN p ELSE f[l]
BY DEF Leaves, Lines

LEMMA CallsPhases ==
    ASSUME NEW f \in Lines, NEW b \in Levels, NEW i \in 1..(b - 1), NEW g, Calls(f, g, i)
    PROVE  \A l \in Levels : g[l] = IF l = i THEN "inside" ELSE IF l = i + 1 THEN "entered" ELSE f[l]
BY LevelNumbers DEF Calls, Lines

\* The end of the job: every level above is inside, unless a timeout let go.
LEMMA EndSurfaces ==
    ASSUME NEW kinds, NEW b \in Levels, NEW w \in BOOLEAN, NEW f \in Lines, Nested(kinds, b, f),
           f[b] = "inside", NEW p \in Finished, NEW g, Leaves(f, g, b, p)
    PROVE  Surfaces(kinds, w, g, p = "panicked")
<1>1. /\ Levels \subseteq Nat /\ 1 \in Levels /\ \A l \in Levels : 1 <= l
    BY LevelNumbers
<1>2. \A l \in Levels : g[l] = IF l = b THEN p ELSE f[l]
    BY LeavesPhases
<1>3. \A l \in Levels : l < b => f[l] \notin Quiet
    BY DEF Nested
<1>4. \A l \in Levels : l > b => f[l] = "idle"
    BY DEF Nested
<1>5. p \notin Quiet /\ f[b] \in Live
    BY DEF Quiet, Finished, Live, Phases
<1>6. g[1] # "idle"
    BY <1>1, <1>2, <1>3, <1>5 DEF Quiet
<1>7. \A i \in Levels : g[i] \notin Quiet \ {"idle"}
    BY <1>1, <1>2, <1>3, <1>4, <1>5
<1>8. ASSUME ~Hides(kinds, w), NEW i \in Levels, g[i] = "returned", p = "panicked"
      PROVE  FALSE
    <2>1. i < b /\ f[i] = "returned"
        BY <1>1, <1>2, <1>4, <1>8
    <2>2. Untimed(kinds, i, b)
        BY <1>8 DEF Untimed, Hides
    <2>3. QED
        BY <1>5, <2>1, <2>2 DEF Nested
<1>9. QED
    BY <1>6, <1>7, <1>8 DEF Surfaces

\* Any other move: only a level that hides the panic returns after it.
LEMMA MoveKeepsSurfaces ==
    ASSUME NEW kinds, NEW b \in Levels, NEW w \in BOOLEAN, NEW f \in Lines, NEW g,
           Surfaces(kinds, w, f, TRUE),
           \/ f[1] = "idle" /\ Leaves(f, g, 1, "entered")
           \/ JobMove(f, g, b)
           \/ \E i \in 1..(b - 1) : WrapperMove(kinds, w, f, g, i) \/ RefuseMove(kinds, f, g, i)
    PROVE  Surfaces(kinds, w, g, TRUE)
<1>1. /\ Levels \subseteq Nat /\ 1 \in Levels /\ \A l \in Levels : 1 <= l
    BY LevelNumbers
<1>2. /\ f[1] # "idle"
      /\ \A i \in Levels : f[i] \in Quiet \ {"idle"} => \E l \in Levels : l < i /\ kinds[l] = "Retry"
      /\ \A i \in Levels : f[i] = "returned" => Hides(kinds, w)
    BY DEF Surfaces
<1>3. ASSUME NEW i \in Levels, NEW p, Leaves(f, g, i, p), p # "idle",
             p \in Quiet => f[i] \in Quiet \ {"idle"}, p = "returned" => Hides(kinds, w)
      PROVE  Surfaces(kinds, w, g, TRUE)
    <2>1. \A l \in Levels : g[l] = IF l = i THEN p ELSE f[l]
        BY <1>3, LeavesPhases
    <2>2. QED
        BY <1>1, <1>2, <1>3, <2>1 DEF Surfaces
<1>4. CASE JobMove(f, g, b)
    BY <1>3, <1>4 DEF JobMove, Quiet
<1>5. ASSUME NEW i \in 1..(b - 1), WrapperMove(kinds, w, f, g, i) \/ RefuseMove(kinds, f, g, i)
      PROVE  Surfaces(kinds, w, g, TRUE)
    <2>1. i \in Levels /\ i + 1 \in Levels /\ i < b
        BY LevelNumbers
    <2>2. CASE f[i] \in {"entered", "timed"} /\ Calls(f, g, i)
        <3>1. \A l \in Levels : g[l] = IF l = i THEN "inside" ELSE IF l = i + 1 THEN "entered" ELSE f[l]
            BY <2>2, CallsPhases
        <3>2. PICK l \in Levels : l < i /\ kinds[l] = "Retry"
            BY <1>2, <2>1, <2>2 DEF Quiet
        <3>3. l < i + 1
            BY <1>1, <2>1, <3>2
        <3>4. g[1] # "idle"
            BY <1>1, <1>2, <3>1
        <3>5. \A k \in Levels : g[k] \in Quiet \ {"idle"} => k = i + 1 \/ (g[k] = f[k])
            BY <3>1 DEF Quiet
        <3>6. \A k \in Levels : g[k] = "returned" => f[k] = "returned"
            BY <3>1
        <3>7. QED
            BY <1>2, <3>2, <3>3, <3>4, <3>5, <3>6 DEF Surfaces
    <2>3. CASE kinds[i] = "Retry" /\ Retries(f, g, i)
        <3>1. \A l \in Levels : g[l] = IF l <= i THEN f[l] ELSE IF l = i + 1 THEN "entered" ELSE "idle"
            BY <2>3 DEF Retries
        <3>2. g[1] # "idle"
            BY <1>1, <1>2, <2>1, <3>1
        <3>3. \A k \in Levels : g[k] \in Quiet \ {"idle"} => i < k \/ g[k] = f[k]
            BY <1>1, <2>1, <3>1
        <3>4. \A k \in Levels : g[k] = "returned" => f[k] = "returned"
            BY <3>1
        <3>5. QED
            BY <1>2, <2>1, <2>3, <3>2, <3>3, <3>4 DEF Surfaces
    <2>4. ASSUME f[i] \in {"entered", "timed"}, GivesUp(kinds, i) \/ kinds[i] \in {"Exclusive", "Dedup"}
          PROVE  Hides(kinds, w)
        <3>1. PICK l \in Levels : l < i /\ kinds[l] = "Retry"
            BY <1>2, <2>1, <2>4 DEF Quiet
        <3>2. ~Carried(kinds, i)
            BY <3>1 DEF Carried, Dropping
        <3>3. i > l
            BY <1>1, <2>1, <3>1
        <3>4. kinds[i] \in Declining \/ \E m \in Levels : kinds[m] \in Timing
            BY <2>4, <3>2 DEF GivesUp, Declining
        <3>5. QED
            BY <2>1, <3>1, <3>3, <3>4 DEF Hides
    <2>5. kinds[i] \in Timing => Hides(kinds, w)
        BY <2>1 DEF Hides
    <2>6. kinds[i] = "Recover" /\ ~(w /\ Carried(kinds, i)) => Hides(kinds, w)
        BY <2>1 DEF Hides
    <2>7. f[i + 1] = "returned" => Hides(kinds, w)
        BY <1>2, <2>1
    <2>8. \/ \E p : /\ Leaves(f, g, i, p) /\ p # "idle"
                    /\ p \in Quiet => f[i] \in Quiet \ {"idle"}
                    /\ p = "returned" => Hides(kinds, w)
          \/ f[i] \in {"entered", "timed"} /\ Calls(f, g, i)
          \/ kinds[i] = "Retry" /\ Retries(f, g, i)
        <3>1. /\ {"grace", "recording", "stamped", "panicked", "returned"} \cap Quiet = {}
              /\ "entered" \in Quiet \ {"idle"} /\ "loaded" \in Quiet \ {"idle"}
              /\ Finished = {"returned", "panicked"}
            BY DEF Quiet, Finished
        <3>2. CASE RefuseMove(kinds, f, g, i)
            BY <2>4, <3>1, <3>2 DEF RefuseMove
        <3>3. CASE WrapperMove(kinds, w, f, g, i)
            BY <2>4, <2>5, <2>6, <2>7, <3>1, <3>3, Zenon DEF WrapperMove
        <3>4. QED
            BY <1>5, <3>2, <3>3
    <2>9. QED
        BY <1>3, <2>1, <2>2, <2>3, <2>8
<1>6. QED
    BY <1>2, <1>4, <1>5

\* A step of one level leaves no other one inside, and brings none there.
LEMMA OtherLevelsKept ==
    ASSUME NEW kinds, NEW b \in Levels, NEW w \in BOOLEAN, NEW f \in Lines, Nested(kinds, b, f),
           NEW i \in 1..(b - 1), NEW g, WrapperMove(kinds, w, f, g, i) \/ RefuseMove(kinds, f, g, i),
           NEW m \in Levels, m # i
    PROVE  f[m] = "inside" <=> g[m] = "inside"
<1>1. Levels \subseteq Nat /\ i \in Levels /\ i + 1 \in Levels /\ i < b /\ i + 1 <= b
    BY LevelNumbers
<1>2. CASE f[i] \in {"entered", "loaded", "timed"} /\ Calls(f, g, i)
    <2>1. f[i + 1] = "idle"
        BY <1>1, <1>2 DEF Nested, Quiet
    <2>2. g[m] = IF m = i + 1 THEN "entered" ELSE f[m]
        BY <1>1, <1>2 DEF Calls, Lines
    <2>3. QED
        BY <2>1, <2>2
<1>3. ASSUME NEW p, Leaves(f, g, i, p)
      PROVE  f[m] = "inside" <=> g[m] = "inside"
    BY <1>3 DEF Leaves, Lines
<1>4. CASE f[i + 1] = "panicked" /\ Retries(f, g, i)
    <2>1. m > i => f[m] \in {"panicked", "idle"}
        BY <1>4, PanicBelow
    <2>2. g[m] = IF m <= i THEN f[m] ELSE IF m = i + 1 THEN "entered" ELSE "idle"
        BY <1>4 DEF Retries
    <2>3. QED
        BY <1>1, <2>1, <2>2
<1>5. QED
    BY <1>2, <1>3, <1>4 DEF WrapperMove, RefuseMove

-----------------------------------------------------------------------------
(* Steps of the runs *)

KindsOf(r) == [i \in Levels |-> Kind(r, i)]

ChainTypes ==
    /\ chains \in Configs /\ Accepted(chains)
    /\ phase \in [Runs -> Lines]
    /\ expired \in [Runs -> SUBSET Levels]
    /\ \A r \in Runs : \A k \in expired[r] : Kind(r, k) = "TimeoutWithContext"

\* The levels of every run are nested.
LinesInv == \A r \in Runs : Nested(KindsOf(r), Body(r), phase[r])

LEMMA BodyFacts ==
    ASSUME ChainTypes, NEW r \in Runs
    PROVE  /\ JobOf[r] \in Jobs /\ Body(r) \in Levels /\ Body(r) \in Nat /\ 1 <= Body(r)
           /\ \A i \in 1..(Body(r) - 1) :
                 /\ i \in Levels /\ i + 1 \in Levels /\ i \in DOMAIN chains[JobOf[r]]
                 /\ Kind(r, i) = Wrapper(r, i).kind /\ Kind(r, i) \in Kinds
           /\ \A i \in Levels : Kind(r, i) # "Job" => i \in 1..(Body(r) - 1)
           /\ Kind(r, Body(r)) = "Job"
<1>1. /\ JobOf[r] \in Jobs /\ Len(chains[JobOf[r]]) \in 0..Depth /\ Depth \in Nat
      /\ DOMAIN chains[JobOf[r]] = 1..Len(chains[JobOf[r]])
      /\ \A i \in DOMAIN chains[JobOf[r]] : chains[JobOf[r]][i].kind \in Kinds
    BY ChainAssumption DEF ChainTypes
<1>2. Body(r) = Len(chains[JobOf[r]]) + 1
    BY DEF Body
<1>3. QED
    BY <1>1, <1>2 DEF Levels, Kind, Wrapper

LEMMA ValuesCarried ==
    ASSUME NEW r, NEW i \in Levels
    PROVE  HasValues(r, i) <=> Carried(KindsOf(r), i)
BY LevelNumbers DEF HasValues, Dropped, Carried, KindsOf, Levels

\* The steps of the wrapper at level i, the refusal of a locker excepted.
WrapperStep(r, i) ==
    \/ PassIn(r, i) \/ JitterReturns(r, i) \/ RecoverReturns(r, i)
    \/ Acquire(r, i) \/ GiveUp(r, i) \/ Vacate(r, i)
    \/ TimeoutReturns(r, i) \/ Deadline(r, i) \/ Abandon(r, i)
    \/ Attempt(r, i) \/ Again(r, i) \/ RetryReturns(r, i)
    \/ LoadFailures(r, i) \/ LoadFailTime(r, i) \/ Decide(r, i)
    \/ AddFailure(r, i) \/ ReadFailureTime(r, i) \/ StoreFailureTime(r, i) \/ ResetOnSuccess(r, i)
    \/ Reserve(r, i) \/ Unshared(r, i)
    \/ ReleaseReturns(r, i) \/ DedupReturns(r, i)

LEMMA NextCases ==
    ASSUME ChainTypes, Next
    PROVE  \/ TimePasses
           \/ \E r \in Runs : \/ StartRun(r) \/ CancelRun(r) \/ JobStarts(r) \/ JobEnds(r)
                              \/ \E i \in 1..(Body(r) - 1) : WrapperStep(r, i) \/ Refuse(r, i)
<1>1. ASSUME NEW r \in Runs, NEW i \in Levels, Deadline(r, i) \/ Abandon(r, i)
      PROVE  i \in 1..(Body(r) - 1)
    <2>1. Kind(r, i) # "Job"
        BY <1>1, Zenon DEF Deadline, Abandon, At
    <2>2. QED
        BY <2>1, BodyFacts
<1>2. ASSUME NEW r \in Runs, Step(r)
      PROVE  \/ JobStarts(r) \/ JobEnds(r)
             \/ \E i \in 1..(Body(r) - 1) : WrapperStep(r, i) \/ Refuse(r, i)
    BY <1>2, Zenon DEF Step, WrapperStep
<1>3. ASSUME NEW r \in Runs, NEW i \in 1..(Body(r) - 1), Deadline(r, i) \/ Abandon(r, i)
      PROVE  WrapperStep(r, i)
    BY <1>3, Zenon DEF WrapperStep
<1>4. QED
    BY <1>1, <1>2, <1>3, Zenon DEF Next

Sets(r, g) == phase' = [phase EXCEPT ![r] = g]

LEMMA PhaseForms ==
    ASSUME NEW r, NEW i
    PROVE  /\ \A p : Becomes(r, i, p) => \E g : Sets(r, g) /\ Leaves(phase[r], g, i, p)
           /\ Call(r, i) => \E g : Sets(r, g) /\ Calls(phase[r], g, i)
BY DEF Becomes, Call, Sets, Leaves, Calls

LEMMA WrapperStepMoves ==
    ASSUME ChainTypes, NEW r \in Runs, NEW i \in 1..(Body(r) - 1), WrapperStep(r, i)
    PROVE  /\ \E g : Sets(r, g) /\ WrapperMove(KindsOf(r), r \in WorkflowRuns, phase[r], g, i)
           /\ UNCHANGED otherVars
<1>1. i \in Levels /\ i + 1 \in Levels /\ KindsOf(r)[i] = Kind(r, i)
    BY BodyFacts DEF KindsOf
<1> DEFINE f == phase[r]
           w == r \in WorkflowRuns
           Moves == \E g : Sets(r, g) /\ WrapperMove(KindsOf(r), w, f, g, i)
<1>2. ASSUME f[i] \in {"entered", "timed"}, Call(r, i) PROVE Moves
    BY <1>2, PhaseForms DEF WrapperMove
<1>3. ASSUME f[i] \in {"inside", "grace"}, Inner(r, i) \in Finished, Becomes(r, i, Inner(r, i))
      PROVE  Moves
    BY <1>3, PhaseForms DEF WrapperMove, Inner
<1>4. CASE PassIn(r, i) \/ Acquire(r, i) \/ Attempt(r, i) \/ Reserve(r, i) \/ Unshared(r, i)
    <2>1. f[i] = "entered" /\ Call(r, i)
        BY <1>4, Zenon DEF PassIn, Acquire, Attempt, Reserve, Unshared, At
    <2>2. UNCHANGED otherVars
        BY <1>4, Zenon DEF PassIn, Acquire, Attempt, Reserve, Unshared
    <2>3. QED
        BY <1>2, <2>1, <2>2
<1>5. CASE JitterReturns(r, i) \/ Vacate(r, i) \/ TimeoutReturns(r, i) \/ RetryReturns(r, i)
               \/ ReleaseReturns(r, i) \/ DedupReturns(r, i)
    <2>1. f[i] \in {"inside", "grace"} /\ Inner(r, i) \in Finished /\ Becomes(r, i, Inner(r, i))
        BY <1>5, Zenon DEF JitterReturns, Vacate, TimeoutReturns, RetryReturns, ReleaseReturns,
                           DedupReturns, At
    <2>2. UNCHANGED otherVars
        BY <1>5, Zenon DEF JitterReturns, Vacate, TimeoutReturns, RetryReturns, ReleaseReturns,
                           DedupReturns
    <2>3. QED
        BY <1>3, <2>1, <2>2
<1>6. CASE RecoverReturns(r, i)
    <2>1. /\ KindsOf(r)[i] = "Recover" /\ f[i] = "inside" /\ Inner(r, i) \in Finished
          /\ Becomes(r, i, IF Repanics(r, i) THEN Inner(r, i) ELSE "returned") /\ UNCHANGED otherVars
        BY <1>1, <1>6, Zenon DEF RecoverReturns, At
    <2>2. Repanics(r, i) <=> w /\ Carried(KindsOf(r), i)
        BY <1>1, ValuesCarried DEF Repanics
    <2>3. CASE Repanics(r, i)
        BY <1>3, <2>1, <2>3
    <2>4. CASE ~Repanics(r, i)
        <3>1. Becomes(r, i, "returned")
            BY <2>1, <2>4
        <3>2. PICK g : Sets(r, g) /\ Leaves(f, g, i, "returned")
            BY <3>1, PhaseForms
        <3>3. WrapperMove(KindsOf(r), w, f, g, i)
            BY <2>1, <2>2, <2>4, <3>2 DEF WrapperMove, Inner
        <3>4. QED
            BY <2>1, <3>2, <3>3
    <2>5. QED
        BY <2>3, <2>4
<1>7. CASE GiveUp(r, i) \/ Decide(r, i)
    <2>1. /\ f[i] \in {"entered", "timed"} /\ UNCHANGED otherVars
          /\ Call(r, i) \/ Becomes(r, i, "returned")
        BY <1>7, Zenon DEF GiveUp, Decide, At
    <2>2. GivesUp(KindsOf(r), i)
        <3>1. CASE Decide(r, i)
            BY <1>1, <3>1 DEF Decide, At, GivesUp
        <3>2. CASE At(r, i, {"Skip", "MaxConcurrentSkip"}, "entered")
            BY <1>1, <3>2 DEF At, GivesUp
        <3>3. CASE At(r, i, {"MaxConcurrent"}, "entered") /\ CtxDone(r, i)
            <4>1. KindsOf(r)[i] = "MaxConcurrent"
                BY <1>1, <3>3 DEF At
            <4>2. CASE HasValues(r, i)
                BY <1>1, <4>1, <4>2, ValuesCarried DEF GivesUp
            <4>3. CASE \E k \in expired[r] : k < i
                <5>1. PICK k \in expired[r] : k < i
                    BY <4>3
                <5>2. k \in Levels /\ KindsOf(r)[k] = "TimeoutWithContext"
                    BY DEF ChainTypes, KindsOf
                <5>3. QED
                    BY <4>1, <5>2 DEF GivesUp, Timing
            <4>4. QED
                BY <3>3, <4>2, <4>3 DEF CtxDone
        <3>4. QED
            BY <1>7, <3>1, <3>2, <3>3 DEF GiveUp
    <2>3. CASE Call(r, i)
        BY <1>2, <2>1, <2>3
    <2>4. CASE Becomes(r, i, "returned")
        BY <2>1, <2>2, <2>4, PhaseForms DEF WrapperMove
    <2>5. QED
        BY <2>1, <2>3, <2>4
<1>8. CASE Deadline(r, i) \/ Abandon(r, i)
    <2>1. /\ f[i] \in {"inside", "grace"} /\ KindsOf(r)[i] \in Timing
          /\ (Becomes(r, i, "grace") \/ Becomes(r, i, "returned")) /\ UNCHANGED otherVars
        BY <1>1, <1>8, Zenon DEF Deadline, Abandon, At, Timing
    <2>2. QED
        BY <2>1, PhaseForms DEF WrapperMove
<1>9. CASE Again(r, i)
    <2>1. /\ f[i] = "inside" /\ KindsOf(r)[i] = "Retry" /\ Inner(r, i) = "panicked"
          /\ UNCHANGED otherVars
        BY <1>1, <1>9, Zenon DEF Again, At
    <2>2. \E g : Sets(r, g) /\ Retries(f, g, i)
        BY <1>9 DEF Again, Sets, Retries
    <2>3. QED
        BY <2>1, <2>2 DEF WrapperMove, Inner
<1>10. CASE LoadFailures(r, i) \/ LoadFailTime(r, i)
    BY <1>10, PhaseForms DEF LoadFailures, LoadFailTime, At, WrapperMove
<1>11. CASE AddFailure(r, i)
    BY <1>11, PhaseForms DEF AddFailure, At, WrapperMove, Inner
<1>12. CASE ReadFailureTime(r, i) \/ StoreFailureTime(r, i)
    BY <1>12, PhaseForms DEF ReadFailureTime, StoreFailureTime, At, WrapperMove
<1>13. CASE ResetOnSuccess(r, i)
    <2>1. /\ f[i] = "inside" /\ Inner(r, i) = "returned" /\ Becomes(r, i, "returned")
          /\ UNCHANGED otherVars
        BY <1>13, Zenon DEF ResetOnSuccess, At
    <2>2. QED
        BY <1>3, <2>1 DEF Finished
<1>14. QED
    BY <1>4, <1>5, <1>6, <1>7, <1>8, <1>9, <1>10, <1>11, <1>12, <1>13 DEF WrapperStep

\* A move of run r, and what it records.
RunMoves(r, g) ==
    /\ Sets(r, g)
    /\ \/ /\ PlainMove(KindsOf(r), Body(r), r \in WorkflowRuns, phase[r], g)
          /\ UNCHANGED <<ran, skipped>>
       \/ /\ JobMove(phase[r], g, Body(r))
          /\ ran' = ran \union {r} /\ UNCHANGED skipped
       \/ \E i \in 1..(Body(r) - 1) :
             /\ RefuseMove(KindsOf(r), phase[r], g, i)
             /\ UNCHANGED ran
             /\ skipped' = IF Carried(KindsOf(r), i) /\ r \in WorkflowRuns
                           THEN skipped \union {r} ELSE skipped

\* Every step of the chains is a move of one run, or of none.
LEMMA StepMoves ==
    ASSUME ChainTypes, [Next]_vars
    PROVE  /\ UNCHANGED chains
           /\ UNCHANGED <<phase, ran, skipped>> \/ \E r \in Runs : \E g : RunMoves(r, g)
<1>1. CASE TimePasses
    BY <1>1, Zenon DEF TimePasses, otherVars
<1>2. ASSUME NEW r \in Runs, CancelRun(r)
      PROVE  UNCHANGED <<chains, phase, ran, skipped>>
    BY <1>2, Zenon DEF CancelRun, otherVars
<1>3. ASSUME NEW r \in Runs, StartRun(r) \/ JobStarts(r) \/ JobEnds(r)
      PROVE  UNCHANGED chains /\ \E g : RunMoves(r, g)
    <2>1. CASE StartRun(r)
        BY <2>1, PhaseForms DEF StartRun, otherVars, RunMoves, PlainMove
    <2>2. CASE JobStarts(r)
        BY <2>2, PhaseForms DEF JobStarts, RunMoves, JobMove
    <2>3. CASE JobEnds(r)
        <3>1. PICK p \in Finished : Becomes(r, Body(r), p)
            BY <2>3 DEF JobEnds
        <3>2. phase[r][Body(r)] = "inside" /\ UNCHANGED <<chains, ran, skipped>>
            BY <2>3 DEF JobEnds
        <3>3. QED
            BY <3>1, <3>2, PhaseForms DEF RunMoves, PlainMove
    <2>4. QED
        BY <1>3, <2>1, <2>2, <2>3
<1>4. ASSUME NEW r \in Runs, NEW i \in 1..(Body(r) - 1), WrapperStep(r, i) \/ Refuse(r, i)
      PROVE  UNCHANGED chains /\ \E g : RunMoves(r, g)
    <2>1. CASE WrapperStep(r, i)
        BY <2>1, WrapperStepMoves DEF RunMoves, PlainMove, otherVars
    <2>2. CASE Refuse(r, i)
        <3>1. /\ phase[r][i] = "entered" /\ Becomes(r, i, "returned") /\ UNCHANGED <<chains, ran>>
              /\ MarkSkipped(r, i) /\ KindsOf(r)[i] \in {"Exclusive", "Dedup"}
            BY <2>2, BodyFacts DEF Refuse, At, KindsOf
        <3>2. HasValues(r, i) <=> Carried(KindsOf(r), i)
            BY BodyFacts, ValuesCarried
        <3>3. PICK g : Sets(r, g) /\ Leaves(phase[r], g, i, "returned")
            BY <3>1, PhaseForms
        <3>4. RunMoves(r, g)
            BY <3>1, <3>2, <3>3 DEF RunMoves, RefuseMove, MarkSkipped
        <3>5. QED
            BY <3>1, <3>4
    <2>3. QED
        BY <1>4, <2>1, <2>2
<1>5. CASE UNCHANGED vars
    BY <1>5 DEF vars, otherVars
<1>6. QED
    BY <1>1, <1>2, <1>3, <1>4, <1>5, NextCases

LEMMA KindsFixed ==
    ASSUME UNCHANGED chains, NEW r
    PROVE  /\ KindsOf(r)' = KindsOf(r) /\ Body(r)' = Body(r)
           /\ \A i : Kind(r, i)' = Kind(r, i) /\ Wrapper(r, i)' = Wrapper(r, i)
           /\ \A i : HasValues(r, i)' = HasValues(r, i)
BY DEF KindsOf, Body, Kind, Wrapper, HasValues, Dropped

LEMMA LinesInitially == Init => ChainTypes /\ LinesInv
<1>1. SUFFICES ASSUME Init PROVE ChainTypes /\ LinesInv
    OBVIOUS
<1>2. ChainTypes
    BY <1>1 DEF Init, ChainTypes, Lines, Phases
<1>3. ASSUME NEW r \in Runs
      PROVE  Nested(KindsOf(r), Body(r), phase[r])
    <2>1. \A i \in Levels : phase[r][i] = "idle"
        BY <1>1 DEF Init
    <2>2. Body(r) \in Levels
        BY <1>2, BodyFacts
    <2>3. QED
        BY <2>1, <2>2 DEF Nested, Live
<1>4. QED
    BY <1>2, <1>3 DEF LinesInv

\* Only deadlines and timeouts cancel the contexts of their levels.
LEMMA ExpiredKept ==
    ASSUME ChainTypes, [Next]_vars
    PROVE  /\ expired' \in [Runs -> SUBSET Levels]
           /\ \A r \in Runs : \A k \in expired'[r] : Kind(r, k) = "TimeoutWithContext"
<1>1. /\ expired \in [Runs -> SUBSET Levels]
      /\ \A r \in Runs : \A k \in expired[r] : Kind(r, k) = "TimeoutWithContext"
    BY DEF ChainTypes
<1>2. CASE UNCHANGED expired
    BY <1>1, <1>2
<1>3. ASSUME NEW r \in Runs, NEW i \in Levels, Kind(r, i) = "TimeoutWithContext",
             expired' = [expired EXCEPT ![r] = @ \union {i}]
      PROVE  /\ expired' \in [Runs -> SUBSET Levels]
             /\ \A q \in Runs : \A k \in expired'[q] : Kind(q, k) = "TimeoutWithContext"
    BY <1>1, <1>3
<1>4. ASSUME NEW r \in Runs, NEW i \in Levels, expired' = [expired EXCEPT ![r] = {k \in @ : k <= i}]
      PROVE  /\ expired' \in [Runs -> SUBSET Levels]
             /\ \A q \in Runs : \A k \in expired'[q] : Kind(q, k) = "TimeoutWithContext"
    BY <1>1, <1>4
<1>5. ASSUME NEW r \in Runs, NEW i \in 1..(Body(r) - 1), WrapperStep(r, i) \/ Refuse(r, i)
      PROVE  \/ UNCHANGED expired
             \/ Kind(r, i) = "TimeoutWithContext" /\ expired' = [expired EXCEPT ![r] = @ \union {i}]
             \/ expired' = [expired EXCEPT ![r] = {k \in @ : k <= i}]
    <2>1. CASE TimeoutReturns(r, i) \/ Deadline(r, i)
        BY <2>1 DEF TimeoutReturns, Deadline, At
    <2>2. CASE Again(r, i)
        BY <2>2, Zenon DEF Again
    <2>3. CASE ~TimeoutReturns(r, i) /\ ~Deadline(r, i) /\ ~Again(r, i)
        BY <1>5, <2>3, Zenon DEF WrapperStep, PassIn, JitterReturns, RecoverReturns, Acquire, GiveUp,
             Vacate, Abandon, Attempt, RetryReturns, LoadFailures, LoadFailTime, Decide, AddFailure,
             ReadFailureTime, StoreFailureTime, ResetOnSuccess, Reserve, Unshared, ReleaseReturns,
             DedupReturns, Refuse, ctxVars
    <2>4. QED
        BY <2>1, <2>2, <2>3
<1>6. ASSUME NEW r \in Runs, StartRun(r) \/ CancelRun(r) \/ JobStarts(r) \/ JobEnds(r)
      PROVE  UNCHANGED expired
    BY <1>6, Zenon DEF StartRun, CancelRun, JobStarts, JobEnds, ctxVars
<1>7. TimePasses \/ UNCHANGED vars => UNCHANGED expired
    BY Zenon DEF TimePasses, vars, ctxVars
<1>8. \A r \in Runs : \A i \in 1..(Body(r) - 1) : i \in Levels
    BY BodyFacts
<1>9. QED
    <2>1. CASE UNCHANGED vars \/ TimePasses
        BY <1>2, <1>7, <2>1
    <2>2. ASSUME NEW r \in Runs, NEW i \in 1..(Body(r) - 1), WrapperStep(r, i) \/ Refuse(r, i)
          PROVE  /\ expired' \in [Runs -> SUBSET Levels]
                 /\ \A q \in Runs : \A k \in expired'[q] : Kind(q, k) = "TimeoutWithContext"
        BY <1>2, <1>3, <1>4, <1>5, <1>8, <2>2
    <2>3. QED
        BY <1>2, <1>6, <2>1, <2>2, NextCases

LEMMA LinesKept ==
    ASSUME ChainTypes, LinesInv, [Next]_vars
    PROVE  ChainTypes' /\ LinesInv'
<1>1. UNCHANGED chains /\ (UNCHANGED phase \/ \E r \in Runs : \E g : RunMoves(r, g))
    BY StepMoves
<1>2. /\ expired' \in [Runs -> SUBSET Levels]
      /\ \A r \in Runs : \A k \in expired'[r] : Kind(r, k)' = "TimeoutWithContext"
    BY <1>1, ExpiredKept, KindsFixed
<1>3. CASE UNCHANGED phase
    BY <1>1, <1>2, <1>3, KindsFixed DEF ChainTypes, Accepted, Places, LinesInv
<1>4. ASSUME NEW r \in Runs, NEW g, RunMoves(r, g)
      PROVE  ChainTypes' /\ LinesInv'
    <2>1. phase[r] \in Lines /\ Body(r) \in Levels /\ Nested(KindsOf(r), Body(r), phase[r])
        BY BodyFacts DEF ChainTypes, LinesInv
    <2>2. (r \in WorkflowRuns) \in BOOLEAN
        OBVIOUS
    <2>3. g \in Lines /\ Nested(KindsOf(r), Body(r), g)
        <3>1. Move(KindsOf(r), Body(r), r \in WorkflowRuns, phase[r], g)
            BY <1>4 DEF RunMoves, Move
        <3>2. QED
            BY <2>1, <2>2, <3>1, MoveKeepsNested
    <2>4. phase' \in [Runs -> Lines] /\ \A q \in Runs : phase'[q] = IF q = r THEN g ELSE phase[q]
        BY <1>4, <2>3 DEF RunMoves, Sets, ChainTypes
    <2>5. ChainTypes'
        BY <1>1, <1>2, <2>4 DEF ChainTypes, Accepted, Places
    <2>6. LinesInv'
        BY <1>1, <2>3, <2>4, KindsFixed DEF LinesInv
    <2>7. QED
        BY <2>5, <2>6
<1>5. QED
    BY <1>1, <1>3, <1>4

\* The panics of every run surface.
SurfacesInv ==
    \A r \in Runs : Surfaces(KindsOf(r), r \in WorkflowRuns, phase[r], r \in failed)

\* The step of one run.
LEMMA SurfacesOne ==
    ASSUME ChainTypes, LinesInv, SurfacesInv, NEW r \in Runs,
           \/ StartRun(r) \/ JobStarts(r) \/ JobEnds(r)
           \/ \E i \in 1..(Body(r) - 1) : WrapperStep(r, i) \/ Refuse(r, i)
    PROVE  SurfacesInv'
<1> DEFINE kinds == KindsOf(r)
           b == Body(r)
           w == r \in WorkflowRuns
           f == phase[r]
<1>1. /\ f \in Lines /\ b \in Levels /\ Nested(kinds, b, f) /\ w \in BOOLEAN
      /\ Surfaces(kinds, w, f, r \in failed)
    BY BodyFacts DEF ChainTypes, LinesInv, SurfacesInv
<1>2. UNCHANGED chains
    BY WrapperStepMoves, Zenon DEF StartRun, JobStarts, JobEnds, Refuse, otherVars
<1>3. ASSUME NEW g, Sets(r, g), Surfaces(kinds, w, g, r \in failed'),
             \A q \in Runs : q # r => (q \in failed' <=> q \in failed)
      PROVE  SurfacesInv'
    <2>1. \A q \in Runs : phase'[q] = IF q = r THEN g ELSE phase[q]
        BY <1>3 DEF Sets, ChainTypes
    <2>2. \A q \in Runs : Surfaces(KindsOf(q), q \in WorkflowRuns, phase'[q], q \in failed')
        BY <1>3, <2>1 DEF SurfacesInv, Surfaces
    <2>3. QED
        BY <1>2, <2>2, KindsFixed DEF SurfacesInv
<1>4. CASE JobEnds(r)
    <2>1. PICK p \in Finished : /\ Becomes(r, b, p)
                                /\ failed' = IF p = "panicked" THEN failed \union {r} ELSE failed \ {r}
        BY <1>4, Zenon DEF JobEnds
    <2>2. PICK g : Sets(r, g) /\ Leaves(f, g, b, p)
        BY <2>1, PhaseForms
    <2>3. f[b] = "inside"
        BY <1>4 DEF JobEnds
    <2>4. Surfaces(kinds, w, g, p = "panicked")
        <3> HIDE DEF kinds, b, w, f
        <3>1. QED
            BY <1>1, <2>2, <2>3, EndSurfaces
    <2>5. \A q \in Runs : q \in failed' <=> IF q = r THEN p = "panicked" ELSE q \in failed
        BY <2>1
    <2>6. Surfaces(kinds, w, g, r \in failed')
        BY <2>4, <2>5 DEF Surfaces
    <2>7. QED
        BY <1>3, <2>2, <2>5, <2>6
<1>5. ASSUME NEW g, Sets(r, g), UNCHANGED failed,
             \/ f[1] = "idle" /\ Leaves(f, g, 1, "entered")
             \/ JobMove(f, g, b)
             \/ \E i \in 1..(b - 1) : WrapperMove(kinds, w, f, g, i) \/ RefuseMove(kinds, f, g, i)
      PROVE  SurfacesInv'
    <2>1. Surfaces(kinds, w, g, r \in failed)
        <3>1. CASE r \in failed
            <4>1. Surfaces(kinds, w, f, TRUE)
                BY <1>1, <3>1 DEF Surfaces
            <4>2. Surfaces(kinds, w, g, TRUE)
                <5> HIDE DEF kinds, b, w, f
                <5>1. QED
                    BY <1>1, <1>5, <4>1, MoveKeepsSurfaces, Zenon
            <4>3. QED
                BY <4>2 DEF Surfaces
        <3>2. CASE r \notin failed
            BY <3>2 DEF Surfaces
        <3>3. QED
            BY <3>1, <3>2
    <2>2. Surfaces(kinds, w, g, r \in failed') /\ \A q \in Runs : q \in failed' <=> q \in failed
        BY <1>5, <2>1
    <2>3. QED
        BY <1>3, <1>5, <2>2
<1>6. CASE StartRun(r) \/ JobStarts(r)
    <2>1. UNCHANGED failed
        BY <1>6, Zenon DEF StartRun, JobStarts, otherVars
    <2>2. \E g : /\ Sets(r, g)
                 /\ (f[1] = "idle" /\ Leaves(f, g, 1, "entered")) \/ JobMove(f, g, b)
        BY <1>6, PhaseForms DEF StartRun, JobStarts, JobMove
    <2>3. QED
        BY <1>5, <2>1, <2>2
<1>7. ASSUME NEW i \in 1..(b - 1), WrapperStep(r, i)
      PROVE  SurfacesInv'
    <2>1. UNCHANGED failed /\ \E g : Sets(r, g) /\ WrapperMove(kinds, w, f, g, i)
        BY <1>7, WrapperStepMoves DEF otherVars
    <2>2. QED
        BY <1>5, <2>1
<1>8. ASSUME NEW i \in 1..(b - 1), Refuse(r, i)
      PROVE  SurfacesInv'
    <2>1. UNCHANGED failed /\ \E g : Sets(r, g) /\ RefuseMove(kinds, f, g, i)
        BY <1>8, BodyFacts, PhaseForms DEF Refuse, At, RefuseMove, KindsOf
    <2>2. QED
        BY <1>5, <2>1
<1>9. QED
    BY <1>4, <1>6, <1>7, <1>8

LEMMA SurfacesKept ==
    ASSUME ChainTypes, LinesInv, SurfacesInv, [Next]_vars
    PROVE  SurfacesInv'
<1>1. CASE UNCHANGED <<chains, phase, failed>>
    BY <1>1, KindsFixed DEF SurfacesInv
<1>2. UNCHANGED vars \/ TimePasses => UNCHANGED <<chains, phase, failed>>
    BY Zenon DEF vars, TimePasses, otherVars
<1>3. \A r \in Runs : CancelRun(r) => UNCHANGED <<chains, phase, failed>>
    BY Zenon DEF CancelRun, otherVars
<1>4. QED
    BY <1>1, <1>2, <1>3, SurfacesOne, NextCases, Zenon

\* The failure of a workflow's job reaches the scheduler through every chain
\* of wrappers, retries included, but for timeouts, for a Recover behind a lost
\* context and for a retry that something inside it declines.
THEOREM FailuresAlwaysSurface == Spec => []FailuresSurface
<1>1. Init => ChainTypes /\ LinesInv /\ SurfacesInv
    BY LinesInitially DEF Init, SurfacesInv, Surfaces
<1>2. (ChainTypes /\ LinesInv /\ SurfacesInv) /\ [Next]_vars
          => (ChainTypes /\ LinesInv /\ SurfacesInv)'
    BY LinesKept, SurfacesKept
<1>3. ChainTypes /\ LinesInv /\ SurfacesInv => FailuresSurface
    <2>1. SUFFICES ASSUME SurfacesInv, NEW r \in WorkflowRuns, phase[r][1] = "returned", r \in failed
                   PROVE  \E i \in Levels : \/ Kind(r, i) \in Timing
                                            \/ Kind(r, i) = "Recover" /\ ~HasValues(r, i)
                                            \/ /\ Kind(r, i) = "Retry"
                                               /\ \E k \in Levels : k > i /\ Kind(r, k) \in Declining
        BY DEF FailuresSurface
    <2>2. r \in Runs /\ 1 \in Levels
        BY ChainAssumption, LevelNumbers
    <2>3. Hides(KindsOf(r), TRUE)
        BY <2>1, <2>2 DEF SurfacesInv, Surfaces, Hides
    <2>4. PICK i \in Levels : \/ KindsOf(r)[i] \in Timing
                              \/ KindsOf(r)[i] = "Recover" /\ ~Carried(KindsOf(r), i)
                              \/ /\ KindsOf(r)[i] = "Retry"
                                 /\ \E m \in Levels : m > i /\ KindsOf(r)[m] \in Declining
        BY <2>3 DEF Hides
    <2>5. QED
        BY <2>4, ValuesCarried DEF KindsOf
<1>4. QED
    BY <1>1, <1>2, <1>3, PTL DEF Spec

-----------------------------------------------------------------------------
(* Skipped runs *)

\* The job has started: no level that carries the run's values is at its start.
Started(kinds, b, f) == \A l \in Levels : l <= b /\ Carried(kinds, l) => f[l] \notin Quiet

\* A level that carries the values has returned without a call, for good.
Stopped(kinds, b, f) ==
    \E i \in 1..(b - 1) : /\ Carried(kinds, i) /\ f[i] = "returned"
                          /\ \A m \in Levels : m > i => f[m] = "idle"

JobBegun(f, b) == f[b] \notin {"idle", "entered"}

SomeReturned(f) == \E i \in Levels : f[i] = "returned"

Simple(kinds) == \A i \in Levels : kinds[i] \in {"Exclusive", "Dedup", "Recover", "Jitter", "Job"}

\* The move of a wrapper calls, retries, or changes its own level.
LEMMA WrapperMoveForms ==
    ASSUME NEW kinds, NEW w \in BOOLEAN, NEW f, NEW g, NEW i,
           WrapperMove(kinds, w, f, g, i) \/ RefuseMove(kinds, f, g, i)
    PROVE  \/ f[i] \in Quiet \ {"idle"} /\ Calls(f, g, i)
           \/ kinds[i] = "Retry" /\ f[i] = "inside" /\ Retries(f, g, i)
           \/ \E p : Leaves(f, g, i, p) /\ f[i] \notin {"idle", "returned"}
                     /\ (p \in Quiet => f[i] \in Quiet) /\ p # "idle"
BY Zenon DEF WrapperMove, RefuseMove, Finished, Quiet

LEMMA StartedKept ==
    ASSUME NEW kinds, NEW b \in Levels, NEW w \in BOOLEAN, NEW f \in Lines, NEW g,
           Move(kinds, b, w, f, g), Started(kinds, b, f)
    PROVE  Started(kinds, b, g)
<1>1. Levels \subseteq Nat /\ 1 \in Levels /\ \A l \in Levels : 1 <= l
    BY LevelNumbers
<1>2. SUFFICES ASSUME NEW l \in Levels, l <= b, Carried(kinds, l), g[l] \in Quiet
               PROVE  FALSE
    BY DEF Started
<1>3. f[l] \notin Quiet
    BY <1>2 DEF Started
<1>4. ASSUME NEW i, NEW p, Leaves(f, g, i, p), p \in Quiet => f[i] \in Quiet
      PROVE  FALSE
    BY <1>2, <1>3, <1>4, LeavesPhases
<1>5. ASSUME NEW i \in 1..(b - 1), WrapperMove(kinds, w, f, g, i) \/ RefuseMove(kinds, f, g, i)
      PROVE  FALSE
    <2>1. i \in Levels /\ i + 1 \in Levels /\ i < b
        BY LevelNumbers
    <2>2. CASE f[i] \in Quiet \ {"idle"} /\ Calls(f, g, i)
        <3>1. l = i + 1
            BY <1>2, <1>3, <2>2, CallsPhases
        <3>2. Carried(kinds, i)
            BY <1>1, <1>2, <2>1, <3>1 DEF Carried
        <3>3. QED
            BY <1>1, <2>1, <2>2, <3>2 DEF Started
    <2>3. CASE kinds[i] = "Retry" /\ Retries(f, g, i)
        <3>1. l > i
            BY <1>1, <1>2, <1>3, <2>1, <2>3 DEF Retries
        <3>2. QED
            BY <1>1, <1>2, <2>1, <2>3, <3>1 DEF Carried, Dropping
    <2>4. QED
        BY <1>4, <1>5, <2>2, <2>3, WrapperMoveForms
<1>6. QED
    BY <1>4, <1>5 DEF Move, PlainMove, JobMove, Quiet, Finished

LEMMA StoppedKept ==
    ASSUME NEW kinds, NEW b \in Levels, NEW w \in BOOLEAN, NEW f \in Lines, Nested(kinds, b, f),
           NEW g, Move(kinds, b, w, f, g), Stopped(kinds, b, f)
    PROVE  Stopped(kinds, b, g) /\ ~JobMove(f, g, b)
<1>1. Levels \subseteq Nat /\ 1 \in Levels /\ \A l \in Levels : 1 <= l
    BY LevelNumbers
<1>2. PICK k \in 1..(b - 1) : /\ Carried(kinds, k) /\ f[k] = "returned"
                              /\ \A m \in Levels : m > k => f[m] = "idle"
    BY DEF Stopped
<1>3. k \in Levels /\ k < b
    BY LevelNumbers
<1>4. ~JobMove(f, g, b) /\ f[b] = "idle"
    BY <1>1, <1>2, <1>3 DEF JobMove
<1>5. ASSUME NEW i \in Levels, NEW p, Leaves(f, g, i, p),
             f[i] # "returned", f[i] = "idle" => i = 1
      PROVE  Stopped(kinds, b, g)
    <2>1. i < k
        BY <1>1, <1>2, <1>3, <1>5
    <2>2. \A l \in Levels : l # i => g[l] = f[l]
        BY <1>5, LeavesPhases
    <2>3. QED
        BY <1>1, <1>2, <1>3, <2>1, <2>2 DEF Stopped
<1>6. ASSUME NEW i \in 1..(b - 1), WrapperMove(kinds, w, f, g, i) \/ RefuseMove(kinds, f, g, i)
      PROVE  Stopped(kinds, b, g)
    <2>1. i \in Levels /\ i + 1 \in Levels /\ i < b
        BY LevelNumbers
    <2>2. CASE f[i] \in Quiet \ {"idle"} /\ Calls(f, g, i)
        BY <1>1, <1>2, <1>3, <2>1, <2>2 DEF Nested, Quiet
    <2>3. CASE kinds[i] = "Retry" /\ f[i] = "inside" /\ Retries(f, g, i)
        BY <1>1, <1>2, <1>3, <2>1, <2>3 DEF Carried, Dropping
    <2>4. QED
        BY <1>5, <1>6, <2>1, <2>2, <2>3, WrapperMoveForms
<1>7. ASSUME NEW p, f[b] = "inside", Leaves(f, g, b, p)
      PROVE  Stopped(kinds, b, g)
    BY <1>4, <1>7
<1>8. QED
    BY <1>1, <1>4, <1>5, <1>6, <1>7 DEF Move, PlainMove

\* Before the job starts nothing returns in a simple chain but by a refusal.
LEMMA ReturnedKept ==
    ASSUME NEW kinds, NEW b \in Levels, NEW w \in BOOLEAN, NEW f \in Lines, Nested(kinds, b, f),
           NEW g, PlainMove(kinds, b, w, f, g) \/ JobMove(f, g, b),
           w, Simple(kinds), SomeReturned(g)
    PROVE  SomeReturned(f) \/ JobBegun(f, b)
<1>1. Levels \subseteq Nat /\ 1 \in Levels /\ \A l \in Levels : 1 <= l
    BY LevelNumbers
<1>2. \A l \in Levels : /\ kinds[l] \notin Limiting \union {"Circuit", "Retry"} \union Timing
                        /\ Carried(kinds, l)
    BY DEF Simple, Limiting, Timing, Carried, Dropping
<1>3. ASSUME NEW i, NEW p, Leaves(f, g, i, p), p # "returned"
      PROVE  SomeReturned(f)
    BY <1>3, LeavesPhases DEF SomeReturned
<1>4. ASSUME NEW i \in 1..(b - 1), WrapperMove(kinds, w, f, g, i)
      PROVE  SomeReturned(f)
    <2>1. i \in Levels /\ i + 1 \in Levels
        BY LevelNumbers
    <2>2. CASE Calls(f, g, i)
        BY <2>2, CallsPhases DEF SomeReturned
    <2>3. CASE f[i + 1] \in Finished /\ Leaves(f, g, i, f[i + 1])
        BY <1>3, <2>1, <2>3 DEF SomeReturned
    <2>4. QED
        BY <1>2, <1>3, <1>4, <2>1, <2>2, <2>3 DEF WrapperMove, GivesUp, Limiting
<1>5. QED
    BY <1>3, <1>4 DEF PlainMove, JobMove, JobBegun

LEMMA BegunKept ==
    ASSUME NEW kinds, NEW b \in Levels, NEW w \in BOOLEAN, NEW f \in Lines, Nested(kinds, b, f),
           NEW g, PlainMove(kinds, b, w, f, g) \/ \E i \in 1..(b - 1) : RefuseMove(kinds, f, g, i),
           JobBegun(g, b)
    PROVE  JobBegun(f, b)
<1>1. Levels \subseteq Nat /\ 1 \in Levels /\ \A l \in Levels : 1 <= l
    BY LevelNumbers
<1>2. CASE f[1] = "idle" /\ Leaves(f, g, 1, "entered")
    BY <1>1, <1>2, LeavesPhases DEF JobBegun
<1>3. ASSUME NEW i \in 1..(b - 1), WrapperMove(kinds, w, f, g, i) \/ RefuseMove(kinds, f, g, i)
      PROVE  JobBegun(f, b)
    <2>1. i \in Levels /\ i + 1 \in Levels /\ i < b
        BY LevelNumbers
    <2>2. CASE Calls(f, g, i)
        BY <1>1, <2>1, <2>2, CallsPhases DEF JobBegun
    <2>3. CASE Retries(f, g, i)
        BY <1>1, <2>1, <2>3 DEF JobBegun, Retries
    <2>4. ASSUME NEW p, Leaves(f, g, i, p)
          PROVE  JobBegun(f, b)
        BY <1>1, <2>1, <2>4, LeavesPhases DEF JobBegun
    <2>5. QED
        BY <1>3, <2>2, <2>3, <2>4, WrapperMoveForms
<1>4. QED
    BY <1>2, <1>3 DEF PlainMove, JobBegun

\* What is recorded of a run: a is whether its job has started, s whether it
\* was marked as skipped.
Reported(kinds, b, w, f, a, s) ==
    /\ a => Started(kinds, b, f)
    /\ s => ~a /\ Stopped(kinds, b, f)
    /\ JobBegun(f, b) => a
    /\ w /\ Simple(kinds) /\ ~a /\ SomeReturned(f) => s

LEMMA MoveKeepsReported ==
    ASSUME NEW kinds, NEW b \in Levels, NEW w \in BOOLEAN, NEW f \in Lines, Nested(kinds, b, f),
           NEW a \in BOOLEAN, NEW s \in BOOLEAN, Reported(kinds, b, w, f, a, s), NEW g
    PROVE  /\ PlainMove(kinds, b, w, f, g) => Reported(kinds, b, w, g, a, s)
           /\ JobMove(f, g, b) => Reported(kinds, b, w, g, TRUE, s)
           /\ \A i \in 1..(b - 1) : RefuseMove(kinds, f, g, i) =>
                 Reported(kinds, b, w, g, a, IF Carried(kinds, i) /\ w THEN TRUE ELSE s)
<1>1. Levels \subseteq Nat /\ \A l \in Levels : 1 <= l
    BY LevelNumbers
<1>2. ASSUME PlainMove(kinds, b, w, f, g)
      PROVE  Reported(kinds, b, w, g, a, s)
    <2>1. Move(kinds, b, w, f, g)
        BY <1>2 DEF Move
    <2>2. a => Started(kinds, b, g)
        BY <2>1, StartedKept DEF Reported
    <2>3. s => ~a /\ Stopped(kinds, b, g)
        BY <2>1, StoppedKept DEF Reported
    <2>4. JobBegun(g, b) => a
        BY <1>2, BegunKept DEF Reported
    <2>5. w /\ Simple(kinds) /\ ~a /\ SomeReturned(g) => s
        BY <1>2, ReturnedKept DEF Reported
    <2>6. QED
        BY <2>2, <2>3, <2>4, <2>5 DEF Reported
<1>3. ASSUME JobMove(f, g, b)
      PROVE  Reported(kinds, b, w, g, TRUE, s)
    <2>1. Move(kinds, b, w, f, g)
        BY <1>3 DEF Move
    <2>2. ~s
        BY <1>3, <2>1, StoppedKept DEF Reported
    <2>3. f[b] = "entered" /\ \A l \in Levels : g[l] = IF l = b THEN "inside" ELSE f[l]
        BY <1>3, LeavesPhases DEF JobMove
    <2>4. \A l \in Levels : l <= b => g[l] \notin Quiet
        BY <1>1, <2>3 DEF Nested, Quiet
    <2>5. QED
        BY <2>2, <2>4 DEF Reported, Started
<1>4. ASSUME NEW i \in 1..(b - 1), RefuseMove(kinds, f, g, i)
      PROVE  Reported(kinds, b, w, g, a, IF Carried(kinds, i) /\ w THEN TRUE ELSE s)
    <2>1. Move(kinds, b, w, f, g) /\ i \in Levels /\ i < b
        BY <1>4, LevelNumbers DEF Move
    <2>2. f[i] = "entered" /\ \A l \in Levels : g[l] = IF l = i THEN "returned" ELSE f[l]
        BY <1>4, LeavesPhases DEF RefuseMove
    <2>3. a => Started(kinds, b, g)
        BY <2>1, StartedKept DEF Reported
    <2>4. s => ~a /\ Stopped(kinds, b, g)
        BY <2>1, StoppedKept DEF Reported
    <2>5. JobBegun(g, b) => a
        BY <1>4, BegunKept DEF Reported
    <2>6. CASE Carried(kinds, i) /\ w
        <3>1. ~a
            BY <1>1, <2>1, <2>2, <2>6 DEF Reported, Started, Quiet
        <3>2. \A m \in Levels : m > i => g[m] = "idle"
            BY <1>1, <2>1, <2>2 DEF Nested, Quiet
        <3>3. Stopped(kinds, b, g)
            BY <2>1, <2>2, <2>6, <3>2 DEF Stopped
        <3>4. QED
            BY <2>5, <2>6, <3>1, <3>3 DEF Reported
    <2>7. CASE ~(Carried(kinds, i) /\ w)
        <3>1. ~(w /\ Simple(kinds))
            BY <2>7 DEF Simple, Carried, Dropping
        <3>2. QED
            BY <2>3, <2>4, <2>5, <2>7, <3>1 DEF Reported
    <2>8. QED
        BY <2>6, <2>7
<1>5. QED
    BY <1>2, <1>3, <1>4

ReportsInv ==
    \A r \in Runs : Reported(KindsOf(r), Body(r), r \in WorkflowRuns, phase[r], r \in ran, r \in skipped)

LEMMA ReportsInitially == Init => ReportsInv
<1>1. SUFFICES ASSUME Init, NEW r \in Runs
               PROVE  Reported(KindsOf(r), Body(r), r \in WorkflowRuns, phase[r], r \in ran, r \in skipped)
    BY DEF ReportsInv
<1>2. r \notin ran /\ r \notin skipped /\ \A i \in Levels : phase[r][i] = "idle"
    BY <1>1 DEF Init
<1>3. Body(r) \in Levels
    BY <1>1, LinesInitially, BodyFacts
<1>4. QED
    BY <1>2, <1>3 DEF Reported, JobBegun, SomeReturned

LEMMA ReportsKept ==
    ASSUME ChainTypes, LinesInv, ReportsInv, [Next]_vars
    PROVE  ReportsInv'
<1>1. UNCHANGED chains /\ (UNCHANGED <<phase, ran, skipped>> \/ \E r \in Runs : \E g : RunMoves(r, g))
    BY StepMoves
<1>2. CASE UNCHANGED <<phase, ran, skipped>>
    BY <1>1, <1>2, KindsFixed DEF ReportsInv
<1>3. ASSUME NEW r \in Runs, NEW g, RunMoves(r, g), NEW q \in Runs
      PROVE  Reported(KindsOf(q), Body(q), q \in WorkflowRuns, phase'[q], q \in ran', q \in skipped')
    <2>1. phase'[q] = IF q = r THEN g ELSE phase[q]
        BY <1>3 DEF RunMoves, Sets, ChainTypes
    <2>2. CASE q # r
        <3>1. (q \in ran' <=> q \in ran) /\ (q \in skipped' <=> q \in skipped)
            BY <1>3, <2>2 DEF RunMoves
        <3>2. QED
            BY <2>1, <2>2, <3>1 DEF ReportsInv, Reported
    <2>3. CASE q = r
        <3> DEFINE kinds == KindsOf(r)
                   b == Body(r)
                   w == r \in WorkflowRuns
                   a == r \in ran
                   s == r \in skipped
                   After(x, y) == Reported(kinds, b, w, g, x, y)
        <3>1. /\ phase[r] \in Lines /\ b \in Levels /\ Nested(kinds, b, phase[r])
              /\ Reported(kinds, b, w, phase[r], a, s)
            BY BodyFacts DEF ChainTypes, LinesInv, ReportsInv
        <3>2. w \in BOOLEAN /\ a \in BOOLEAN /\ s \in BOOLEAN
            OBVIOUS
        <3>3. /\ PlainMove(kinds, b, w, phase[r], g) => After(a, s)
              /\ JobMove(phase[r], g, b) => After(TRUE, s)
              /\ \A i \in 1..(b - 1) : RefuseMove(kinds, phase[r], g, i) =>
                    After(a, IF Carried(kinds, i) /\ w THEN TRUE ELSE s)
            <4> DEFINE f == phase[r]
            <4>1. /\ f \in Lines /\ b \in Levels /\ Nested(kinds, b, f) /\ Reported(kinds, b, w, f, a, s)
                BY <3>1
            <4> HIDE DEF kinds, b, w, a, s, f
            <4>2. PlainMove(kinds, b, w, f, g) => After(a, s)
                BY <3>2, <4>1, MoveKeepsReported, ZenonT(60)
            <4>3. JobMove(f, g, b) => After(TRUE, s)
                BY <3>2, <4>1, MoveKeepsReported, ZenonT(60)
            <4>4. \A i \in 1..(b - 1) : RefuseMove(kinds, f, g, i) =>
                      After(a, IF Carried(kinds, i) /\ w THEN TRUE ELSE s)
                BY <3>2, <4>1, MoveKeepsReported, ZenonT(60)
            <4>5. QED
                BY <4>2, <4>3, <4>4 DEF f
        <3>4. After(r \in ran', r \in skipped')
            <4>1. CASE PlainMove(KindsOf(r), Body(r), r \in WorkflowRuns, phase[r], g)
                       /\ UNCHANGED <<ran, skipped>>
                BY <3>3, <4>1
            <4>2. CASE JobMove(phase[r], g, Body(r)) /\ ran' = ran \union {r} /\ UNCHANGED skipped
                <5>1. (r \in ran') = TRUE /\ (r \in skipped') = (r \in skipped)
                    BY <4>2
                <5> HIDE DEF After
                <5>2. QED
                    BY <3>3, <4>2, <5>1
            <4>3. ASSUME NEW i \in 1..(Body(r) - 1), RefuseMove(KindsOf(r), phase[r], g, i), UNCHANGED ran,
                         skipped' = IF Carried(KindsOf(r), i) /\ r \in WorkflowRuns
                                    THEN skipped \union {r} ELSE skipped
                  PROVE  After(r \in ran', r \in skipped')
                BY <3>3, <4>3 DEF Reported
            <4>4. QED
                BY <1>3, <4>1, <4>2, <4>3 DEF RunMoves
        <3>5. QED
            BY <2>1, <2>3, <3>4
    <2>4. QED
        BY <2>2, <2>3
<1>4. QED
    BY <1>1, <1>2, <1>3, KindsFixed DEF ReportsInv

\* A workflow counts a run as skipped only when its job never starts, and never
\* misses one that a locker kept from starting, whatever wraps the job.
THEOREM SkipsAlwaysReported == Spec => []SkipsReported
<1>1. Init => ChainTypes /\ LinesInv /\ ReportsInv
    BY LinesInitially, ReportsInitially
<1>2. (ChainTypes /\ LinesInv /\ ReportsInv) /\ [Next]_vars => (ChainTypes /\ LinesInv /\ ReportsInv)'
    BY LinesKept, ReportsKept
<1>3. ChainTypes /\ LinesInv /\ ReportsInv => SkipsReported
    <2>1. SUFFICES ASSUME ReportsInv, NEW r \in WorkflowRuns
                   PROVE  /\ r \in skipped => r \notin ran
                          /\ /\ phase[r][1] = "returned" /\ r \notin ran
                             /\ \A i \in Levels : Kind(r, i) \in {"Exclusive", "Dedup", "Recover", "Jitter", "Job"}
                             => r \in skipped
        BY DEF SkipsReported
    <2>2. r \in Runs /\ 1 \in Levels
        BY ChainAssumption, LevelNumbers
    <2>3. QED
        BY <2>1, <2>2 DEF ReportsInv, Reported, Simple, SomeReturned, KindsOf
<1>4. QED
    BY <1>1, <1>2, <1>3, PTL DEF Spec

-----------------------------------------------------------------------------
(* Slots, locks and tokens *)

ResourceOf(p) == Resource(p[1], p[2])
SlotsOf(p)    == Slots(chains[p[1]][p[2]])

\* A slot is taken for each level inside, and there is one for each.
SlotsInv ==
    /\ DOMAIN used = {ResourceOf(p) : p \in Places(chains, Limiting)}
    /\ SlotsExact
    /\ \A p \in Places(chains, Limiting) : used[ResourceOf(p)] <= SlotsOf(p)

LEMMA HoldersFinite == \A s : IsFiniteSet(Holders(s)) /\ Cardinality(Holders(s)) \in Nat
<1>1. IsFiniteSet(Runs) /\ IsFiniteSet(Levels)
    BY ChainAssumption, FS_Interval DEF Levels
<1>2. IsFiniteSet(Runs \X Levels)
    BY <1>1, FS_Product
<1>3. \A s : Holders(s) \in SUBSET (Runs \X Levels)
    BY DEF Holders
<1>4. QED
    BY <1>2, <1>3, FS_Subset, FS_CardinalityType

\* Wrappers that share a resource agree on its slots.
LEMMA SameSlots ==
    ASSUME ChainTypes, NEW p \in Places(chains, Limiting), NEW q \in Places(chains, Limiting),
           ResourceOf(p) = ResourceOf(q)
    PROVE  SlotsOf(p) = SlotsOf(q) /\ SlotsOf(p) \in Nat
<1> DEFINE v == chains[p[1]][p[2]]
           w == chains[q[1]][q[2]]
           Own == {"Delay", "Skip"}
<1>1. /\ p \in Jobs \X Levels /\ q \in Jobs \X Levels /\ p[2] # 0 /\ q[2] # 0
      /\ v.kind \in Limiting /\ w.kind \in Limiting /\ v.n \in Nat
    <2>1. ASSUME NEW x \in Places(chains, Limiting)
          PROVE  /\ x \in Jobs \X Levels /\ x[1] \in Jobs /\ x[2] \in Levels
                 /\ x[2] \in DOMAIN chains[x[1]] /\ chains[x[1]][x[2]].kind \in Limiting
        BY <2>1 DEF Places
    <2>2. v.n \in Nat
        BY <2>1, ChainAssumption DEF ChainTypes
    <2>3. 0 \notin Levels
        BY LevelNumbers
    <2>4. QED
        BY <2>1, <2>2, <2>3
<1>2. CASE v.kind \in Own
    <2>1. ResourceOf(p) = <<p[1], p[2]>>
        BY <1>2 DEF ResourceOf, Resource
    <2>2. w.kind \in Own
        BY <1>1, <2>1 DEF ResourceOf, Resource
    <2>3. QED
        BY <1>2, <2>2 DEF SlotsOf, Slots
<1>3. CASE v.kind \notin Own
    <2>1. ResourceOf(p) = <<v.shared, 0>>
        BY <1>3 DEF ResourceOf, Resource
    <2>2. w.kind \notin Own
        BY <1>1, <2>1 DEF ResourceOf, Resource
    <2>3. v.shared = w.shared
        BY <2>1, <2>2 DEF ResourceOf, Resource
    <2>4. /\ p \in Places(chains, {"MaxConcurrent", "MaxConcurrentSkip"})
          /\ q \in Places(chains, {"MaxConcurrent", "MaxConcurrentSkip"})
        BY <1>1, <1>3, <2>2 DEF Places, Limiting
    <2>5. v.n = w.n
        BY <2>3, <2>4 DEF ChainTypes, Accepted
    <2>6. QED
        BY <1>1, <1>3, <2>2, <2>5 DEF SlotsOf, Slots
<1>4. QED
    BY <1>2, <1>3

LEMMA ResourcesFixed ==
    ASSUME UNCHANGED chains
    PROVE  /\ Places(chains, Limiting)' = Places(chains, Limiting)
           /\ \A p : ResourceOf(p)' = ResourceOf(p) /\ SlotsOf(p)' = SlotsOf(p)
           /\ \A j, i : Resource(j, i)' = Resource(j, i)
BY DEF Places, ResourceOf, Resource, SlotsOf, Slots

\* The limited level of a run is a place of its chain.
LEMMA LimitedPlace ==
    ASSUME ChainTypes, NEW r \in Runs, NEW i \in Levels, Kind(r, i) \in Limiting
    PROVE  /\ <<JobOf[r], i>> \in Places(chains, Limiting)
           /\ Slots(Wrapper(r, i)) = SlotsOf(<<JobOf[r], i>>)
           /\ Resource(JobOf[r], i) = ResourceOf(<<JobOf[r], i>>)
<1>1. Kind(r, i) # "Job"
    BY DEF Limiting
<1>2. i \in 1..(Body(r) - 1)
    BY <1>1, BodyFacts
<1>3. QED
    BY <1>2, BodyFacts DEF Places, SlotsOf, ResourceOf, Wrapper

\* A step that leaves every limited level inside or outside leaves the holders.
LEMMA SameHolders ==
    ASSUME UNCHANGED chains,
           \A q \in Runs, m \in Levels :
              Kind(q, m) \in Limiting => (phase'[q][m] = "inside" <=> phase[q][m] = "inside"),
           NEW s
    PROVE  Holders(s)' = Holders(s)
BY KindsFixed, ResourcesFixed DEF Holders, At

LEMMA SlotsIdle ==
    ASSUME SlotsInv, UNCHANGED <<chains, used>>,
           \A q \in Runs, m \in Levels :
              Kind(q, m) \in Limiting => (phase'[q][m] = "inside" <=> phase[q][m] = "inside")
    PROVE  SlotsInv'
<1>1. \A s : Holders(s)' = Holders(s)
    BY SameHolders
<1>2. QED
    BY <1>1, ResourcesFixed DEF SlotsInv, SlotsExact

LEMMA AcquireKeepsSlots ==
    ASSUME ChainTypes, LinesInv, SlotsInv, NEW r \in Runs, NEW i \in 1..(Body(r) - 1), Acquire(r, i)
    PROVE  SlotsInv'
<1> DEFINE s0 == Resource(JobOf[r], i)
           f == phase[r]
<1>1. /\ i \in Levels /\ Kind(r, i) \in Limiting /\ f[i] = "entered" /\ UNCHANGED chains
      /\ used[s0] < Slots(Wrapper(r, i)) /\ used' = [used EXCEPT ![s0] = @ + 1] /\ Call(r, i)
    BY BodyFacts DEF Acquire, At, otherVars
<1>2. PICK g : Sets(r, g) /\ Calls(f, g, i)
    BY <1>1, PhaseForms
<1>3. f \in Lines /\ Nested(KindsOf(r), Body(r), f) /\ Body(r) \in Levels /\ i + 1 \in Levels /\ Levels \subseteq Nat
    BY BodyFacts, LevelNumbers DEF ChainTypes, LinesInv
<1>4. \A q \in Runs : phase'[q] = IF q = r THEN g ELSE phase[q]
    BY <1>2 DEF Sets, ChainTypes
<1>5. \A m \in Levels : g[m] = "inside" <=> m = i \/ f[m] = "inside"
    <2>1. f[i + 1] = "idle"
        BY <1>1, <1>3 DEF Nested, Quiet
    <2>2. QED
        BY <1>2, <1>3, <2>1, CallsPhases
<1>6. ASSUME NEW s
      PROVE  Holders(s)' = IF s = s0 THEN Holders(s) \union {<<r, i>>} ELSE Holders(s)
    <2>1. \A q, m : Kind(q, m)' = Kind(q, m) /\ Resource(JobOf[q], m)' = Resource(JobOf[q], m)
        BY <1>1, KindsFixed, ResourcesFixed
    <2>2. ASSUME NEW q \in Runs, NEW m \in Levels
          PROVE  phase'[q][m] = "inside" <=> (q = r /\ m = i) \/ phase[q][m] = "inside"
        BY <1>4, <1>5
    <2>3. ASSUME NEW q \in Runs, NEW m \in Levels
          PROVE  <<q, m>> \in Holders(s)' <=> <<q, m>> \in Holders(s) \/ (q = r /\ m = i /\ s = s0)
        BY <1>1, <2>1, <2>2 DEF Holders, At
    <2>4. Holders(s)' \subseteq Runs \X Levels /\ Holders(s) \subseteq Runs \X Levels
        BY DEF Holders
    <2>5. ASSUME NEW x \in Runs \X Levels
          PROVE  x \in Holders(s)' <=> x \in Holders(s) \/ (x = <<r, i>> /\ s = s0)
        <3>1. x = <<x[1], x[2]>> /\ x[1] \in Runs /\ x[2] \in Levels
            OBVIOUS
        <3>2. x = <<r, i>> <=> x[1] = r /\ x[2] = i
            BY <3>1
        <3>3. QED
            BY <2>3, <3>1, <3>2
    <2> HIDE DEF s0
    <2>6. QED
        BY <1>1, <2>4, <2>5
<1>7. <<r, i>> \notin Holders(s0)
    BY <1>1 DEF Holders, At
<1>8. s0 \in DOMAIN used
    BY <1>1, LimitedPlace DEF SlotsInv
<1>9. DOMAIN used' = DOMAIN used /\ \A s \in DOMAIN used : used'[s] = IF s = s0 THEN used[s] + 1 ELSE used[s]
    BY <1>1
<1>10. SlotsExact'
    <2>1. ASSUME NEW s \in DOMAIN used
          PROVE  used'[s] = Cardinality(Holders(s)')
        <3>1. used[s] = Cardinality(Holders(s))
            BY DEF SlotsInv, SlotsExact
        <3>2. s = s0 => Cardinality(Holders(s) \union {<<r, i>>}) = Cardinality(Holders(s)) + 1
            BY <1>7, HoldersFinite, FS_AddElement
        <3>3. QED
            BY <1>6, <1>9, <3>1, <3>2
    <2>2. QED
        BY <1>9, <2>1 DEF SlotsExact
<1>11. ASSUME NEW p \in Places(chains, Limiting)
       PROVE  used'[ResourceOf(p)] <= SlotsOf(p)
    <2>1. ResourceOf(p) \in DOMAIN used /\ used[ResourceOf(p)] <= SlotsOf(p)
        BY DEF SlotsInv
    <2>2. CASE ResourceOf(p) = s0
        <3>1. Slots(Wrapper(r, i)) = SlotsOf(p) /\ SlotsOf(p) \in Nat
            BY <1>1, <2>2, LimitedPlace, SameSlots
        <3>2. used[s0] \in Nat
            BY <1>8, HoldersFinite DEF SlotsInv, SlotsExact
        <3>3. used'[s0] = used[s0] + 1 /\ used[s0] < SlotsOf(p)
            BY <1>1, <1>8, <1>9, <3>1
        <3> HIDE DEF s0
        <3>4. QED
            BY <2>2, <3>1, <3>2, <3>3
    <2>3. QED
        BY <1>9, <2>1, <2>2
<1>12. QED
    BY <1>1, <1>9, <1>10, <1>11, ResourcesFixed DEF SlotsInv

LEMMA VacateKeepsSlots ==
    ASSUME ChainTypes, LinesInv, SlotsInv, NEW r \in Runs, NEW i \in 1..(Body(r) - 1), Vacate(r, i)
    PROVE  SlotsInv'
<1> DEFINE s0 == Resource(JobOf[r], i)
           f == phase[r]
<1>1. /\ i \in Levels /\ Kind(r, i) \in Limiting /\ f[i] = "inside" /\ UNCHANGED chains
      /\ used' = [used EXCEPT ![s0] = @ - 1]
      /\ Inner(r, i) \in Finished /\ Becomes(r, i, Inner(r, i))
    BY BodyFacts DEF Vacate, At, otherVars, Freed
<1>2. PICK g : Sets(r, g) /\ Leaves(f, g, i, Inner(r, i))
    BY <1>1, PhaseForms
<1>3. f \in Lines
    BY DEF ChainTypes
<1>4. \A q \in Runs : phase'[q] = IF q = r THEN g ELSE phase[q]
    BY <1>2 DEF Sets, ChainTypes
<1>5. \A m \in Levels : g[m] = "inside" <=> m # i /\ f[m] = "inside"
    <2>1. Inner(r, i) # "inside"
        BY <1>1 DEF Finished
    <2>2. QED
        BY <1>2, <1>3, <2>1, LeavesPhases
<1>6. ASSUME NEW s
      PROVE  Holders(s)' = IF s = s0 THEN Holders(s) \ {<<r, i>>} ELSE Holders(s)
    <2>1. \A q, m : Kind(q, m)' = Kind(q, m) /\ Resource(JobOf[q], m)' = Resource(JobOf[q], m)
        BY <1>1, KindsFixed, ResourcesFixed
    <2>2. ASSUME NEW q \in Runs, NEW m \in Levels
          PROVE  phase'[q][m] = "inside" <=> ~(q = r /\ m = i) /\ phase[q][m] = "inside"
        BY <1>4, <1>5
    <2>3. ASSUME NEW q \in Runs, NEW m \in Levels
          PROVE  <<q, m>> \in Holders(s)' <=> <<q, m>> \in Holders(s) /\ ~(q = r /\ m = i /\ s = s0)
        BY <1>1, <2>1, <2>2 DEF Holders, At
    <2>4. Holders(s)' \subseteq Runs \X Levels /\ Holders(s) \subseteq Runs \X Levels
        BY DEF Holders
    <2>5. ASSUME NEW x \in Runs \X Levels
          PROVE  x \in Holders(s)' <=> x \in Holders(s) /\ ~(x = <<r, i>> /\ s = s0)
        <3>1. x = <<x[1], x[2]>> /\ x[1] \in Runs /\ x[2] \in Levels
            OBVIOUS
        <3>2. x = <<r, i>> <=> x[1] = r /\ x[2] = i
            BY <3>1
        <3>3. QED
            BY <2>3, <3>1, <3>2
    <2> HIDE DEF s0
    <2>6. QED
        BY <1>1, <2>4, <2>5
<1>7. <<r, i>> \in Holders(s0)
    BY <1>1 DEF Holders, At
<1>8. DOMAIN used' = DOMAIN used /\ \A s \in DOMAIN used : used'[s] = IF s = s0 THEN used[s] - 1 ELSE used[s]
    BY <1>1
<1>9. \A s \in DOMAIN used : used[s] = Cardinality(Holders(s)) /\ used[s] \in Nat
    BY HoldersFinite DEF SlotsInv, SlotsExact
<1>10. SlotsExact'
    <2>1. ASSUME NEW s \in DOMAIN used
          PROVE  used'[s] = Cardinality(Holders(s)')
        <3>1. s = s0 => Cardinality(Holders(s) \ {<<r, i>>}) = Cardinality(Holders(s)) - 1
            BY <1>7, HoldersFinite, FS_RemoveElement
        <3>2. QED
            BY <1>6, <1>8, <1>9, <3>1
    <2>2. QED
        BY <1>8, <2>1 DEF SlotsExact
<1>11. ASSUME NEW p \in Places(chains, Limiting)
       PROVE  used'[ResourceOf(p)] <= SlotsOf(p)
    <2>1. ResourceOf(p) \in DOMAIN used /\ used[ResourceOf(p)] <= SlotsOf(p) /\ SlotsOf(p) \in Nat
        BY SameSlots DEF SlotsInv
    <2>2. used'[ResourceOf(p)] <= used[ResourceOf(p)] /\ used'[ResourceOf(p)] \in Int
        BY <1>8, <1>9, <2>1
    <2> HIDE DEF s0
    <2>3. QED
        BY <1>9, <2>1, <2>2
<1>12. QED
    BY <1>1, <1>8, <1>10, <1>11, ResourcesFixed DEF SlotsInv

\* A move of one run that leaves its limited levels inside or outside.
LEMMA InsidesKept ==
    ASSUME ChainTypes, SlotsInv, UNCHANGED <<chains, used>>, NEW r \in Runs, NEW g, Sets(r, g),
           \A m \in Levels : Kind(r, m) \in Limiting => (g[m] = "inside" <=> phase[r][m] = "inside")
    PROVE  SlotsInv'
<1>1. \A q \in Runs : phase'[q] = IF q = r THEN g ELSE phase[q]
    BY DEF Sets, ChainTypes
<1>2. QED
    BY <1>1, SlotsIdle

LEMMA RunEndsKeepSlots ==
    ASSUME ChainTypes, SlotsInv, NEW r \in Runs, StartRun(r) \/ JobStarts(r) \/ JobEnds(r)
    PROVE  SlotsInv'
<1>1. phase[r] \in Lines
    BY DEF ChainTypes
<1>2. UNCHANGED <<chains, used>>
    BY Zenon DEF StartRun, JobStarts, JobEnds, otherVars
<1>3. CASE StartRun(r)
    <2>1. PICK g : Sets(r, g) /\ Leaves(phase[r], g, 1, "entered")
        BY <1>3, PhaseForms DEF StartRun
    <2>2. \A m \in Levels : g[m] = "inside" <=> phase[r][m] = "inside"
        BY <1>1, <1>3, <2>1, LeavesPhases DEF StartRun
    <2>3. QED
        BY <1>2, <2>1, <2>2, InsidesKept
<1>4. CASE JobStarts(r) \/ JobEnds(r)
    <2>1. \E p : Becomes(r, Body(r), p)
        BY <1>4 DEF JobStarts, JobEnds
    <2>2. PICK g, p : Sets(r, g) /\ Leaves(phase[r], g, Body(r), p)
        BY <2>1, PhaseForms
    <2>3. \A m \in Levels : Kind(r, m) \in Limiting => m # Body(r)
        BY BodyFacts DEF Limiting
    <2>4. \A m \in Levels : Kind(r, m) \in Limiting => (g[m] = "inside" <=> phase[r][m] = "inside")
        BY <1>1, <2>2, <2>3, LeavesPhases
    <2>5. QED
        BY <1>2, <2>2, <2>4, InsidesKept
<1>5. QED
    BY <1>3, <1>4

LEMMA WrappersKeepSlots ==
    ASSUME ChainTypes, LinesInv, SlotsInv, NEW r \in Runs, NEW i \in 1..(Body(r) - 1),
           WrapperStep(r, i) \/ Refuse(r, i), ~Acquire(r, i), ~Vacate(r, i)
    PROVE  SlotsInv'
<1>1. /\ phase[r] \in Lines /\ Nested(KindsOf(r), Body(r), phase[r]) /\ Body(r) \in Levels
      /\ i \in Levels
    BY BodyFacts DEF ChainTypes, LinesInv
<1>2. UNCHANGED <<chains, used>>
    BY Zenon DEF WrapperStep, PassIn, JitterReturns, RecoverReturns, GiveUp, TimeoutReturns, Deadline,
                 Abandon, Attempt, Again, RetryReturns, LoadFailures, LoadFailTime, Decide,
                 AddFailure, ReadFailureTime, StoreFailureTime, ResetOnSuccess, Reserve, Unshared,
                 ReleaseReturns, DedupReturns, Refuse, otherVars
<1>3. CASE GiveUp(r, i) \/ Refuse(r, i)
    <2>1. phase[r][i] = "entered" /\ Becomes(r, i, "returned")
        BY <1>3, Zenon DEF GiveUp, Refuse, At
    <2>2. PICK g : Sets(r, g) /\ Leaves(phase[r], g, i, "returned")
        BY <2>1, PhaseForms
    <2>3. \A m \in Levels : g[m] = "inside" <=> phase[r][m] = "inside"
        BY <1>1, <2>1, <2>2, LeavesPhases
    <2>4. QED
        BY <1>2, <2>2, <2>3, InsidesKept
<1>4. CASE WrapperStep(r, i) /\ ~GiveUp(r, i)
    <2>1. Kind(r, i) \notin Limiting
        <3>1. CASE PassIn(r, i) \/ JitterReturns(r, i) \/ RecoverReturns(r, i)
            <4>1. \/ Kind(r, i) \in {"Recover", "Jitter", "Timeout", "TimeoutWithContext"}
                  \/ Kind(r, i) \in {"Jitter"} \/ Kind(r, i) \in {"Recover"}
                BY <3>1, Zenon DEF PassIn, JitterReturns, RecoverReturns, At
            <4>2. QED
                BY <4>1 DEF Limiting
        <3>2. CASE TimeoutReturns(r, i) \/ Deadline(r, i) \/ Abandon(r, i)
            BY <3>2 DEF TimeoutReturns, Deadline, Abandon, At, Limiting
        <3>3. CASE Attempt(r, i) \/ Again(r, i) \/ RetryReturns(r, i)
            BY <3>3 DEF Attempt, Again, RetryReturns, At, Limiting
        <3>4. CASE \/ LoadFailures(r, i) \/ LoadFailTime(r, i) \/ Decide(r, i) \/ AddFailure(r, i)
                   \/ ReadFailureTime(r, i) \/ StoreFailureTime(r, i) \/ ResetOnSuccess(r, i)
            BY <3>4 DEF LoadFailures, LoadFailTime, Decide, AddFailure, ReadFailureTime, StoreFailureTime,
                        ResetOnSuccess, At, Limiting
        <3>5. CASE Reserve(r, i) \/ Unshared(r, i) \/ ReleaseReturns(r, i) \/ DedupReturns(r, i)
            BY <3>5 DEF Reserve, Unshared, ReleaseReturns, DedupReturns, At, Limiting
        <3>6. QED
            BY <1>4, <3>1, <3>2, <3>3, <3>4, <3>5, Zenon DEF WrapperStep
    <2>2. PICK g : Sets(r, g) /\ WrapperMove(KindsOf(r), r \in WorkflowRuns, phase[r], g, i)
        BY <1>4, WrapperStepMoves
    <2>3. ASSUME NEW m \in Levels, m # i
          PROVE  g[m] = "inside" <=> phase[r][m] = "inside"
        <3> DEFINE kinds == KindsOf(r)
                   b == Body(r)
                   w == r \in WorkflowRuns
                   f == phase[r]
        <3>1. /\ w \in BOOLEAN /\ b \in Levels /\ f \in Lines /\ Nested(kinds, b, f) /\ i \in 1..(b - 1)
              /\ WrapperMove(kinds, w, f, g, i)
            BY <1>1, <2>2
        <3> HIDE DEF kinds, b, w, f
        <3>2. f[m] = "inside" <=> g[m] = "inside"
            BY <2>3, <3>1, OtherLevelsKept
        <3>3. QED
            BY <3>2 DEF f
    <2>4. QED
        BY <1>2, <2>1, <2>2, <2>3, InsidesKept
<1>5. QED
    BY <1>3, <1>4

LEMMA SlotsKept ==
    ASSUME ChainTypes, LinesInv, SlotsInv, [Next]_vars
    PROVE  SlotsInv'
<1>1. CASE UNCHANGED vars \/ TimePasses
    <2>1. UNCHANGED <<chains, phase, used>>
        BY <1>1, Zenon DEF vars, otherVars, TimePasses
    <2>2. QED
        BY <2>1, SlotsIdle
<1>2. ASSUME NEW r \in Runs, CancelRun(r)
      PROVE  SlotsInv'
    <2>1. UNCHANGED <<chains, phase, used>>
        BY <1>2, Zenon DEF CancelRun, otherVars
    <2>2. QED
        BY <2>1, SlotsIdle
<1>3. ASSUME NEW r \in Runs, NEW i \in 1..(Body(r) - 1), WrapperStep(r, i) \/ Refuse(r, i)
      PROVE  SlotsInv'
    BY <1>3, AcquireKeepsSlots, VacateKeepsSlots, WrappersKeepSlots
<1>4. QED
    BY <1>1, <1>2, <1>3, RunEndsKeepSlots, NextCases

LEMMA SlotsInitially == Init => SlotsInv
<1>1. SUFFICES ASSUME Init PROVE SlotsInv
    OBVIOUS
<1>2. ChainTypes
    BY <1>1, LinesInitially
<1>3. /\ DOMAIN used = {ResourceOf(p) : p \in Places(chains, Limiting)}
      /\ \A s \in DOMAIN used : used[s] = 0
    BY <1>1 DEF Init, ResourceOf
<1>4. \A s : Holders(s) = {}
    BY <1>1 DEF Init, Holders, At
<1>5. SlotsExact
    BY <1>3, <1>4, FS_EmptySet DEF SlotsExact
<1>6. \A p \in Places(chains, Limiting) : used[ResourceOf(p)] <= SlotsOf(p)
    <2>1. SUFFICES ASSUME NEW p \in Places(chains, Limiting)
                   PROVE  used[ResourceOf(p)] <= SlotsOf(p)
        OBVIOUS
    <2>2. used[ResourceOf(p)] = 0 /\ SlotsOf(p) \in Nat
        BY <1>2, <1>3, SameSlots
    <2>3. QED
        BY <2>2
<1>7. QED
    BY <1>3, <1>5, <1>6 DEF SlotsInv

\* No slot, lock or token leaks when a job panics, a context ends or a timeout
\* leaves a run behind: what is taken is what the levels inside hold.
THEOREM SlotsAlwaysExact == Spec => []SlotsExact
<1>1. Init => ChainTypes /\ LinesInv /\ SlotsInv
    BY LinesInitially, SlotsInitially
<1>2. (ChainTypes /\ LinesInv /\ SlotsInv) /\ [Next]_vars => (ChainTypes /\ LinesInv /\ SlotsInv)'
    BY LinesKept, SlotsKept
<1>3. ChainTypes /\ LinesInv /\ SlotsInv => SlotsExact
    BY DEF SlotsInv
<1>4. QED
    BY <1>1, <1>2, <1>3, PTL DEF Spec

\* The runs whose job is under way behind a limit are holders of it.
LEMMA LimitHolds ==
    ASSUME ChainTypes, LinesInv, SlotsInv
    PROVE  JobsWithinLimit
<1> SUFFICES ASSUME NEW p \in Places(chains, Limiting)
             PROVE  LET s == Resource(p[1], p[2])
                        behind == {r \in Runs : \E i \in Levels :
                                      /\ phase[r][Body(r)] = "inside"
                                      /\ Kind(r, i) \in Limiting /\ Resource(JobOf[r], i) = s
                                      /\ \A k \in i..Body(r) : Kind(r, k) \notin Timing}
                    IN  Cardinality(behind) <= IF chains[p[1]][p[2]].kind \in {"Delay", "Skip"}
                                               THEN 1 ELSE chains[p[1]][p[2]].n
    BY DEF JobsWithinLimit
<1> DEFINE s == Resource(p[1], p[2])
           Behind(r, i) == /\ phase[r][Body(r)] = "inside"
                           /\ Kind(r, i) \in Limiting /\ Resource(JobOf[r], i) = s
                           /\ \A k \in i..Body(r) : Kind(r, k) \notin Timing
           behind == {r \in Runs : \E i \in Levels : Behind(r, i)}
           At1(r) == CHOOSE i \in Levels : Behind(r, i)
           hold == [r \in behind |-> <<r, At1(r)>>]
<1>1. ASSUME NEW r \in Runs, NEW i \in Levels, Behind(r, i)
      PROVE  <<r, i>> \in Holders(s)
    <2>1. /\ phase[r] \in Lines /\ Nested(KindsOf(r), Body(r), phase[r]) /\ Body(r) \in Levels
          /\ Levels \subseteq Nat
        BY BodyFacts, LevelNumbers DEF ChainTypes, LinesInv
    <2>2. i < Body(r)
        <3>1. Kind(r, i) # "Job"
            BY <1>1 DEF Limiting
        <3>2. QED
            BY <2>1, <3>1, BodyFacts
    <2>3. Untimed(KindsOf(r), i, Body(r))
        <3>1. \A l \in Levels : i <= l /\ l < Body(r) => Kind(r, l) \notin Timing
            <4>1. \A b \in Levels, l \in Levels : i <= l /\ l < b => l \in i..b
                BY <2>1
            <4>2. QED
                BY <1>1, <2>1, <4>1
        <3>2. QED
            BY <3>1 DEF Untimed, KindsOf
    <2>4. "inside" \in Live
        BY DEF Live, Phases, Finished
    <2>5. phase[r][i] = "inside"
        BY <1>1, <2>1, <2>2, <2>3, <2>4 DEF Nested
    <2>6. QED
        BY <1>1, <2>5 DEF Holders, At
<1>2. \A r \in behind : r \in Runs /\ At1(r) \in Levels /\ Behind(r, At1(r))
    OBVIOUS
<1>3. hold \in Injection(behind, Holders(s))
    <2>1. \A r \in behind : hold[r] = <<r, At1(r)>> /\ hold[r] \in Holders(s)
        <3> HIDE DEF Behind, At1
        <3>1. QED
            BY <1>1, <1>2
    <2> HIDE DEF At1, behind
    <2>2. QED
        BY <2>1 DEF Injection, IsInjective
<1>4. Cardinality(behind) <= Cardinality(Holders(s)) /\ IsFiniteSet(behind)
    BY <1>3, HoldersFinite, FS_Injection
<1>5. Cardinality(Holders(s)) <= SlotsOf(p) /\ SlotsOf(p) \in Nat
    <2>1. ResourceOf(p) = s /\ s \in DOMAIN used
        BY DEF SlotsInv, ResourceOf
    <2>2. QED
        BY <2>1, SameSlots DEF SlotsInv, SlotsExact
<1>6. Cardinality(behind) \in Nat /\ Cardinality(Holders(s)) \in Nat
    BY <1>4, HoldersFinite, FS_CardinalityType
<1>7. SlotsOf(p) = IF chains[p[1]][p[2]].kind \in {"Delay", "Skip"} THEN 1 ELSE chains[p[1]][p[2]].n
    BY DEF SlotsOf, Slots
<1>8. Cardinality(behind) <= SlotsOf(p)
    <2> HIDE DEF behind, s
    <2>1. QED
        BY <1>4, <1>5, <1>6
<1>9. QED
    BY <1>7, <1>8

\* No more jobs are under way behind a limit than it has slots, for all chains
\* and any number of runs.
THEOREM JobsAlwaysWithinLimit == Spec => []JobsWithinLimit
<1>1. Init => ChainTypes /\ LinesInv /\ SlotsInv
    BY LinesInitially, SlotsInitially
<1>2. (ChainTypes /\ LinesInv /\ SlotsInv) /\ [Next]_vars => (ChainTypes /\ LinesInv /\ SlotsInv)'
    BY LinesKept, SlotsKept
<1>3. ChainTypes /\ LinesInv /\ SlotsInv => JobsWithinLimit
    BY LimitHolds
<1>4. QED
    BY <1>1, <1>2, <1>3, PTL DEF Spec
-----------------------------------------------------------------------------
(* The circuit breaker *)

Recording == {"recording", "stamped"}
Checking  == {"loaded", "timed"}
Past      == {"inside"} \union Recording

\* The clock and the times the breaker knows.
ClockInv ==
    /\ now \in Nat /\ failures \in Nat /\ lastFail \in Int /\ lastFail <= now
    /\ seen \in [Runs -> Nat] /\ stamp \in [Runs -> Int] /\ \A r \in Runs : stamp[r] <= now

\* One run at a time records its failure, and its time is the latest.
RecordersInv ==
    /\ \A r \in Runs, i \in Levels : phase[r][i] \in Checking \union Recording => Kind(r, i) = "Circuit"
    /\ \A r, q \in Runs, i, k \in Levels :
          phase[r][i] \in Recording /\ phase[q][k] \in Recording => r = q /\ i = k
    /\ \A r \in Runs, i \in Levels : phase[r][i] = "stamped" => lastFail <= stamp[r]

\* What bars a run that met an open breaker, from one of its loads to the next.
Barred(r, p) ==
    /\ p = "entered" => barred[r] <= now \/ barred[r] <= lastFail + Cooldown
    /\ p = "loaded"  => barred[r] <= now \/ (seen[r] >= Threshold /\ barred[r] <= lastFail + Cooldown)
    /\ p = "timed"   => barred[r] <= now \/ (seen[r] >= Threshold /\ barred[r] <= stamp[r] + Cooldown)
    /\ p \in Past  => barred[r] <= now

BarredInv ==
    /\ barred \in [Runs -> Int]
    /\ \A r \in Runs : failures < Threshold => barred[r] = 0
    /\ \A r \in Runs, i \in Levels : Kind(r, i) = "Circuit" => Barred(r, phase[r][i])

LEMMA OneBreaker ==
    ASSUME ChainTypes, NEW r \in Runs, NEW i \in Levels, NEW k \in Levels,
           Kind(r, i) = "Circuit", Kind(r, k) = "Circuit"
    PROVE  i = k
<1>1. /\ i \in DOMAIN chains[JobOf[r]] /\ chains[JobOf[r]][i].kind = "Circuit"
      /\ k \in DOMAIN chains[JobOf[r]] /\ chains[JobOf[r]][k].kind = "Circuit"
    BY BodyFacts DEF Wrapper
<1>2. chains \in Configs /\ JobOf[r] \in Jobs
    BY BodyFacts DEF ChainTypes
<1>3. QED
    BY <1>1, <1>2, ChainAssumption

LEMMA BecomesPhases ==
    ASSUME ChainTypes, NEW r \in Runs, NEW i \in Levels, NEW p, Becomes(r, i, p)
    PROVE  \A q \in Runs, k \in Levels : phase'[q][k] = IF q = r /\ k = i THEN p ELSE phase[q][k]
BY DEF Becomes, ChainTypes, Lines

\* The step of one level leaves another one as it was, calls it or clears it.
LEMMA OtherLevelsCalled ==
    ASSUME NEW kinds, NEW b \in Levels, NEW w \in BOOLEAN, NEW f \in Lines,
           NEW i \in 1..(b - 1), NEW g, WrapperMove(kinds, w, f, g, i) \/ RefuseMove(kinds, f, g, i),
           NEW m \in Levels, m # i
    PROVE  g[m] \in {f[m], "entered", "idle"}
<1>1. CASE Calls(f, g, i)
    BY <1>1, CallsPhases
<1>2. CASE Retries(f, g, i)
    BY <1>2 DEF Retries
<1>3. ASSUME NEW p, Leaves(f, g, i, p) PROVE g[m] = f[m]
    BY <1>3, LeavesPhases
<1>4. QED
    BY <1>1, <1>2, <1>3, WrapperMoveForms

\* The steps of a wrapper, in the terms of its own level.
LEMMA OwnSteps ==
    ASSUME ChainTypes, NEW r \in Runs, NEW i \in 1..(Body(r) - 1), WrapperStep(r, i) \/ Refuse(r, i)
    PROVE  \/ LoadFailures(r, i) \/ LoadFailTime(r, i) \/ Decide(r, i)
           \/ AddFailure(r, i) \/ ReadFailureTime(r, i)
           \/ phase'[r][i] = "inside" /\ Kind(r, i) # "Circuit"
           \/ phase'[r][i] \in Finished \union {"grace", phase[r][i]}
<1>1. i \in Levels
    BY BodyFacts
<1>2. ASSUME NEW p, Becomes(r, i, p) PROVE phase'[r][i] = p
    BY <1>1, <1>2, BecomesPhases
<1>3. CASE PassIn(r, i) \/ Acquire(r, i) \/ Attempt(r, i) \/ Reserve(r, i) \/ Unshared(r, i)
    <2>1. /\ Call(r, i)
          /\ Kind(r, i) \in {"Recover", "Jitter", "Timeout", "TimeoutWithContext", "Retry", "Exclusive",
                             "Dedup"} \union Limiting
        BY <1>3 DEF PassIn, Acquire, Attempt, Reserve, Unshared, At
    <2>2. phase'[r][i] = "inside"
        BY <1>1, <2>1 DEF Call, ChainTypes, Lines
    <2>3. QED
        BY <2>1, <2>2 DEF Limiting
<1>4. CASE \/ JitterReturns(r, i) \/ RecoverReturns(r, i) \/ Vacate(r, i) \/ TimeoutReturns(r, i)
           \/ RetryReturns(r, i) \/ ReleaseReturns(r, i) \/ DedupReturns(r, i)
    <2>1. Inner(r, i) \in Finished /\ (Becomes(r, i, Inner(r, i)) \/ Becomes(r, i, "returned"))
        BY <1>4 DEF JitterReturns, RecoverReturns, Vacate, TimeoutReturns, RetryReturns, ReleaseReturns,
                    DedupReturns
    <2>2. QED
        BY <1>2, <2>1 DEF Finished
<1>5. CASE \/ GiveUp(r, i) \/ Refuse(r, i) \/ Abandon(r, i) \/ Deadline(r, i)
           \/ StoreFailureTime(r, i) \/ ResetOnSuccess(r, i)
    <2>1. Becomes(r, i, "returned") \/ Becomes(r, i, "grace") \/ Becomes(r, i, "panicked")
        BY <1>5, Zenon DEF GiveUp, Refuse, Abandon, Deadline, StoreFailureTime, ResetOnSuccess
    <2>2. QED
        BY <1>2, <2>1 DEF Finished
<1>6. CASE Again(r, i)
    BY <1>1, <1>6, LevelNumbers DEF Again, ChainTypes, Lines
<1>7. QED
    BY <1>3, <1>4, <1>5, <1>6, Zenon DEF WrapperStep

\* How a level comes to wait at the breaker or to record, and one with a
\* breaker to be inside.
LEMMA PhaseSteps ==
    ASSUME ChainTypes, [Next]_vars, NEW r \in Runs, NEW i \in Levels,
           \/ phase'[r][i] \in Checking \union Recording
           \/ phase'[r][i] = "inside" /\ Kind(r, i) = "Circuit"
    PROVE  \/ phase'[r][i] = phase[r][i]
           \/ LoadFailures(r, i) \/ LoadFailTime(r, i) \/ Decide(r, i)
           \/ AddFailure(r, i) \/ ReadFailureTime(r, i)
<1>1. phase \in [Runs -> Lines] /\ phase'[r][i] \notin Finished \union {"idle", "entered", "grace"}
    BY DEF ChainTypes, Checking, Recording, Finished
<1>2. CASE TimePasses \/ UNCHANGED vars
    BY <1>2 DEF TimePasses, vars
<1>3. ASSUME NEW q \in Runs, CancelRun(q) PROVE phase'[r][i] = phase[r][i]
    BY <1>3 DEF CancelRun
<1>4. ASSUME NEW q \in Runs, StartRun(q) \/ JobStarts(q) \/ JobEnds(q)
      PROVE  phase'[r][i] = phase[r][i]
    <2>1. Body(q) \in Levels /\ 1 \in Levels /\ Kind(q, Body(q)) = "Job"
        BY BodyFacts, LevelNumbers
    <2>2. \/ Becomes(q, 1, "entered") \/ Becomes(q, Body(q), "inside")
          \/ \E p \in Finished : Becomes(q, Body(q), p)
        BY <1>4, Zenon DEF StartRun, JobStarts, JobEnds
    <2>3. "inside" \notin Checking \union Recording
        BY DEF Checking, Recording
    <2>4. CASE Becomes(q, 1, "entered")
        BY <1>1, <2>1, <2>4, BecomesPhases
    <2>5. CASE Becomes(q, Body(q), "inside")
        BY <2>1, <2>3, <2>5, BecomesPhases
    <2>6. ASSUME NEW p \in Finished, Becomes(q, Body(q), p)
          PROVE  phase'[r][i] = phase[r][i]
        BY <1>1, <2>1, <2>6, BecomesPhases
    <2>7. QED
        BY <2>2, <2>4, <2>5, <2>6
<1>5. ASSUME NEW q \in Runs, NEW k \in 1..(Body(q) - 1), WrapperStep(q, k) \/ Refuse(q, k),
             q # r \/ k # i
      PROVE  phase'[r][i] = phase[r][i]
    <2>1. CASE Refuse(q, k)
        <3>1. Becomes(q, k, "returned") /\ k \in Levels
            BY <2>1, BodyFacts DEF Refuse
        <3>2. QED
            BY <1>1, <3>1, BecomesPhases DEF Finished
    <2>2. CASE WrapperStep(q, k)
        <3>1. PICK g : Sets(q, g) /\ WrapperMove(KindsOf(q), q \in WorkflowRuns, phase[q], g, k)
            BY <2>2, WrapperStepMoves
        <3>2. phase'[r] = IF q = r THEN g ELSE phase[r]
            BY <1>1, <3>1 DEF Sets
        <3>3. ASSUME q = r PROVE g[i] \in {phase[r][i], "entered", "idle"}
            <4> DEFINE kinds == KindsOf(q)
                       b == Body(q)
                       w == q \in WorkflowRuns
                       f == phase[q]
            <4>1. /\ w \in BOOLEAN /\ b \in Levels /\ f \in Lines /\ k \in 1..(b - 1) /\ k # i
                  /\ WrapperMove(kinds, w, f, g, k)
                BY <1>1, <1>5, <3>1, <3>3, BodyFacts
            <4> HIDE DEF kinds, b, w, f
            <4>2. g[i] \in {f[i], "entered", "idle"}
                BY <4>1, OtherLevelsCalled
            <4>3. QED
                BY <3>3, <4>2 DEF f
        <3>4. QED
            BY <1>1, <3>2, <3>3
    <2>3. QED
        BY <1>5, <2>1, <2>2
<1>6. ASSUME i \in 1..(Body(r) - 1), WrapperStep(r, i) \/ Refuse(r, i)
      PROVE  \/ phase'[r][i] = phase[r][i]
             \/ LoadFailures(r, i) \/ LoadFailTime(r, i) \/ Decide(r, i)
             \/ AddFailure(r, i) \/ ReadFailureTime(r, i)
    <2>1. "inside" \notin Checking \union Recording
        BY DEF Checking, Recording
    <2>2. QED
        BY <1>1, <1>6, <2>1, OwnSteps
<1>7. QED
    BY <1>2, <1>3, <1>4, <1>5, <1>6, NextCases

\* The steps that touch what the breaker knows.
BreakerStep(r, i) ==
    \/ LoadFailures(r, i) \/ LoadFailTime(r, i) \/ AddFailure(r, i)
    \/ ReadFailureTime(r, i) \/ StoreFailureTime(r, i) \/ ResetOnSuccess(r, i)

breakerVars == <<failures, lastFail, seen, stamp>>

LEMMA BreakerData ==
    ASSUME ChainTypes, [Next]_vars
    PROVE  \/ UNCHANGED breakerVars /\ (UNCHANGED now \/ now' = now + 1)
           \/ \E r \in Runs, i \in Levels : BreakerStep(r, i) /\ UNCHANGED now
<1>1. CASE UNCHANGED vars
    BY <1>1, Zenon DEF vars, circuitVars, lockerVars, breakerVars
<1>2. CASE TimePasses
    BY <1>2 DEF TimePasses, Tick, circuitVars, breakerVars
<1>3. ASSUME NEW r \in Runs, StartRun(r) \/ CancelRun(r) \/ JobStarts(r) \/ JobEnds(r)
      PROVE  UNCHANGED breakerVars /\ UNCHANGED now
    BY <1>3, Zenon DEF StartRun, CancelRun, JobStarts, JobEnds, circuitVars, lockerVars, breakerVars
<1>4. ASSUME NEW r \in Runs, NEW i \in 1..(Body(r) - 1), WrapperStep(r, i) \/ Refuse(r, i)
      PROVE  UNCHANGED now /\ (UNCHANGED breakerVars \/ BreakerStep(r, i))
    <2>1. CASE Reserve(r, i) \/ ReleaseReturns(r, i)
        BY <2>1, Zenon DEF Reserve, ReleaseReturns, TryLock, Release, circuitVars, breakerVars
    <2>2. CASE BreakerStep(r, i)
        BY <2>2, Zenon DEF BreakerStep, LoadFailures, LoadFailTime, AddFailure, ReadFailureTime,
                           StoreFailureTime, ResetOnSuccess, lockerVars
    <2>3. CASE ~Reserve(r, i) /\ ~ReleaseReturns(r, i) /\ ~BreakerStep(r, i)
        BY <1>4, <2>3, Zenon DEF WrapperStep, BreakerStep, PassIn, JitterReturns, RecoverReturns, Acquire,
             GiveUp, Vacate, TimeoutReturns, Deadline, Abandon, Attempt, Again, RetryReturns, Decide,
             Unshared, DedupReturns, Refuse, circuitVars, lockerVars, breakerVars
    <2>4. QED
        BY <2>1, <2>2, <2>3
<1>5. \A r \in Runs : \A i \in 1..(Body(r) - 1) : i \in Levels
    BY BodyFacts
<1>6. QED
    BY <1>1, <1>2, <1>3, <1>4, <1>5, NextCases, Zenon

\* A breaker step ends a phase of its level.
LEMMA BreakerStepMoves ==
    ASSUME ChainTypes, NEW r \in Runs, NEW i \in Levels, BreakerStep(r, i)
    PROVE  Kind(r, i) = "Circuit" /\ phase'[r][i] # phase[r][i]
<1>1. \/ /\ At(r, i, {"Circuit"}, "entered") /\ Becomes(r, i, "loaded")
      \/ /\ At(r, i, {"Circuit"}, "loaded") /\ Becomes(r, i, "timed")
      \/ /\ At(r, i, {"Circuit"}, "inside") /\ Becomes(r, i, "recording")
      \/ /\ At(r, i, {"Circuit"}, "recording") /\ Becomes(r, i, "stamped")
      \/ /\ At(r, i, {"Circuit"}, "stamped") /\ Becomes(r, i, "panicked")
      \/ /\ At(r, i, {"Circuit"}, "inside") /\ Becomes(r, i, "returned")
    BY Zenon DEF BreakerStep, LoadFailures, LoadFailTime, AddFailure, ReadFailureTime, StoreFailureTime,
                 ResetOnSuccess
<1>2. ASSUME NEW p, NEW o, At(r, i, {"Circuit"}, o), Becomes(r, i, p), o # p
      PROVE  Kind(r, i) = "Circuit" /\ phase'[r][i] # phase[r][i]
    BY <1>2, BecomesPhases DEF At
<1>3. QED
    BY <1>1, <1>2

\* What a run loaded stays as long as its breaker keeps its phase.
LEMMA LoadsKept ==
    ASSUME ChainTypes, ClockInv, [Next]_vars, NEW r \in Runs, NEW i \in Levels,
           Kind(r, i) = "Circuit", phase'[r][i] = phase[r][i]
    PROVE  seen'[r] = seen[r] /\ stamp'[r] = stamp[r]
<1>1. CASE UNCHANGED breakerVars
    BY <1>1 DEF breakerVars
<1>2. ASSUME NEW q \in Runs, NEW k \in Levels, BreakerStep(q, k)
      PROVE  seen'[r] = seen[r] /\ stamp'[r] = stamp[r]
    <2>1. q # r
        BY <1>2, BreakerStepMoves, OneBreaker
    <2>2. /\ seen' = [seen EXCEPT ![q] = failures] \/ UNCHANGED seen
          /\ stamp' = [stamp EXCEPT ![q] = lastFail] \/ stamp' = [stamp EXCEPT ![q] = now]
             \/ UNCHANGED stamp
        BY <1>2, Zenon DEF BreakerStep, LoadFailures, LoadFailTime, AddFailure, ReadFailureTime,
                           StoreFailureTime, ResetOnSuccess
    <2>3. QED
        BY <2>1, <2>2 DEF ClockInv
<1>3. QED
    BY <1>1, <1>2, BreakerData

LEMMA ClockKept ==
    ASSUME ChainTypes, ClockInv, RecordersInv, [Next]_vars
    PROVE  ClockInv' /\ lastFail <= lastFail' /\ now <= now'
<1>1. CASE UNCHANGED breakerVars /\ (UNCHANGED now \/ now' = now + 1)
    BY <1>1 DEF ClockInv, breakerVars
<1>2. ASSUME NEW r \in Runs, NEW i \in Levels, BreakerStep(r, i), UNCHANGED now
      PROVE  ClockInv' /\ lastFail <= lastFail' /\ now <= now'
    <2>1. CASE LoadFailures(r, i)
        BY <1>2, <2>1 DEF LoadFailures, ClockInv
    <2>2. CASE LoadFailTime(r, i)
        BY <1>2, <2>2 DEF LoadFailTime, ClockInv
    <2>3. CASE AddFailure(r, i)
        BY <1>2, <2>3 DEF AddFailure, ClockInv
    <2>4. CASE ReadFailureTime(r, i)
        BY <1>2, <2>4 DEF ReadFailureTime, ClockInv
    <2>5. CASE StoreFailureTime(r, i)
        <3>1. phase[r][i] = "stamped" /\ lastFail' = stamp[r] /\ UNCHANGED <<failures, seen, stamp>>
            BY <2>5 DEF StoreFailureTime, At
        <3>2. lastFail <= stamp[r]
            BY <3>1 DEF RecordersInv
        <3>3. QED
            BY <1>2, <3>1, <3>2 DEF ClockInv
    <2>6. CASE ResetOnSuccess(r, i)
        BY <1>2, <2>6 DEF ResetOnSuccess, ClockInv
    <2>7. QED
        BY <1>2, <2>1, <2>2, <2>3, <2>4, <2>5, <2>6 DEF BreakerStep
<1>3. QED
    BY <1>1, <1>2, BreakerData

LEMMA RecordersKept ==
    ASSUME ChainTypes, ClockInv, RecordersInv, [Next]_vars
    PROVE  RecordersInv'
<1>1. \A r \in Runs, i \in Levels : Kind(r, i)' = Kind(r, i)
    BY StepMoves, KindsFixed
<1>2. ASSUME NEW r \in Runs, NEW i \in Levels, phase'[r][i] \in Checking \union Recording
      PROVE  Kind(r, i) = "Circuit"
    <2>1. CASE phase'[r][i] = phase[r][i]
        BY <1>2, <2>1 DEF RecordersInv
    <2>2. CASE \/ LoadFailures(r, i) \/ LoadFailTime(r, i) \/ Decide(r, i)
               \/ AddFailure(r, i) \/ ReadFailureTime(r, i)
        BY <2>2 DEF LoadFailures, LoadFailTime, Decide, AddFailure, ReadFailureTime, At
    <2>3. QED
        BY <1>2, <2>1, <2>2, PhaseSteps
<1>3. ASSUME NEW r \in Runs, NEW i \in Levels, phase'[r][i] \in Recording
      PROVE  \/ phase[r][i] \in Recording
             \/ /\ ~Locked
                /\ \A q \in Runs, k \in Levels : q # r \/ k # i => phase'[q][k] = phase[q][k]
    <2>1. CASE phase'[r][i] = phase[r][i] \/ ReadFailureTime(r, i)
        BY <1>3, <2>1 DEF ReadFailureTime, At, Recording
    <2>2. CASE LoadFailures(r, i) \/ LoadFailTime(r, i)
        <3>1. phase'[r][i] \in Checking
            BY <2>2, BecomesPhases DEF LoadFailures, LoadFailTime, Checking
        <3>2. QED
            BY <1>3, <3>1 DEF Checking, Recording
    <2>3. CASE Decide(r, i)
        <3>1. Becomes(r, i, "returned") \/ Call(r, i)
            BY <2>3, Zenon DEF Decide
        <3>2. Kind(r, i) = "Circuit"
            BY <2>3 DEF Decide, At
        <3>3. phase'[r][i] \in {"returned", "inside"}
            <4>1. CASE Becomes(r, i, "returned")
                BY <4>1, BecomesPhases
            <4>2. CASE Call(r, i)
                BY <4>2, LevelNumbers DEF Call, ChainTypes, Lines
            <4>3. QED
                BY <3>1, <4>1, <4>2
        <3>4. QED
            BY <1>3, <3>3 DEF Recording
    <2>4. CASE AddFailure(r, i)
        <3>1. Becomes(r, i, "recording") /\ ~Locked
            BY <2>4, Zenon DEF AddFailure
        <3>2. QED
            BY <3>1, BecomesPhases
    <2>5. QED
        BY <1>3, <2>1, <2>2, <2>3, <2>4, PhaseSteps
<1>4. ASSUME NEW r \in Runs, NEW i \in Levels, NEW q \in Runs, NEW k \in Levels,
             phase'[r][i] \in Recording, phase'[q][k] \in Recording
      PROVE  r = q /\ i = k
    <2>1. CASE phase[r][i] \in Recording /\ phase[q][k] \in Recording
        BY <2>1 DEF RecordersInv
    <2>2. CASE ~Locked
        <3>1. phase[r][i] \notin Recording /\ phase[q][k] \notin Recording
            BY <2>2 DEF Locked, Recording
        <3>2. r # q \/ i # k => phase'[q][k] = phase[q][k]
            BY <1>3, <1>4, <3>1
        <3>3. QED
            BY <1>4, <3>1, <3>2
    <2>3. QED
        BY <1>3, <1>4, <2>1, <2>2
<1>5. ASSUME NEW r \in Runs, NEW i \in Levels, phase'[r][i] = "stamped"
      PROVE  lastFail' <= stamp'[r]
    <2>1. Kind(r, i) = "Circuit"
        BY <1>2, <1>5 DEF Recording
    <2>2. CASE ReadFailureTime(r, i)
        BY <2>2 DEF ReadFailureTime, ClockInv
    <2>3. CASE phase'[r][i] = phase[r][i]
        <3>1. stamp'[r] = stamp[r] /\ lastFail <= stamp[r]
            BY <1>5, <2>1, <2>3, LoadsKept DEF RecordersInv
        <3>2. UNCHANGED lastFail
            <4>1. ASSUME NEW q \in Runs, NEW k \in Levels, StoreFailureTime(q, k)
                  PROVE  FALSE
                <5>1. phase[q][k] = "stamped" /\ Becomes(q, k, "panicked")
                    BY <4>1, Zenon DEF StoreFailureTime, At
                <5>2. q = r /\ k = i
                    BY <1>5, <2>3, <5>1 DEF RecordersInv, Recording
                <5>3. QED
                    BY <1>5, <5>1, <5>2, BecomesPhases
            <4>2. ASSUME NEW q \in Runs, NEW k \in Levels, BreakerStep(q, k), ~StoreFailureTime(q, k)
                  PROVE  UNCHANGED lastFail
                BY <4>2, Zenon DEF BreakerStep, LoadFailures, LoadFailTime, AddFailure, ReadFailureTime,
                                   ResetOnSuccess
            <4>3. QED
                BY <4>1, <4>2, BreakerData DEF breakerVars
        <3>3. QED
            BY <3>1, <3>2
    <2>4. CASE LoadFailures(r, i) \/ LoadFailTime(r, i) \/ AddFailure(r, i)
        <3>1. Becomes(r, i, "loaded") \/ Becomes(r, i, "timed") \/ Becomes(r, i, "recording")
            BY <2>4, Zenon DEF LoadFailures, LoadFailTime, AddFailure
        <3>2. QED
            BY <1>5, <3>1, BecomesPhases
    <2>5. CASE Decide(r, i)
        <3>1. phase[r][i] # "stamped"
            BY <2>5 DEF Decide, At
        <3>2. Becomes(r, i, "returned") \/ Call(r, i)
            BY <2>5, Zenon DEF Decide
        <3>3. CASE Becomes(r, i, "returned")
            BY <1>5, <3>3, BecomesPhases
        <3>4. CASE Call(r, i)
            BY <1>5, <3>4, LevelNumbers DEF Call, ChainTypes, Lines
        <3>5. QED
            BY <3>2, <3>3, <3>4
    <2>6. QED
        BY <1>5, <2>2, <2>3, <2>4, <2>5, PhaseSteps DEF Recording
<1>6. QED
    BY <1>1, <1>2, <1>4, <1>5 DEF RecordersInv

\* A run that is past its first load keeps the cooldown that it met.
LEMMA BarredOne ==
    ASSUME ChainTypes, ClockInv, RecordersInv, BarredInv, [Next]_vars,
           NEW r \in Runs, NEW i \in Levels, Kind(r, i) = "Circuit",
           phase'[r][i] \in Checking \union Past, barred'[r] \in {0, barred[r]}
    PROVE  Barred(r, phase[r][i])'
<1>1. /\ now \in Nat /\ now' \in Nat /\ now <= now' /\ lastFail \in Int /\ lastFail' \in Int
      /\ lastFail <= lastFail' /\ seen[r] \in Nat /\ stamp[r] \in Int /\ failures \in Nat
      /\ barred[r] \in Int /\ Threshold \in Nat /\ Cooldown \in Nat
    BY ClockKept, ChainAssumption DEF ClockInv, BarredInv
<1>2. Barred(r, phase[r][i]) /\ (failures < Threshold => barred[r] = 0)
    BY DEF BarredInv
<1>3. CASE barred'[r] = 0
    BY <1>1, <1>3 DEF Barred
<1>4. CASE phase'[r][i] = phase[r][i] /\ barred'[r] = barred[r]
    <2>1. seen'[r] = seen[r] /\ stamp'[r] = stamp[r]
        BY <1>4, LoadsKept
    <2>2. QED
        BY <1>1, <1>2, <1>4, <2>1 DEF Barred
<1>5. CASE LoadFailures(r, i) /\ barred'[r] = barred[r]
    <2>1. phase[r][i] = "entered" /\ phase'[r][i] = "loaded" /\ seen'[r] = failures /\ UNCHANGED lastFail
        BY <1>5, BecomesPhases DEF LoadFailures, At, ClockInv
    <2>2. QED
        BY <1>1, <1>2, <1>5, <2>1 DEF Barred, Past, Recording
<1>6. CASE LoadFailTime(r, i) /\ barred'[r] = barred[r]
    <2>1. /\ phase[r][i] = "loaded" /\ phase'[r][i] = "timed" /\ stamp'[r] = lastFail
          /\ UNCHANGED seen
        BY <1>6, BecomesPhases DEF LoadFailTime, At, ClockInv
    <2>2. QED
        BY <1>1, <1>2, <1>6, <2>1 DEF Barred, Past, Recording
<1>7. CASE Decide(r, i) /\ barred'[r] = barred[r]
    <2>1. phase[r][i] = "timed" /\ (IF IsOpen(r) THEN Becomes(r, i, "returned") ELSE Call(r, i))
        BY <1>7, Zenon DEF Decide, At
    <2>2. ~IsOpen(r)
        <3>1. SUFFICES ASSUME IsOpen(r) PROVE FALSE
            OBVIOUS
        <3>2. phase'[r][i] = "returned"
            BY <2>1, <3>1, BecomesPhases
        <3>3. QED
            BY <3>2 DEF Checking, Past, Recording
    <2>3. barred[r] <= now
        BY <1>1, <1>2, <2>1, <2>2 DEF IsOpen, Barred
    <2>4. phase'[r][i] = "inside"
        BY <2>1, <2>2, LevelNumbers DEF Call, ChainTypes, Lines
    <2>5. QED
        BY <1>1, <1>7, <2>3, <2>4 DEF Barred
<1>8. CASE (AddFailure(r, i) \/ ReadFailureTime(r, i)) /\ barred'[r] = barred[r]
    <2>1. phase[r][i] \in Past /\ phase'[r][i] \in Recording
        BY <1>8, BecomesPhases DEF AddFailure, ReadFailureTime, At, Past, Recording
    <2>2. QED
        BY <1>1, <1>2, <1>8, <2>1 DEF Barred, Recording
<1>9. QED
    BY <1>3, <1>4, <1>5, <1>6, <1>7, <1>8, PhaseSteps DEF Past

LEMMA BarredKept ==
    ASSUME ChainTypes, ClockInv, RecordersInv, BarredInv, [Next]_vars
    PROVE  BarredInv'
<1>1. \A r \in Runs, i \in Levels : Kind(r, i)' = Kind(r, i)
    BY StepMoves, KindsFixed
<1>2. CASE UNCHANGED vars
    <2>1. UNCHANGED <<barred, failures, lastFail, now, phase, seen, stamp>>
        BY <1>2 DEF vars, circuitVars, lockerVars
    <2>2. QED
        BY <1>1, <2>1 DEF BarredInv, Barred
<1>3. CASE Next
    <2>1. \A r \in Runs : barred'[r] = IF failures' < Threshold THEN 0
                                      ELSE IF AtBreaker(r)' THEN lastFail' + Cooldown ELSE barred[r]
        BY <1>3 DEF Next, Watch
    <2>2. /\ lastFail' \in Int /\ now' \in Nat /\ Cooldown \in Nat
          /\ \A r \in Runs : barred[r] \in Int
        BY ClockKept, ChainAssumption DEF ClockInv, BarredInv
    <2>3. barred' \in [Runs -> Int]
        <3>1. DOMAIN barred' = Runs /\ barred' = [r \in Runs |-> barred'[r]]
            BY <1>3 DEF Next, Watch
        <3>2. \A r \in Runs : barred'[r] \in Int
            BY <2>1, <2>2
        <3>3. QED
            BY <3>1, <3>2
    <2>4. ASSUME NEW r \in Runs, NEW i \in Levels, Kind(r, i) = "Circuit"
          PROVE  Barred(r, phase[r][i])'
        <3>1. CASE phase'[r][i] = "entered"
            <4>1. AtBreaker(r)'
                BY <1>1, <2>4, <3>1 DEF AtBreaker, At
            <4>2. barred'[r] = 0 \/ barred'[r] = lastFail' + Cooldown
                BY <2>1, <4>1
            <4>3. QED
                BY <2>2, <3>1, <4>2 DEF Barred, Past, Recording
        <3>2. CASE phase'[r][i] \in Checking \union Past
            <4>1. ~AtBreaker(r)'
                <5>1. SUFFICES ASSUME NEW k \in Levels, phase'[r][k] = "entered", Kind(r, k) = "Circuit"
                               PROVE  FALSE
                    BY <1>1 DEF AtBreaker, At
                <5>2. k = i
                    BY <2>4, <5>1, OneBreaker
                <5>3. QED
                    BY <3>2, <5>1, <5>2 DEF Checking, Past, Recording
            <4>2. barred'[r] \in {0, barred[r]}
                BY <2>1, <4>1
            <4>3. QED
                BY <2>4, <3>2, <4>2, BarredOne
        <3>3. CASE phase'[r][i] \notin {"entered"} \union Checking \union Past
            BY <3>3 DEF Barred, Checking
        <3>4. QED
            BY <3>1, <3>2, <3>3
    <2>5. QED
        BY <1>1, <2>1, <2>3, <2>4 DEF BarredInv
<1>4. QED
    BY <1>2, <1>3

BreakerInv == ClockInv /\ RecordersInv /\ BarredInv

LEMMA BreakerInitially == Init => BreakerInv
<1>1. SUFFICES ASSUME Init PROVE BreakerInv
    OBVIOUS
<1>2. \A r \in Runs, i \in Levels : phase[r][i] = "idle"
    BY <1>1 DEF Init
<1>3. ClockInv
    BY <1>1, ChainAssumption DEF Init, LInit, ClockInv
<1>4. RecordersInv
    BY <1>2 DEF RecordersInv, Checking, Recording
<1>5. BarredInv
    BY <1>1, <1>2 DEF Init, BarredInv, Barred, Past, Recording
<1>6. QED
    BY <1>3, <1>4, <1>5 DEF BreakerInv

\* A run that meets an open breaker stays out until the cooldown that it met is
\* over or the breaker closes, for any number of runs, however they record
\* their failures between its loads and its reading of the clock.
THEOREM OpenCircuitAlwaysBars == Spec => []OpenCircuitBars
<1>1. Init => ChainTypes /\ LinesInv /\ BreakerInv
    BY LinesInitially, BreakerInitially
<1>2. (ChainTypes /\ LinesInv /\ BreakerInv) /\ [Next]_vars
          => (ChainTypes /\ LinesInv /\ BreakerInv)'
    BY LinesKept, ClockKept, RecordersKept, BarredKept DEF BreakerInv
<1>3. ChainTypes /\ LinesInv /\ BreakerInv => OpenCircuitBars
    BY DEF BreakerInv, BarredInv, Barred, Past, Recording, OpenCircuitBars
<1>4. QED
    BY <1>1, <1>2, <1>3, PTL DEF Spec

-----------------------------------------------------------------------------
(* Reservations *)

\* The steps that concern the locker, in the terms of its own specification.
LEMMA LockerSteps ==
    ASSUME ChainTypes, [Next]_vars
    PROVE  \/ UNCHANGED lockerVars \/ Tick
           \/ \E r \in Runs, i \in Levels :
                 \/ /\ <<r, i>> \in Callers /\ KeyOf(r, i) \in Keys /\ Wrapper(r, i).n \in Ttls
                    /\ TryLock(<<r, i>>, KeyOf(r, i), Wrapper(r, i).n)
                 \/ /\ <<r, i>> \in Callers /\ Kind(r, i) = "Exclusive" /\ Release(<<r, i>>)
<1>1. CASE UNCHANGED vars
    BY <1>1, Zenon DEF vars
<1>2. CASE TimePasses
    BY <1>2, Zenon DEF TimePasses
<1>3. ASSUME NEW r \in Runs, StartRun(r) \/ CancelRun(r) \/ JobStarts(r) \/ JobEnds(r)
      PROVE  UNCHANGED lockerVars
    BY <1>3, Zenon DEF StartRun, CancelRun, JobStarts, JobEnds
<1>4. ASSUME NEW r \in Runs, NEW i \in 1..(Body(r) - 1), WrapperStep(r, i) \/ Refuse(r, i)
      PROVE  \/ UNCHANGED lockerVars
             \/ /\ <<r, i>> \in Callers /\ KeyOf(r, i) \in Keys /\ Wrapper(r, i).n \in Ttls
                /\ TryLock(<<r, i>>, KeyOf(r, i), Wrapper(r, i).n)
             \/ /\ <<r, i>> \in Callers /\ Kind(r, i) = "Exclusive" /\ Release(<<r, i>>)
    <2>1. /\ JobOf[r] \in Jobs /\ i \in Levels /\ i \in DOMAIN chains[JobOf[r]]
          /\ Kind(r, i) = Wrapper(r, i).kind
        BY BodyFacts
    <2>2. <<r, i>> \in Callers
        BY <2>1, ChainAssumption
    <2>3. CASE Reserve(r, i)
        <3>1. /\ Kind(r, i) \in {"Exclusive", "Dedup"} /\ Needs(r, i)
              /\ TryLock(<<r, i>>, KeyOf(r, i), Wrapper(r, i).n)
            BY <2>3, Zenon DEF Reserve, At
        <3>2. chains \in Configs
            BY DEF ChainTypes
        <3>3. Wrapper(r, i).n \in Ttls
            BY <2>1, <3>1, <3>2, ChainAssumption DEF Wrapper
        <3>4. CASE Kind(r, i) = "Exclusive"
            BY <2>1, <2>2, <3>1, <3>2, <3>3, <3>4, ChainAssumption DEF Wrapper, KeyOf
        <3>5. CASE Kind(r, i) = "Dedup"
            <4>1. ScheduledTime[r] # Manual
                BY <3>1, <3>5 DEF Needs
            <4>2. <<Wrapper(r, i).shared, ScheduledTime[r]>> \in Keys
                BY <2>1, <3>2, <3>5, <4>1, ChainAssumption DEF Wrapper
            <4>3. QED
                BY <2>2, <3>1, <3>3, <3>5, <4>2 DEF KeyOf
        <3>6. QED
            BY <3>1, <3>4, <3>5
    <2>4. CASE ReleaseReturns(r, i)
        BY <2>2, <2>4 DEF ReleaseReturns, At
    <2>5. CASE ~Reserve(r, i) /\ ~ReleaseReturns(r, i)
        BY <1>4, <2>5, Zenon DEF WrapperStep, PassIn, JitterReturns, RecoverReturns, Acquire, GiveUp,
             Vacate, TimeoutReturns, Deadline, Abandon, Attempt, Again, RetryReturns, LoadFailures,
             LoadFailTime, Decide, AddFailure, ReadFailureTime, StoreFailureTime, ResetOnSuccess,
             Unshared, DedupReturns, Refuse
    <2>6. QED
        BY <2>3, <2>4, <2>5
<1>5. QED
    <2>1. ASSUME NEW r \in Runs, NEW i \in 1..(Body(r) - 1)
          PROVE  i \in Levels
        BY BodyFacts
    <2>2. QED
        BY <1>1, <1>2, <1>3, <1>4, <2>1, NextCases, Zenon

LEMMA LockerKept ==
    ASSUME ChainTypes, LockerInv, [Next]_vars
    PROVE  LockerInv'
<1>1. [LNext]_lockerVars
    BY LockerSteps, Zenon DEF LNext
<1>2. QED
    BY <1>1, LockerInductive

\* SkipDuplicateRuns keeps its reservations.
DedupKeeps ==
    \A r \in Runs, i \in Levels :
        Kind(r, i) = "Dedup" /\ reserved[<<r, i>>].token # 0 => ~reserved[<<r, i>>].released

LEMMA DedupKept ==
    ASSUME ChainTypes, LockerInv, DedupKeeps, OncePerScheduledTime, [Next]_vars
    PROVE  DedupKeeps' /\ OncePerScheduledTime'
<1>1. UNCHANGED chains
    BY StepMoves
<1>2. \A r : \A i : Kind(r, i)' = Kind(r, i) /\ Wrapper(r, i)' = Wrapper(r, i)
    BY <1>1, KindsFixed
<1>3. /\ now \in Nat /\ seq \in Nat
      /\ reserved \in [Callers -> {Nothing} \union [token : 1..seq, key : Keys, until : Nat,
                                                   released : BOOLEAN]]
    BY DEF LockerInv, TokensUnique
<1>4. \A r \in Runs, i \in Levels : <<r, i>> \in Callers
    BY ChainAssumption
<1>5. CASE UNCHANGED reserved
    BY <1>2, <1>5 DEF DedupKeeps, OncePerScheduledTime
<1>6. ASSUME NEW q \in Runs, NEW k \in Levels, Kind(q, k) = "Exclusive", Release(<<q, k>>)
      PROVE  DedupKeeps' /\ OncePerScheduledTime'
    <2>1. \A r \in Runs, i \in Levels : Kind(r, i) = "Dedup" => reserved'[<<r, i>>] = reserved[<<r, i>>]
        <3>1. reserved' = [reserved EXCEPT ![<<q, k>>].released = TRUE]
            BY <1>6 DEF Release
        <3>2. \A r \in Runs, i \in Levels : Kind(r, i) = "Dedup" => <<r, i>> # <<q, k>>
            BY <1>6
        <3>3. QED
            BY <1>3, <1>4, <3>1, <3>2
    <2>2. QED
        BY <1>2, <2>1 DEF DedupKeeps, OncePerScheduledTime
<1>7. ASSUME NEW q \in Runs, NEW k \in Levels, KeyOf(q, k) \in Keys, Wrapper(q, k).n \in Ttls,
             TryLock(<<q, k>>, KeyOf(q, k), Wrapper(q, k).n)
      PROVE  DedupKeeps' /\ OncePerScheduledTime'
    <2> DEFINE n == Wrapper(q, k).n
               claim == [token |-> seq + 1, key |-> KeyOf(q, k), until |-> now + n, released |-> FALSE]
    <2>1. reserved' = [reserved EXCEPT ![<<q, k>>] = claim] /\ ~InForce(KeyOf(q, k)) /\ n \in Nat
        BY <1>7, LockerAssumption DEF TryLock
    <2>2. \A r \in Runs, i \in Levels :
              reserved'[<<r, i>>] = IF r = q /\ i = k THEN claim ELSE reserved[<<r, i>>]
        <3>1. \A r \in Runs, i \in Levels : <<r, i>> = <<q, k>> <=> r = q /\ i = k
            OBVIOUS
        <3>2. QED
            BY <1>3, <1>4, <2>1, <3>1, Zenon
    <2>3. DedupKeeps'
        BY <1>2, <2>2 DEF DedupKeeps
    <2>4. ASSUME NEW r \in Runs, NEW i \in Levels
          PROVE  /\ reserved[<<r, i>>].token \in Nat /\ reserved[<<r, i>>].token <= seq
                 /\ reserved[<<r, i>>].token # 0 => reserved[<<r, i>>].until \in Nat
        BY <1>3, <1>4 DEF Nothing
    <2>5. ASSUME NEW r \in Runs, NEW i \in Levels, Kind(r, i) = "Dedup",
                 reserved[<<r, i>>].token # 0, reserved[<<r, i>>].key = KeyOf(q, k)
          PROVE  now >= reserved[<<r, i>>].until
        <3>1. ~(now < reserved[<<r, i>>].until)
            BY <1>4, <2>1, <2>5, StandingInForce DEF LockerInv, DedupKeeps
        <3>2. QED
            BY <1>3, <2>4, <2>5, <3>1
    <2>6. ASSUME NEW r \in Runs, NEW i \in Levels, NEW p \in Runs, NEW l \in Levels,
                 reserved'[<<r, i>>].token # 0, reserved'[<<p, l>>].token # 0,
                 Kind(r, i) = "Dedup", Kind(p, l) = "Dedup",
                 reserved'[<<r, i>>].token < reserved'[<<p, l>>].token,
                 reserved'[<<r, i>>].key = reserved'[<<p, l>>].key
          PROVE  reserved'[<<p, l>>].until - Wrapper(p, l).n >= reserved'[<<r, i>>].until
        <3>1. ~(r = q /\ i = k)
            <4>1. SUFFICES ASSUME r = q, i = k PROVE FALSE
                OBVIOUS
            <4>2. reserved'[<<r, i>>].token = seq + 1
                BY <2>2, <4>1
            <4>3. reserved'[<<p, l>>].token <= seq + 1 /\ reserved'[<<p, l>>].token \in Nat
                BY <1>3, <2>2, <2>4
            <4>4. QED
                BY <1>3, <2>6, <4>2, <4>3
        <3>2. reserved'[<<r, i>>] = reserved[<<r, i>>]
            BY <2>2, <3>1
        <3>3. CASE p = q /\ l = k
            <4>1. reserved'[<<p, l>>] = claim
                BY <2>2, <3>3
            <4>2. reserved[<<r, i>>].key = KeyOf(q, k) /\ reserved[<<r, i>>].token # 0
                BY <2>6, <3>2, <4>1
            <4>3. now >= reserved[<<r, i>>].until
                BY <2>5, <2>6, <4>2
            <4>4. reserved'[<<p, l>>].until = now + n /\ Wrapper(p, l).n = n
                BY <3>3, <4>1
            <4>5. (now + n) - n = now
                BY <1>3, <2>1
            <4>6. QED
                BY <3>2, <4>3, <4>4, <4>5
        <3>4. CASE ~(p = q /\ l = k)
            <4>1. reserved'[<<p, l>>] = reserved[<<p, l>>]
                BY <2>2, <3>4
            <4>2. QED
                BY <2>6, <3>2, <4>1 DEF OncePerScheduledTime
        <3>5. QED
            BY <3>3, <3>4
    <2>7. OncePerScheduledTime'
        BY <1>2, <2>6 DEF OncePerScheduledTime
    <2>8. QED
        BY <2>3, <2>7
<1>8. QED
    <2>1. UNCHANGED lockerVars \/ Tick => UNCHANGED reserved
        BY DEF lockerVars, Tick
    <2>2. QED
        BY <1>5, <1>6, <1>7, <2>1, LockerSteps

\* What the runs of any chains do to the locker are operations of the locker,
\* so that the reservations in force are safe from all of them.
THEOREM ChainReservationsStand == Spec => []ReservationsStand
<1>1. Init => ChainTypes /\ LinesInv /\ LockerInv
    BY LinesInitially, LockerInitially DEF Init
<1>2. (ChainTypes /\ LinesInv /\ LockerInv) /\ [Next]_vars
          => (ChainTypes /\ LinesInv /\ LockerInv)'
    BY LinesKept, LockerKept
<1>3. LockerInv => ReservationsStand
    BY DEF LockerInv
<1>4. QED
    BY <1>1, <1>2, <1>3, PTL DEF Spec

\* Under SkipDuplicateRuns a scheduled time starts once in any stretch as long
\* as the reservation, for any number of jobs, runs and instances.
THEOREM AlwaysOncePerScheduledTime == Spec => []OncePerScheduledTime
<1> DEFINE Inv == ChainTypes /\ LinesInv /\ LockerInv /\ DedupKeeps /\ OncePerScheduledTime
<1>1. Init => Inv
    <2>1. Init => \A r \in Runs, i \in Levels : reserved[<<r, i>>].token = 0
        BY ChainAssumption DEF Init, LInit, Nothing
    <2>2. QED
        BY <2>1, LinesInitially, LockerInitially DEF Init, DedupKeeps, OncePerScheduledTime
<1>2. Inv /\ [Next]_vars => Inv'
    BY LinesKept, LockerKept, DedupKept
<1>3. Inv => OncePerScheduledTime
    OBVIOUS
<1>4. QED
    BY <1>1, <1>2, <1>3, PTL DEF Spec
=============================================================================
