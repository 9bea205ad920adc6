--------------------------- MODULE SchedulerProofs ---------------------------
(***************************************************************************)
(* Proofs about the scheduler, for every value of its constants: the       *)
(* types, the agreement of heap, ID index and name index, the exactness of *)
(* the counter behind WithMaxEntries; and about the runs the scheduler     *)
(* launches: which activations they are, that none runs twice, and what    *)
(* holds of the entry a run belongs to.                                    *)
(***************************************************************************)
EXTENDS SchedulerHistory, FiniteSetTheorems, WellFoundedInduction, TLAPS

-----------------------------------------------------------------------------
(* Minima and maxima of sets of times *)

\* A non-empty set of naturals has a least element.
LEMMA MinIsMember ==
    ASSUME NEW S, S \subseteq Nat, S # {}
    PROVE  Min(S) \in S /\ \A y \in S : Min(S) <= y
<1> DEFINE R == OpToRel(<, Nat)
<1>1. IsWellFoundedOn(R, Nat)
    BY NatLessThanWellFounded
<1>2. \A x, y \in Nat : y < x => <<y, x>> \in R
    BY Zenon DEF OpToRel
<1> HIDE DEF R
<1>3. PICK x \in S : \A y \in S : ~(<<y, x>> \in R)
    BY <1>1, WFMin
<1>4. ASSUME NEW y \in S PROVE x <= y
    <2>1. x \in Nat /\ y \in Nat
        OBVIOUS
    <2>2. ~(y < x)
        BY <1>2, <1>3, <2>1
    <2>3. QED
        BY <2>1, <2>2
<1>5. QED
    BY <1>4 DEF Min

LEMMA TimesAreNaturals == Horizon \in Nat /\ Times \subseteq Nat
<1>1. Horizon \in Nat
    BY ConstantsAssumption
<1>2. QED
    BY <1>1 DEF Times

\* A non-empty set of times has a greatest element.
LEMMA MaxIsMember ==
    ASSUME NEW S, S \subseteq Times, S # {}
    PROVE  Max(S) \in S /\ \A y \in S : Max(S) >= y
<1> DEFINE Mirror == {Horizon - y : y \in S}
<1>1. Horizon \in Nat
    BY TimesAreNaturals
<1>2. Mirror \subseteq Nat /\ Mirror # {}
    <2>1. \A y \in S : y \in Int /\ Horizon - y \in Nat
        BY <1>1 DEF Times
    <2>2. QED
        BY <2>1
<1>3. Min(Mirror) \in Mirror /\ \A y \in Mirror : Min(Mirror) <= y
    BY <1>2, MinIsMember
<1>4. PICK x \in S : Min(Mirror) = Horizon - x
    BY <1>3
<1>5. ASSUME NEW y \in S PROVE x >= y
    <2>1. Horizon - y \in Mirror
        OBVIOUS
    <2>2. Horizon - x <= Horizon - y
        BY <2>1, <1>3, <1>4
    <2>3. x \in Int /\ y \in Int
        BY DEF Times
    <2>4. QED
        BY <1>1, <2>2, <2>3
<1>6. QED
    BY <1>5 DEF Max

\* Schedule.Next returns an activation strictly after its argument, or none.
LEMMA NextOfIsLater ==
    ASSUME NEW s \in SUBSET Times, NEW t \in Int
    PROVE  /\ NextOf(s, t) \in Times \union {Zero}
           /\ NextOf(s, t) # Zero => NextOf(s, t) \in s /\ NextOf(s, t) > t
<1> DEFINE later == {u \in s : u > t}
<1>1. CASE later = {}
    BY <1>1 DEF NextOf, Zero
<1>2. CASE later # {}
    <2>1. later \subseteq Nat
        BY TimesAreNaturals
    <2>2. Min(later) \in later
        BY <1>2, <2>1, MinIsMember
    <2>3. QED
        BY <1>2, <2>2 DEF NextOf, Zero
<1>3. QED
    BY <1>1, <1>2

-----------------------------------------------------------------------------
(* What the helpers do to one entry *)

LEMMA RescheduleType ==
    ASSUME NEW e \in Entry, NEW now \in Times
    PROVE  Reschedule(e, now) \in Entry
<1>1. NextOf(e.sched, now) \in Times \union {Zero}
    BY NextOfIsLater DEF Entry, Times
<1>2. QED
    BY <1>1 DEF Reschedule, Entry

LEMMA MissedRunsAreTimes ==
    ASSUME NEW e \in Entry, NEW now \in Times
    PROVE  MissedRuns(e, now) \subseteq Times
BY DEF MissedRuns, Entry

LEMMA CatchUpsAreTimes ==
    ASSUME NEW e \in Entry, NEW now \in Times
    PROVE  CatchUps(e, now) \subseteq Times
BY MissedRunsAreTimes, MaxIsMember DEF CatchUps

LEMMA ScheduleEntryNextType ==
    ASSUME NEW e \in Entry, NEW now \in Times
    PROVE  ScheduleEntryNext(e, now) \in Entry
BY RescheduleType DEF ScheduleEntryNext, Entry

LEMMA TakeOverType ==
    ASSUME NEW e \in Entry, NEW now \in Times
    PROVE  /\ TakeOver(e, now) \in Entry
           /\ TakeOver(e, now).name = e.name
<1> DEFINE caught == AfterCatchUp(e, now)
<1>1. caught \in Entry /\ caught.name = e.name
    BY MissedRunsAreTimes, MaxIsMember DEF AfterCatchUp, Entry
<1>2. ScheduleEntryNext(caught, now) \in Entry
    BY <1>1, ScheduleEntryNextType
<1>3. ScheduleEntryNext(caught, now).name = e.name
    BY <1>1 DEF ScheduleEntryNext, Reschedule, Entry
<1>4. QED
    BY <1>2, <1>3 DEF TakeOver

LEMMA NewEntryType ==
    ASSUME NEW spec \in JobSpecs, TypeOK
    PROVE  NewEntry(spec) \in Entry /\ NewEntry(spec).name = spec.name
BY ConstantsAssumption DEF NewEntry, JobSpec, Entry, TypeOK, Zero

-----------------------------------------------------------------------------
(* Type correctness *)

LEMMA ArmType ==
    ASSUME TypeOK, NEW now \in Times, Arm(now), heap' \subseteq Ids, entry' \in [Ids -> Entry]
    PROVE  timer' \in [left : Nat \union {Idle}, fired : Times \union {Zero}]
<1> DEFINE deadlines == {entry'[i].next : i \in heap'} \ {Zero}
<1>1. deadlines \subseteq Times
    BY DEF Entry
<1>2. deadlines # {} => Min(deadlines) \in Times
    BY <1>1, TimesAreNaturals, MinIsMember
<1> HIDE DEF deadlines
<1>3. deadlines # {} => Min(deadlines) - now \in Int
    <2>1. now \in Nat
        BY TimesAreNaturals
    <2>2. deadlines # {} => Min(deadlines) \in Nat
        BY <1>2, TimesAreNaturals
    <2>3. QED
        BY <2>1, <2>2
<1>4. QED
    BY <1>3 DEF Arm, deadlines, Idle, Zero

LEMMA RemoveEntriesType ==
    ASSUME TypeOK, NEW ids \in SUBSET Ids, RemoveEntries(ids)
    PROVE  /\ heap' \subseteq Ids
           /\ entryIndex' \subseteq Ids
           /\ nameIndex' \in [Names -> Ids \union {Zero}]
           /\ entryCount' \in Int
           /\ nextID' \in 0..MaxEntryID
<1>1. IsFiniteSet(Found(ids))
    <2>1. IsFiniteSet(Ids)
        BY ConstantsAssumption, FS_Interval DEF Ids
    <2>2. QED
        BY <2>1, FS_Subset DEF Found
<1>2. Cardinality(Found(ids)) \in Nat
    BY <1>1, FS_CardinalityType
<1>3. QED
    BY <1>2 DEF RemoveEntries, TypeOK

LEMMA CatchUpRunsType ==
    ASSUME NEW e \in Entry, NEW now \in Times, NEW i \in Ids
    PROVE  CatchUpRuns(i, e, now) \subseteq [id : Ids, kind : Kinds, at : Times]
BY CatchUpsAreTimes DEF CatchUpRuns, Kinds

LEMMA AfterTimeBackwardsType ==
    ASSUME NEW e \in Entry, NEW now \in Times
    PROVE  AfterTimeBackwards(e, now) \in Entry
BY RescheduleType DEF AfterTimeBackwards

LEMMA AfterDueType ==
    ASSUME NEW e \in Entry, NEW now \in Times, IsDue(e, now)
    PROVE  AfterDue(e, now) \in Entry
<1>1. [e EXCEPT !.prev = e.next] \in Entry
    BY DEF Entry
<1>2. [e EXCEPT !.immediateDue = FALSE, !.prev = e.next] \in Entry
    BY DEF Entry
<1>3. e.paused \in BOOLEAN /\ e.runOnce \in BOOLEAN
    BY DEF Entry
<1>4. QED
    BY <1>1, <1>2, <1>3, RescheduleType DEF AfterDue

\* Each action preserves the types.
LEMMA TypeStep ==
    ASSUME TypeOK, [Next]_vars
    PROVE  TypeOK'
<1>1. ASSUME NEW spec \in JobSpecs, AddEntry(spec)
      PROVE  TypeOK'
    <2> DEFINE id == nextID + 1
               e  == NewEntry(spec)
    <2>1. id \in Ids /\ id \in 0..MaxEntryID
        BY <1>1, ConstantsAssumption DEF AddEntry, TypeOK, Ids
    <2>2. e \in Entry
        BY NewEntryType
    <2>3. clock \in Times
        BY DEF TypeOK
    <2>4. (IF running THEN TakeOver(e, clock) ELSE e) \in Entry
        BY <2>2, <2>3, TakeOverType
    <2>5. entry' \in [Ids -> Entry]
        BY <1>1, <2>4 DEF AddEntry, TypeOK
    <2>6. started' \subseteq [id : Ids, kind : Kinds, at : Times]
        BY <1>1, <2>1, <2>2, <2>3, CatchUpRunsType DEF AddEntry
    <2>7. /\ heap' \subseteq Ids /\ entryIndex' \subseteq Ids
          /\ nameIndex' \in [Names -> Ids \union {Zero}]
          /\ nextID' \in 0..MaxEntryID
          /\ entryCount' \in Int
        BY <1>1, <2>1 DEF AddEntry, TypeOK, IncrementedCount
    <2>8. timer' \in [left : Nat \union {Idle}, fired : Times \union {Zero}]
        BY <1>1, <2>3, <2>5, <2>7, ArmType DEF AddEntry, ReArm, TypeOK
    <2>9. QED
        BY <1>1, <2>5, <2>6, <2>7, <2>8 DEF AddEntry, TypeOK
<1>2. ASSUME NEW spec \in JobSpecs, AddDuplicateName(spec)
      PROVE  TypeOK'
    BY <1>2 DEF AddDuplicateName, TypeOK, IncrementedCount, KeepTimer
<1>3. ASSUME NEW id \in Ids, Remove(id)
      PROVE  TypeOK'
    <2>1. entry' \in [Ids -> Entry]
        <3>1. [entry[id] EXCEPT !.ctxLive = @ /\ id \notin entryIndex] \in Entry
            BY ZenonT(60) DEF TypeOK, Entry
        <3>2. QED
            BY <1>3, <3>1 DEF Remove, TypeOK
    <2>2. {id} \in SUBSET Ids
        OBVIOUS
    <2>3. /\ heap' \subseteq Ids /\ entryIndex' \subseteq Ids
          /\ nameIndex' \in [Names -> Ids \union {Zero}]
          /\ nextID' \in 0..MaxEntryID
          /\ entryCount' \in Int
        BY <1>3, <2>2, RemoveEntriesType DEF Remove
    <2>4. timer' \in [left : Nat \union {Idle}, fired : Times \union {Zero}]
        BY <1>3, <2>1, <2>3, ArmType DEF Remove, ReArm, TypeOK
    <2>5. QED
        BY <1>3, <2>1, <2>3, <2>4 DEF Remove, TypeOK
<1>4. ASSUME NEW id \in Ids, NEW sched \in Schedules, NEW newJob \in BOOLEAN,
             Update(id, sched, newJob)
      PROVE  TypeOK'
    <2> DEFINE e == [entry[id] EXCEPT !.sched = sched,
                                      !.ctxLive = IF newJob THEN ~baseCancelled ELSE @]
    <2>1. e \in Entry
        <3>1. sched \in SUBSET Times
            BY ConstantsAssumption, Zenon
        <3>2. entry[id] \in Entry /\ entry[id].ctxLive \in BOOLEAN
            BY DEF TypeOK, Entry
        <3>3. (IF newJob THEN ~baseCancelled ELSE entry[id].ctxLive) \in BOOLEAN
            BY <3>2, Zenon
        <3>4. QED
            BY <3>1, <3>2, <3>3 DEF Entry
    <2>2. ScheduleEntryNext(e, clock) \in Entry
        BY <2>1, ScheduleEntryNextType DEF TypeOK
    <2>3. entry' \in [Ids -> Entry]
        BY <1>4, <2>1, <2>2 DEF Update, TypeOK
    <2>4. timer' \in [left : Nat \union {Idle}, fired : Times \union {Zero}]
        BY <1>4, <2>3, ArmType DEF Update, ReArm, TypeOK
    <2>5. QED
        BY <1>4, <2>3, <2>4 DEF Update, TypeOK
<1>5. ASSUME NEW id \in Ids, NEW pause \in BOOLEAN, SetPaused(id, pause)
      PROVE  TypeOK'
    <2>1. [entry[id] EXCEPT !.paused = pause] \in Entry
        BY DEF TypeOK, Entry
    <2>2. entry' \in [Ids -> Entry]
        BY <1>5, <2>1 DEF SetPaused, TypeOK
    <2>3. QED
        BY <1>5, <2>2 DEF SetPaused, TypeOK, KeepTimer
<1>6. ASSUME NEW id \in Ids, Trigger(id)
      PROVE  TypeOK'
    <2>1. [entry[id] EXCEPT !.prev = clock] \in Entry
        BY DEF TypeOK, Entry
    <2>2. entry' \in [Ids -> Entry]
        BY <1>6, <2>1 DEF Trigger, TypeOK
    <2>3. started' \subseteq [id : Ids, kind : Kinds, at : Times]
        BY <1>6 DEF Trigger, TypeOK, Kinds
    <2>4. (IF entry[id].runOnce THEN {id} ELSE {}) \in SUBSET Ids
        OBVIOUS
    <2>5. /\ heap' \subseteq Ids /\ entryIndex' \subseteq Ids
          /\ nameIndex' \in [Names -> Ids \union {Zero}]
          /\ nextID' \in 0..MaxEntryID
          /\ entryCount' \in Int
        BY <1>6, <2>4, RemoveEntriesType DEF Trigger
    <2>6. QED
        BY <1>6, <2>2, <2>3, <2>5 DEF Trigger, TypeOK, KeepTimer
<1>7. CASE Start
    BY <1>7 DEF Start, TypeOK, table
<1>8. CASE RunInit
    <2>1. clock \in Times /\ heap \subseteq Ids /\ entry \in [Ids -> Entry]
        BY DEF TypeOK
    <2>2. entry' \in [Ids -> Entry]
        BY <1>8, <2>1, TakeOverType DEF RunInit
    <2>3. \A i \in heap : CatchUpRuns(i, entry[i], clock) \subseteq [id : Ids, kind : Kinds, at : Times]
        BY <2>1, CatchUpRunsType
    <2>4. started' \subseteq [id : Ids, kind : Kinds, at : Times]
        BY <1>8, <2>3 DEF RunInit
    <2>5. timer' \in [left : Nat \union {Idle}, fired : Times \union {Zero}]
        BY <1>8, <2>1, <2>2, ArmType DEF RunInit
    <2>6. QED
        BY <1>8, <2>2, <2>4, <2>5 DEF RunInit, TypeOK
<1>9. CASE Stop
    <2>1. \A i \in Ids : [entry[i] EXCEPT !.ctxLive = FALSE] \in Entry
        BY ZenonT(60) DEF TypeOK, Entry
    <2>2. entry' \in [Ids -> Entry]
        BY <1>9, <2>1 DEF Stop
    <2>3. QED
        BY <1>9, <2>2 DEF Stop, TypeOK, Zero
<1>10. CASE TimerFire
    BY <1>10 DEF TimerFire, TypeOK, table
<1>11. CASE Tick
    <2>1. clock' \in Times
        BY <1>11, TimesAreNaturals DEF Tick, TypeOK, Times
    <2>2. timer' \in [left : Nat \union {Idle}, fired : Times \union {Zero}]
        BY <1>11 DEF Tick, TypeOK, Idle
    <2>3. QED
        BY <1>11, <2>1, <2>2 DEF Tick, TypeOK, table
<1>12. CASE ClockBack
    <2>1. jumps' \in 0..MaxJumps
        BY <1>12, ConstantsAssumption DEF ClockBack, TypeOK
    <2>2. QED
        BY <1>12, <2>1 DEF ClockBack, TypeOK, table
<1>13. CASE Wake
    <2> DEFINE now  == timer.fired
               cur  == [i \in Ids |-> IF i \in heap THEN AfterTimeBackwards(entry[i], now)
                                                    ELSE entry[i]]
               due  == {i \in heap : IsDue(cur[i], now)}
               runs == {i \in due : Runnable(cur[i])}
    <2>1. now \in Times
        BY <1>13 DEF Wake, TypeOK
    <2>2. cur \in [Ids -> Entry]
        BY <2>1, AfterTimeBackwardsType DEF TypeOK
    <2>3. heap \subseteq Ids /\ due \subseteq Ids /\ runs \subseteq Ids
        BY DEF TypeOK
    <2>4. entry' = [i \in Ids |-> IF i \in due THEN AfterDue(cur[i], now) ELSE cur[i]]
        BY <1>13 DEF Wake
    <2>5. started' = {DueRun(i, cur[i]) : i \in runs}
        BY <1>13 DEF Wake
    <2>6. RemoveEntries({i \in runs : cur[i].runOnce}) /\ Arm(now)
        BY <1>13 DEF Wake
    <2>7. \A i \in due : IsDue(cur[i], now)
        OBVIOUS
    <2> HIDE DEF now, cur, due, runs
    <2>8. entry' \in [Ids -> Entry]
        BY <2>1, <2>2, <2>3, <2>4, <2>7, AfterDueType
    <2>9. \A i \in runs : DueRun(i, cur[i]) \in [id : Ids, kind : Kinds, at : Times]
        <3>1. ASSUME NEW i \in runs PROVE cur[i].next \in Times
            BY <2>2, <2>3, <2>7 DEF runs, IsDue, Entry
        <3>2. QED
            BY <2>3, <3>1 DEF DueRun, Kinds
    <2>10. started' \subseteq [id : Ids, kind : Kinds, at : Times]
        BY <2>5, <2>9
    <2>11. {i \in runs : cur[i].runOnce} \in SUBSET Ids
        BY <2>3
    <2>12. /\ heap' \subseteq Ids /\ entryIndex' \subseteq Ids
           /\ nameIndex' \in [Names -> Ids \union {Zero}]
           /\ nextID' \in 0..MaxEntryID
           /\ entryCount' \in Int
        BY <2>6, <2>11, RemoveEntriesType
    <2>13. timer' \in [left : Nat \union {Idle}, fired : Times \union {Zero}]
        BY <2>1, <2>6, <2>8, <2>12, ArmType
    <2>14. UNCHANGED <<running, loop, clock, jumps, baseCancelled>>
        BY <1>13 DEF Wake
    <2>15. QED
        BY <2>8, <2>10, <2>12, <2>13, <2>14 DEF TypeOK
<1>14. CASE UNCHANGED vars
    BY <1>14 DEF vars, table, TypeOK
<1>15. QED
    BY <1>1, <1>2, <1>3, <1>4, <1>5, <1>6, <1>7, <1>8, <1>9, <1>10, <1>11, <1>12, <1>13,
       <1>14 DEF Next, Request

LEMMA InitTypes == Init => TypeOK
<1>1. NoEntry \in Entry
    BY DEF NoEntry, Entry, Policies, Zero
<1>2. 1 \in Times /\ 0 \in 0..MaxJumps /\ 0 \in 0..MaxEntryID
    BY ConstantsAssumption DEF Times
<1>3. Init => /\ entry \in [Ids -> Entry]
              /\ nameIndex \in [Names -> Ids \union {Zero}]
              /\ timer \in [left : Nat \union {Idle}, fired : Times \union {Zero}]
    BY <1>1 DEF Init, Zero
<1>4. Init => running \in BOOLEAN /\ baseCancelled \in BOOLEAN
    BY DEF Init
<1>5. QED
    BY <1>2, <1>3, <1>4 DEF Init, TypeOK

\* The variables of the scheduler have their types in every reachable state,
\* whatever the schedules, options, limits and clock jumps.
THEOREM SchedulerTypes == Spec => []TypeOK
<1>1. Init => TypeOK
    BY InitTypes
<1>2. TypeOK /\ [Next]_vars => TypeOK'
    BY TypeStep
<1>3. QED
    BY <1>1, <1>2, PTL DEF Spec

-----------------------------------------------------------------------------
(* Agreement of the indexes and exactness of the counter.                  *)
(* CountExact holds only together with the agreement: an addition counts   *)
(* up exactly when its ID is new to the index, which IndexesAgree says.    *)

Inv == TypeOK /\ IndexesAgree /\ CountExact

NamesKept == \A i \in entryIndex : entry'[i].name = entry[i].name

LEMMA IndexIsFinite ==
    ASSUME TypeOK
    PROVE  IsFiniteSet(entryIndex) /\ Cardinality(entryIndex) \in Nat
<1>1. IsFiniteSet(Ids)
    BY ConstantsAssumption, FS_Interval DEF Ids
<1>2. QED
    BY <1>1, FS_Subset, FS_CardinalityType DEF TypeOK

\* An entry of the index carries a name that is given back exactly when it
\* is itself removed.
LEMMA RemovedNames ==
    ASSUME Inv, NEW ids \in SUBSET Ids, NEW i \in entryIndex, entry[i].name # NoName
    PROVE  entry[i].name \in NamesOf(Found(ids)) <=> i \in ids
<1>1. ASSUME i \in ids PROVE entry[i].name \in NamesOf(Found(ids))
    BY <1>1 DEF NamesOf, Found
<1>2. ASSUME entry[i].name \in NamesOf(Found(ids)) PROVE i \in ids
    <2>1. PICK j \in Found(ids) : entry[j].name = entry[i].name
        BY <1>2 DEF NamesOf
    <2>2. j \in entryIndex /\ j \in ids
        BY <2>1 DEF Found
    <2>3. nameIndex[entry[i].name] = i /\ nameIndex[entry[j].name] = j
        BY <2>1, <2>2 DEF Inv, IndexesAgree
    <2>4. QED
        BY <2>1, <2>2, <2>3
<1>3. QED
    BY <1>1, <1>2

LEMMA RemovalKeepsAgreement ==
    ASSUME Inv, NEW ids \in SUBSET Ids, RemoveEntries(ids), NamesKept
    PROVE  IndexesAgree'
<1> USE DEF Inv, TypeOK, Zero
<1>1. heap' = entryIndex' /\ entryIndex' = entryIndex \ ids /\ nextID' = nextID
    BY DEF RemoveEntries, IndexesAgree, Found
<1>2. \A n \in Names :
        nameIndex'[n] = IF n \in NamesOf(Found(ids)) THEN Zero ELSE nameIndex[n]
    BY DEF RemoveEntries
<1>3. \A i \in entryIndex' : i <= nextID'
    BY <1>1 DEF IndexesAgree
<1>4. ASSUME NEW i \in entryIndex', entry'[i].name # NoName
      PROVE  nameIndex'[entry'[i].name] = i
    <2>1. i \in entryIndex /\ i \notin ids /\ entry'[i].name = entry[i].name
        BY <1>1 DEF NamesKept
    <2>2. entry[i].name \in Names
        BY <1>4, <2>1 DEF Entry
    <2>3. nameIndex[entry[i].name] = i
        BY <1>4, <2>1 DEF IndexesAgree
    <2>4. entry[i].name \notin NamesOf(Found(ids))
        BY <1>4, <2>1, RemovedNames
    <2>5. QED
        BY <1>2, <2>1, <2>2, <2>3, <2>4
<1>5. ASSUME NEW n \in Names, nameIndex'[n] # Zero
      PROVE  nameIndex'[n] \in entryIndex' /\ entry'[nameIndex'[n]].name = n
    <2>1. nameIndex'[n] = nameIndex[n] /\ nameIndex[n] # Zero /\ n \notin NamesOf(Found(ids))
        BY <1>2, <1>5
    <2>2. nameIndex[n] \in entryIndex /\ entry[nameIndex[n]].name = n
        BY <2>1 DEF IndexesAgree
    <2>3. nameIndex[n] \notin ids
        BY <2>1, <2>2 DEF NamesOf, Found
    <2>4. QED
        BY <1>1, <2>1, <2>2, <2>3 DEF NamesKept
<1>6. QED
    BY <1>1, <1>3, <1>4, <1>5 DEF IndexesAgree

LEMMA RemovalKeepsCount ==
    ASSUME Inv, NEW ids \in SUBSET Ids, RemoveEntries(ids)
    PROVE  CountExact'
<1>1. IsFiniteSet(entryIndex) /\ Cardinality(entryIndex) \in Nat
    BY IndexIsFinite DEF Inv
<1>2. IsFiniteSet(Found(ids)) /\ Cardinality(Found(ids)) \in Nat
    BY <1>1, FS_Subset, FS_CardinalityType DEF Found
<1>3. entryIndex \ ids = entryIndex \ Found(ids) /\ entryIndex \intersect Found(ids) = Found(ids)
    BY DEF Found
<1>4. Cardinality(entryIndex \ ids) = Cardinality(entryIndex) - Cardinality(Found(ids))
    BY <1>1, <1>3, FS_Difference
<1>5. entryCount' = entryCount - Cardinality(Found(ids)) /\ entryIndex' = entryIndex \ ids
    BY DEF RemoveEntries
<1>6. MaxEntries \in Nat
    BY ConstantsAssumption
<1>7. entryCount \in Int
    BY DEF Inv, TypeOK
<1>8. QED
    BY <1>1, <1>2, <1>4, <1>5, <1>6, <1>7 DEF Inv, CountExact

LEMMA UntouchedTables ==
    ASSUME Inv, UNCHANGED <<heap, entryIndex, nameIndex, entryCount, nextID>>, NamesKept
    PROVE  IndexesAgree' /\ CountExact'
<1>1. CountExact'
    BY DEF Inv, CountExact
<1>2. ASSUME NEW n \in Names, nameIndex[n] # Zero
      PROVE  entry'[nameIndex[n]].name = n
    BY <1>2 DEF Inv, IndexesAgree, NamesKept
<1>3. IndexesAgree'
    BY <1>2 DEF Inv, IndexesAgree, NamesKept
<1>4. QED
    BY <1>1, <1>3

LEMMA AdditionKeepsInv ==
    ASSUME Inv, NEW spec \in JobSpecs, AddEntry(spec)
    PROVE  IndexesAgree' /\ CountExact'
<1> DEFINE id == nextID + 1
           e  == NewEntry(spec)
           added == IF running THEN TakeOver(e, clock) ELSE e
<1>1. id \in Ids /\ nextID \in Nat
    BY ConstantsAssumption DEF AddEntry, Inv, TypeOK, Ids
<1>2. id \notin entryIndex
    BY <1>1 DEF Inv, IndexesAgree
<1>3. added \in Entry /\ added.name = spec.name
    BY NewEntryType, TakeOverType DEF Inv, TypeOK
<1>4. entry' = [entry EXCEPT ![id] = added]
    BY DEF AddEntry
<1> HIDE DEF added
<1>5. entry'[id].name = spec.name /\ NamesKept
    BY <1>1, <1>2, <1>3, <1>4 DEF Inv, TypeOK, NamesKept
<1>6. /\ heap' = heap \union {id} /\ entryIndex' = entryIndex \union {id} /\ nextID' = id
      /\ nameIndex' = [n \in Names |-> IF n = spec.name THEN id ELSE nameIndex[n]]
      /\ entryCount' = IncrementedCount
    BY DEF AddEntry
<1>7. spec.name # NoName => spec.name \in Names /\ nameIndex[spec.name] = Zero
    <2>1. spec \in JobSpec
        BY ConstantsAssumption, Zenon
    <2>2. QED
        BY <2>1 DEF JobSpec, AddEntry
<1>8. CountExact'
    <2>1. Cardinality(entryIndex') = Cardinality(entryIndex) + 1
        BY <1>2, <1>6, IndexIsFinite, FS_AddElement DEF Inv
    <2>2. MaxEntries \in Nat /\ entryCount \in Int /\ HasRoom
        BY ConstantsAssumption DEF Inv, TypeOK, AddEntry
    <2>3. QED
        BY <1>6, <2>1, <2>2 DEF Inv, CountExact, IncrementedCount, HasRoom
<1>9. heap' = entryIndex' /\ \A i \in entryIndex' : i <= nextID'
    <2>1. \A i \in entryIndex : i \in Int
        BY DEF Inv, TypeOK, Ids
    <2>2. QED
        BY <1>1, <1>6, <2>1 DEF Inv, IndexesAgree
<1>10. ASSUME NEW i \in entryIndex', entry'[i].name # NoName
       PROVE  nameIndex'[entry'[i].name] = i
    <2>1. CASE i = id
        BY <1>5, <1>6, <1>7, <1>10, <2>1
    <2>2. CASE i \in entryIndex
        <3>1. entry'[i].name = entry[i].name /\ nameIndex[entry[i].name] = i
            BY <1>5, <1>10, <2>2 DEF NamesKept, Inv, IndexesAgree
        <3>2. entry[i].name \in Names /\ i # Zero
            BY <1>10, <2>2, <3>1 DEF Inv, TypeOK, Entry, Ids, Zero
        <3>3. entry[i].name # spec.name
            BY <1>7, <3>1, <3>2, ConstantsAssumption, Zenon
        <3>4. QED
            BY <1>6, <3>1, <3>2, <3>3
    <2>3. QED
        BY <1>6, <2>1, <2>2
<1>11. ASSUME NEW n \in Names, nameIndex'[n] # Zero
       PROVE  nameIndex'[n] \in entryIndex' /\ entry'[nameIndex'[n]].name = n
    <2>1. CASE n = spec.name
        BY <1>5, <1>6, <2>1
    <2>2. CASE n # spec.name
        <3>1. nameIndex'[n] = nameIndex[n]
            BY <1>6, <2>2
        <3>2. nameIndex[n] \in entryIndex /\ entry[nameIndex[n]].name = n
            BY <1>11, <3>1 DEF Inv, IndexesAgree
        <3>3. QED
            BY <1>5, <1>6, <3>1, <3>2 DEF NamesKept
    <2>3. QED
        BY <2>1, <2>2
<1>12. QED
    BY <1>8, <1>9, <1>10, <1>11 DEF IndexesAgree

\* An entry keeps its name whatever the loop does to it.
LEMMA NameIsKept ==
    ASSUME NEW e \in Entry, NEW now \in Times
    PROVE  /\ Reschedule(e, now).name = e.name
           /\ ScheduleEntryNext(e, now).name = e.name
           /\ AfterTimeBackwards(e, now).name = e.name
           /\ AfterDue(e, now).name = e.name
<1>1. Reschedule(e, now).name = e.name /\ ScheduleEntryNext(e, now).name = e.name
    BY DEF Reschedule, ScheduleEntryNext, Entry
<1>2. AfterTimeBackwards(e, now).name = e.name
    BY <1>1 DEF AfterTimeBackwards
<1>3. e.paused \in BOOLEAN /\ e.runOnce \in BOOLEAN
    BY DEF Entry
<1>4. AfterDue(e, now).name = e.name
    BY <1>1, <1>3 DEF AfterDue, Reschedule, Entry
<1>5. QED
    BY <1>1, <1>2, <1>4

LEMMA WakeKeepsNames ==
    ASSUME TypeOK, Wake
    PROVE  \A i \in Ids : entry'[i].name = entry[i].name
<1> DEFINE now == timer.fired
           cur == [i \in Ids |-> IF i \in heap THEN AfterTimeBackwards(entry[i], now)
                                               ELSE entry[i]]
           due == {i \in heap : IsDue(cur[i], now)}
<1>1. now \in Times
    BY DEF Wake, TypeOK
<1>2. entry' = [i \in Ids |-> IF i \in due THEN AfterDue(cur[i], now) ELSE cur[i]]
    BY DEF Wake
<1>3. \A i \in Ids : cur[i] \in Entry /\ cur[i].name = entry[i].name
    BY <1>1, AfterTimeBackwardsType, NameIsKept DEF TypeOK
<1> HIDE DEF now, cur, due
<1>4. QED
    BY <1>1, <1>2, <1>3, NameIsKept

LEMMA InvStep ==
    ASSUME Inv, [Next]_vars
    PROVE  IndexesAgree' /\ CountExact'
<1>1. ASSUME NEW spec \in JobSpecs, AddEntry(spec)
      PROVE  IndexesAgree' /\ CountExact'
    BY <1>1, AdditionKeepsInv
<1>2. ASSUME NEW spec \in JobSpecs, AddDuplicateName(spec)
      PROVE  IndexesAgree' /\ CountExact'
    <2>1. IndexesAgree'
        BY <1>2 DEF AddDuplicateName, Inv, IndexesAgree
    <2>2. MaxEntries > 0 => entryCount' = entryCount
        BY <1>2, ConstantsAssumption DEF AddDuplicateName, IncrementedCount, Inv, TypeOK
    <2>3. QED
        BY <1>2, <2>1, <2>2 DEF AddDuplicateName, Inv, CountExact
<1>3. ASSUME NEW id \in Ids, Remove(id)
      PROVE  IndexesAgree' /\ CountExact'
    <2>1. NamesKept
        BY <1>3 DEF Remove, NamesKept, Inv, TypeOK, Entry
    <2>2. {id} \in SUBSET Ids
        OBVIOUS
    <2>3. QED
        BY <1>3, <2>1, <2>2, RemovalKeepsAgreement, RemovalKeepsCount DEF Remove
<1>4. ASSUME NEW id \in Ids, NEW sched \in Schedules, NEW newJob \in BOOLEAN,
             Update(id, sched, newJob)
      PROVE  IndexesAgree' /\ CountExact'
    <2> DEFINE e == [entry[id] EXCEPT !.sched = sched,
                                      !.ctxLive = IF newJob THEN ~baseCancelled ELSE @]
    <2>1. e.name = entry[id].name
        BY DEF Inv, TypeOK, Entry
    <2>2. ScheduleEntryNext(e, clock).name = e.name
        BY DEF ScheduleEntryNext, Reschedule
    <2>3. entry' = [entry EXCEPT ![id] = IF running THEN ScheduleEntryNext(e, clock) ELSE e]
        BY <1>4 DEF Update
    <2> HIDE DEF e
    <2>4. NamesKept
        BY <2>1, <2>2, <2>3 DEF NamesKept, Inv, TypeOK
    <2>5. QED
        BY <1>4, <2>4, UntouchedTables DEF Update
<1>5. ASSUME NEW id \in Ids, NEW pause \in BOOLEAN, SetPaused(id, pause)
      PROVE  IndexesAgree' /\ CountExact'
    <2>1. NamesKept
        BY <1>5 DEF SetPaused, NamesKept, Inv, TypeOK, Entry
    <2>2. QED
        BY <1>5, <2>1, UntouchedTables DEF SetPaused
<1>6. ASSUME NEW id \in Ids, Trigger(id)
      PROVE  IndexesAgree' /\ CountExact'
    <2>1. NamesKept
        BY <1>6 DEF Trigger, NamesKept, Inv, TypeOK, Entry
    <2>2. (IF entry[id].runOnce THEN {id} ELSE {}) \in SUBSET Ids
        OBVIOUS
    <2>3. QED
        BY <1>6, <2>1, <2>2, RemovalKeepsAgreement, RemovalKeepsCount DEF Trigger
<1>7. CASE Start
    BY <1>7, UntouchedTables DEF Start, table, NamesKept
<1>8. CASE RunInit
    <2>1. clock \in Times /\ heap \subseteq Ids /\ entry \in [Ids -> Entry]
        BY DEF Inv, TypeOK
    <2>2. NamesKept
        BY <1>8, <2>1, TakeOverType DEF RunInit, NamesKept, Inv, TypeOK
    <2>3. QED
        BY <1>8, <2>2, UntouchedTables DEF RunInit
<1>9. CASE Stop
    <2>1. NamesKept
        BY <1>9 DEF Stop, NamesKept, Inv, TypeOK, Entry
    <2>2. QED
        BY <1>9, <2>1, UntouchedTables DEF Stop
<1>10. CASE TimerFire \/ Tick \/ ClockBack
    BY <1>10, UntouchedTables DEF TimerFire, Tick, ClockBack, table, NamesKept
<1>11. CASE Wake
    <2>1. NamesKept
        BY <1>11, WakeKeepsNames DEF NamesKept, Inv, TypeOK
    <2>2. PICK ids \in SUBSET heap : RemoveEntries(ids)
        BY <1>11 DEF Wake
    <2>3. ids \in SUBSET Ids
        BY DEF Inv, TypeOK
    <2>4. QED
        BY <2>1, <2>2, <2>3, RemovalKeepsAgreement, RemovalKeepsCount
<1>12. CASE UNCHANGED vars
    BY <1>12, UntouchedTables DEF vars, table, NamesKept
<1>13. QED
    BY <1>1, <1>2, <1>3, <1>4, <1>5, <1>6, <1>7, <1>8, <1>9, <1>10, <1>11, <1>12
       DEF Next, Request

LEMMA InitInv == Init => Inv
<1>1. Init => IndexesAgree
    BY DEF Init, IndexesAgree
<1>2. Init => CountExact
    <2>1. Cardinality({}) = 0
        BY FS_EmptySet
    <2>2. MaxEntries \in Nat
        BY ConstantsAssumption, Zenon
    <2>3. QED
        BY <2>1, <2>2 DEF Init, CountExact
<1>3. Init => TypeOK
    BY InitTypes
<1>4. QED
    BY <1>1, <1>2, <1>3 DEF Inv

LEMMA SchedulerInv == Spec => []Inv
<1>1. Inv /\ [Next]_vars => Inv'
    BY TypeStep, InvStep DEF Inv
<1>2. QED
    BY <1>1, InitInv, PTL DEF Spec

\* In every reachable state the heap, the ID index and the name index
\* describe the same entries and no two entries share a name.
THEOREM IndexesAlwaysAgree == Spec => []IndexesAgree
<1>1. Inv => IndexesAgree
    BY DEF Inv
<1>2. QED
    BY <1>1, SchedulerInv, PTL

\* With a limit, the counter behind WithMaxEntries is the number of entries
\* and never exceeds the limit, for every limit and every history of
\* additions, rejections, removals and run-once dispatches.
THEOREM CountAlwaysExact == Spec => []CountExact
<1>1. Inv => CountExact
    BY DEF Inv
<1>2. QED
    BY <1>1, SchedulerInv, PTL

-----------------------------------------------------------------------------
(* What the loop does to one entry *)

\* The fields only a caller writes, and the run context.
SameEntry(e, f) ==
    /\ f.sched = e.sched
    /\ f.paused = e.paused
    /\ f.runOnce = e.runOnce
    /\ f.ctxLive = e.ctxLive

\* The Next of f is none, an activation after now, or a pending run at now.
PlannedAfter(f, now) ==
    \/ f.next = Zero
    \/ f.next \in f.sched /\ f.next > now
    \/ f.immediateDue /\ f.next = now

LEMMA PrevIsNatural ==
    ASSUME NEW e \in Entry
    PROVE  e.prev \in Nat
<1>1. e.prev \in Times \union {Zero}
    BY DEF Entry
<1>2. Times \union {Zero} \subseteq Nat
    BY TimesAreNaturals DEF Zero
<1>3. QED
    BY <1>1, <1>2, Zenon

LEMMA RescheduleFacts ==
    ASSUME NEW e \in Entry, NEW now \in Times
    PROVE  /\ SameEntry(e, Reschedule(e, now))
           /\ PlannedAfter(Reschedule(e, now), now)
           /\ Reschedule(e, now).prev = e.prev
<1> DEFINE n == NextOf(e.sched, now)
<1>1. n # Zero => n \in e.sched /\ n > now
    <2>1. e.sched \in SUBSET Times /\ now \in Int
        BY DEF Entry, Times
    <2>2. QED
        BY <2>1, NextOfIsLater
<1>2. Reschedule(e, now) = [e EXCEPT !.immediateDue = FALSE, !.next = n]
    BY DEF Reschedule
<1> HIDE DEF n
<1>3. QED
    BY <1>1, <1>2 DEF SameEntry, PlannedAfter, Entry

LEMMA ScheduleEntryNextFacts ==
    ASSUME NEW e \in Entry, NEW now \in Times
    PROVE  /\ SameEntry(e, ScheduleEntryNext(e, now))
           /\ PlannedAfter(ScheduleEntryNext(e, now), now)
           /\ ScheduleEntryNext(e, now).prev = e.prev
<1>1. CASE e.runImmediately
    BY <1>1 DEF ScheduleEntryNext, SameEntry, PlannedAfter, Entry
<1>2. CASE ~e.runImmediately
    BY <1>2, RescheduleFacts DEF ScheduleEntryNext
<1>3. QED
    BY <1>1, <1>2

\* A catch-up is an activation between the old Prev and now, never one of a
\* run-once entry, and the new Prev is not before it.
LEMMA CatchUpFacts ==
    ASSUME NEW e \in Entry, NEW now \in Times, NEW t \in CatchUps(e, now)
    PROVE  /\ t \in Times /\ e.prev < t /\ t < now
           /\ t <= AfterCatchUp(e, now).prev
           /\ ~e.runOnce
<1> DEFINE missed == MissedRuns(e, now)
<1>1. missed \subseteq Times
    BY MissedRunsAreTimes
<1>2. missed # {} => Max(missed) \in missed /\ \A u \in missed : Max(missed) >= u
    BY <1>1, MaxIsMember
<1>3. t \in missed
    BY <1>2 DEF CatchUps
<1>4. e.prev < t /\ t < now /\ ~e.runOnce
    BY <1>3 DEF MissedRuns
<1>5. AfterCatchUp(e, now).prev = Max(missed)
    BY <1>3 DEF AfterCatchUp, Entry
<1>6. QED
    BY <1>1, <1>2, <1>3, <1>4, <1>5

LEMMA TakeOverFacts ==
    ASSUME NEW e \in Entry, NEW now \in Times
    PROVE  /\ SameEntry(e, TakeOver(e, now))
           /\ PlannedAfter(TakeOver(e, now), now)
           /\ TakeOver(e, now).prev >= e.prev
           /\ \A t \in CatchUps(e, now) : t <= TakeOver(e, now).prev
<1> DEFINE missed == MissedRuns(e, now)
           caught == AfterCatchUp(e, now)
<1>1. missed # {} => Max(missed) \in missed
    BY MissedRunsAreTimes, MaxIsMember
<1>2. missed \subseteq Times /\ \A t \in missed : e.prev < t
    BY MissedRunsAreTimes DEF MissedRuns
<1>3. caught \in Entry /\ SameEntry(e, caught)
    BY <1>1, <1>2 DEF AfterCatchUp, SameEntry, Entry
<1>4. caught.prev >= e.prev
    <2>1. e.prev \in Nat
        BY PrevIsNatural
    <2>2. caught.prev = IF missed = {} THEN e.prev ELSE Max(missed)
        BY DEF AfterCatchUp, Entry
    <2>3. missed # {} => Max(missed) \in Nat /\ e.prev < Max(missed)
        BY <1>1, <1>2, TimesAreNaturals
    <2>4. QED
        BY <2>1, <2>2, <2>3
<1>5. TakeOver(e, now) = ScheduleEntryNext(caught, now)
    BY DEF TakeOver
<1>6. \A t \in CatchUps(e, now) : t <= caught.prev
    BY CatchUpFacts
<1> HIDE DEF caught
<1>7. QED
    BY <1>3, <1>4, <1>5, <1>6, ScheduleEntryNextFacts DEF SameEntry

-----------------------------------------------------------------------------
(* What one wake of the loop does to the table *)

\* The loop, woken at now, launches a run of entry i.
RunsAt(i, now) ==
    IsDue(entry[i], now) /\ ~entry[i].paused /\ ~(entry[i].prev > now)

LEMMA WakeEffect ==
    ASSUME TypeOK, IndexesAgree, Wake, NEW now, now = timer.fired
    PROVE  /\ now \in Times
           /\ heap' = {i \in heap : ~(RunsAt(i, now) /\ entry[i].runOnce)}
           /\ entryIndex' = heap'
           /\ started' = {DueRun(i, entry[i]) : i \in {j \in heap : RunsAt(j, now)}}
           /\ \A i \in Ids \ heap : entry'[i] = entry[i]
           /\ \A i \in heap :
                 \/ /\ RunsAt(i, now) /\ entry[i].runOnce
                    /\ entry'[i] = [entry[i] EXCEPT !.immediateDue = FALSE, !.prev = entry[i].next]
                 \/ /\ RunsAt(i, now) /\ ~entry[i].runOnce
                    /\ entry'[i] = Reschedule([entry[i] EXCEPT !.prev = entry[i].next], now)
                 \/ /\ ~RunsAt(i, now)
                    /\ entry'[i] \in {entry[i], Reschedule(entry[i], now)}
<1> DEFINE cur  == [i \in Ids |-> IF i \in heap THEN AfterTimeBackwards(entry[i], now)
                                                ELSE entry[i]]
           due  == {i \in heap : IsDue(cur[i], now)}
           runs == {i \in due : Runnable(cur[i])}
<1>1. now \in Times
    BY DEF Wake, TypeOK
<1>2. /\ entry' = [i \in Ids |-> IF i \in due THEN AfterDue(cur[i], now) ELSE cur[i]]
      /\ started' = {DueRun(i, cur[i]) : i \in runs}
      /\ RemoveEntries({i \in runs : cur[i].runOnce})
    BY DEF Wake
<1>3. heap \subseteq Ids /\ heap = entryIndex /\ \A i \in heap : entry[i] \in Entry
    BY DEF TypeOK, IndexesAgree
<1>4. \A i \in Ids \ heap : cur[i] = entry[i]
    OBVIOUS
<1>5. ASSUME NEW i \in heap
      PROVE  cur[i] = IF entry[i].prev > now THEN Reschedule(entry[i], now) ELSE entry[i]
    BY <1>3 DEF AfterTimeBackwards
<1>6. ASSUME NEW i \in heap, entry[i].prev > now
      PROVE  ~IsDue(cur[i], now)
    <2>1. cur[i] = Reschedule(entry[i], now)
        BY <1>5, <1>6
    <2>2. cur[i].next = NextOf(entry[i].sched, now)
        BY <1>3, <2>1 DEF Reschedule, Entry
    <2>3. entry[i].sched \in SUBSET Times /\ now \in Int
        BY <1>1, <1>3 DEF Entry, Times
    <2>4. cur[i].next # Zero => cur[i].next > now /\ cur[i].next \in Times
        BY <2>2, <2>3, NextOfIsLater
    <2>5. QED
        BY <1>1, <2>4, TimesAreNaturals DEF IsDue
<1> HIDE DEF cur
<1>7. ASSUME NEW i \in heap
      PROVE  i \in runs <=> RunsAt(i, now)
    BY <1>5, <1>6 DEF RunsAt, Runnable
<1>8. \A i \in runs : cur[i] = entry[i]
    BY <1>5, <1>6
<1>9. started' = {DueRun(i, entry[i]) : i \in {j \in heap : RunsAt(j, now)}}
    <2>1. runs = {j \in heap : RunsAt(j, now)}
        BY <1>7
    <2>2. QED
        BY <1>2, <1>8, <2>1
<1>10. /\ heap' = {i \in heap : ~(RunsAt(i, now) /\ entry[i].runOnce)}
       /\ entryIndex' = heap'
    <2>1. {i \in runs : cur[i].runOnce} = {i \in heap : RunsAt(i, now) /\ entry[i].runOnce}
        BY <1>7, <1>8
    <2>2. QED
        BY <1>2, <1>3, <2>1 DEF RemoveEntries, Found
<1>11. \A i \in Ids \ heap : entry'[i] = entry[i]
    BY <1>2, <1>4
<1>12. ASSUME NEW i \in heap, RunsAt(i, now)
       PROVE  entry'[i] = IF entry[i].runOnce
                          THEN [entry[i] EXCEPT !.immediateDue = FALSE, !.prev = entry[i].next]
                          ELSE Reschedule([entry[i] EXCEPT !.prev = entry[i].next], now)
    <2>1. i \in due /\ cur[i] = entry[i] /\ ~entry[i].paused
        BY <1>7, <1>8, <1>12 DEF RunsAt
    <2>2. entry'[i] = AfterDue(entry[i], now)
        BY <1>2, <1>3, <2>1
    <2>3. QED
        BY <2>1, <2>2 DEF AfterDue
<1>13. ASSUME NEW i \in heap, ~RunsAt(i, now)
       PROVE  entry'[i] \in {entry[i], Reschedule(entry[i], now)}
    <2>1. CASE i \in due
        <3>1. cur[i] = entry[i] /\ entry[i].paused
            BY <1>5, <1>6, <1>13, <2>1 DEF RunsAt
        <3>2. entry'[i] = AfterDue(entry[i], now)
            BY <1>2, <1>3, <2>1, <3>1
        <3>3. AfterDue(entry[i], now) = Reschedule(entry[i], now)
            BY <3>1 DEF AfterDue
        <3>4. QED
            BY <3>2, <3>3
    <2>2. CASE i \notin due
        BY <1>2, <1>3, <1>5, <2>2
    <2>3. QED
        BY <2>1, <2>2
<1>14. QED
    BY <1>1, <1>9, <1>10, <1>11, <1>12, <1>13

LEMMA WakeKeepsEntry ==
    ASSUME TypeOK, IndexesAgree, Wake, NEW i \in Ids
    PROVE  SameEntry(entry[i], entry'[i])
<1> DEFINE now == timer.fired
<1>1. now \in Times /\ entry[i] \in Entry
    BY WakeEffect DEF TypeOK
<1>2. ASSUME NEW e \in Entry
      PROVE  SameEntry(e, Reschedule(e, now))
    BY <1>1, RescheduleFacts
<1>3. CASE i \notin heap
    BY <1>3, WakeEffect DEF SameEntry
<1>4. CASE i \in heap /\ RunsAt(i, now)
    <2>1. [entry[i] EXCEPT !.prev = entry[i].next] \in Entry
        BY <1>1 DEF Entry
    <2>2. SameEntry(entry[i], [entry[i] EXCEPT !.prev = entry[i].next])
        BY <1>1 DEF Entry, SameEntry
    <2>3. SameEntry(entry[i], [entry[i] EXCEPT !.immediateDue = FALSE, !.prev = entry[i].next])
        BY <1>1 DEF Entry, SameEntry
    <2>4. QED
        BY <1>2, <1>4, <2>1, <2>2, <2>3, WakeEffect DEF SameEntry
<1>5. CASE i \in heap /\ ~RunsAt(i, now)
    <2>1. entry'[i] \in {entry[i], Reschedule(entry[i], now)}
        BY <1>5, WakeEffect
    <2>2. QED
        BY <1>1, <1>2, <2>1 DEF SameEntry
<1>6. QED
    BY <1>3, <1>4, <1>5
-----------------------------------------------------------------------------
(* The invariant of the run loop.  NextFromSchedule alone is not inductive: *)
(* an entry the loop takes over gets its Next only if "running" is true     *)
(* whenever the loop exists, and a run-once entry leaves the heap with the  *)
(* Next it ran only if the indexes agree.  Uncancelled contexts, and the    *)
(* slots of IDs not handed out, are what the action properties need.        *)

LoopRuns    == running <=> loop # "none"
FreshSlots  == \A i \in Ids : i > nextID => ~entry[i].runOnce
ContextLive == ~baseCancelled => \A i \in heap : entry[i].ctxLive

LoopInv ==
    /\ Inv
    /\ LoopRuns
    /\ FreshSlots
    /\ ContextLive
    /\ NextFromSchedule

\* NextFromSchedule for one entry.
Planned(e) == e.next \in e.sched \union {Zero} \/ e.immediateDue

LEMMA PlannedAfterIsPlanned ==
    ASSUME NEW f, NEW now, PlannedAfter(f, now)
    PROVE  Planned(f)
BY DEF PlannedAfter, Planned

LEMMA LoopInvInit == HInit => LoopInv
<1>1. Init => Inv
    BY InitInv
<1>2. HInit => Init
    BY DEF HInit
<1>3. Init => LoopRuns /\ FreshSlots /\ ContextLive /\ NextFromSchedule
    BY DEF Init, NoEntry, LoopRuns, FreshSlots, ContextLive, NextFromSchedule
<1>4. QED
    BY <1>1, <1>2, <1>3 DEF LoopInv

\* A request, or an idle loop: the action changes no Next and no context but
\* of entries outside the new heap.
LEMMA QuietStep ==
    ASSUME LoopInv, heap' \subseteq heap,
           nextID' = nextID, UNCHANGED <<running, loop, baseCancelled>>,
           \A i \in heap' : /\ entry'[i].next = entry[i].next
                            /\ entry'[i].sched = entry[i].sched
                            /\ entry'[i].immediateDue = entry[i].immediateDue
                            /\ entry'[i].ctxLive = entry[i].ctxLive,
           \A i \in Ids : i > nextID => entry'[i].runOnce = entry[i].runOnce
    PROVE  LoopRuns' /\ FreshSlots' /\ ContextLive' /\ NextFromSchedule'
BY DEF LoopInv, LoopRuns, FreshSlots, ContextLive, NextFromSchedule

\* The loop plans every entry of the new heap anew.
LEMMA ReplanStep ==
    ASSUME LoopInv, nextID' = nextID, LoopRuns',
           heap' \subseteq heap, baseCancelled' = baseCancelled,
           \A i \in heap' : SameEntry(entry[i], entry'[i]),
           loop' = "select" => \A i \in heap' : Planned(entry'[i]),
           \A i \in Ids : i > nextID => entry'[i].runOnce = entry[i].runOnce
    PROVE  LoopRuns' /\ FreshSlots' /\ ContextLive' /\ NextFromSchedule'
BY DEF LoopInv, FreshSlots, ContextLive, NextFromSchedule, Planned, SameEntry

LEMMA HeapIsHandedOut ==
    ASSUME LoopInv
    PROVE  /\ heap \subseteq Ids /\ heap = entryIndex
           /\ \A i \in heap : ~(i > nextID) /\ entry[i] \in Entry
<1>1. /\ heap \subseteq Ids /\ heap = entryIndex
      /\ \A i \in heap : i <= nextID /\ entry[i] \in Entry
    BY DEF LoopInv, Inv, TypeOK, IndexesAgree
<1>2. nextID \in Int /\ \A i \in Ids : i \in Int
    BY DEF LoopInv, Inv, TypeOK, Ids
<1>3. QED
    BY <1>1, <1>2

LEMMA AdditionKeepsLoopInv ==
    ASSUME LoopInv, NEW spec \in JobSpecs, AddEntry(spec)
    PROVE  LoopRuns' /\ FreshSlots' /\ ContextLive' /\ NextFromSchedule'
<1> DEFINE id == nextID + 1
           e == NewEntry(spec)
           added == IF running THEN TakeOver(e, clock) ELSE e
<1>1. id \in Ids /\ nextID \in Nat /\ id > nextID
    BY ConstantsAssumption DEF AddEntry, LoopInv, Inv, TypeOK, Ids
<1>2. e \in Entry /\ clock \in Times /\ e.ctxLive = ~baseCancelled
    BY NewEntryType DEF LoopInv, Inv, TypeOK, NewEntry
<1>3. SameEntry(e, TakeOver(e, clock)) /\ Planned(TakeOver(e, clock))
    BY <1>2, TakeOverFacts, PlannedAfterIsPlanned
<1>4. added.ctxLive = ~baseCancelled /\ (running => Planned(added))
    BY <1>2, <1>3 DEF SameEntry
<1>5. /\ entry' = [entry EXCEPT ![id] = added]
      /\ heap' = heap \union {id} /\ nextID' = id
      /\ UNCHANGED <<running, loop, baseCancelled>>
    BY DEF AddEntry
<1> HIDE DEF added
<1>6. \A i \in Ids : entry'[i] = IF i = id THEN added ELSE entry[i]
    BY <1>1, <1>5 DEF LoopInv, Inv, TypeOK
<1>7. FreshSlots'
    <2>1. \A i \in Ids : i \in Int
        BY DEF Ids
    <2>2. QED
        BY <1>1, <1>5, <1>6, <2>1 DEF FreshSlots, LoopInv
<1>8. id \notin heap
    BY <1>1, HeapIsHandedOut
<1>9. heap \subseteq Ids
    BY HeapIsHandedOut
<1>10. ContextLive'
    BY <1>1, <1>4, <1>5, <1>6, <1>8, <1>9 DEF ContextLive, LoopInv
<1>11. NextFromSchedule'
    BY <1>1, <1>4, <1>5, <1>6, <1>8, <1>9 DEF NextFromSchedule, LoopInv, LoopRuns, Planned
<1>12. QED
    BY <1>5, <1>7, <1>10, <1>11 DEF LoopInv, LoopRuns

LEMMA UpdateKeepsLoopInv ==
    ASSUME LoopInv, NEW id \in Ids, NEW sched \in Schedules, NEW newJob \in BOOLEAN,
           Update(id, sched, newJob)
    PROVE  LoopRuns' /\ FreshSlots' /\ ContextLive' /\ NextFromSchedule'
<1> DEFINE e == [entry[id] EXCEPT !.sched = sched,
                                  !.ctxLive = IF newJob THEN ~baseCancelled ELSE @]
           f == IF running THEN ScheduleEntryNext(e, clock) ELSE e
<1>1. /\ id \in heap /\ heap \subseteq Ids /\ ~(id > nextID)
      /\ entry[id] \in Entry /\ entry \in [Ids -> Entry] /\ clock \in Times
    BY HeapIsHandedOut DEF Update, LoopInv, Inv, TypeOK
<1>2. sched \in SUBSET Times
    BY ConstantsAssumption, Zenon
<1>3. (IF newJob THEN ~baseCancelled ELSE entry[id].ctxLive) \in BOOLEAN
    BY <1>1 DEF Entry, LoopInv, Inv, TypeOK
<1>4. e \in Entry
    BY <1>1, <1>2, <1>3 DEF Entry
<1>5. e.ctxLive = IF newJob THEN ~baseCancelled ELSE entry[id].ctxLive
    BY <1>1 DEF Entry
<1>6. entry' = [entry EXCEPT ![id] = f] /\ UNCHANGED <<heap, nextID, running, loop, baseCancelled>>
    BY DEF Update
<1> HIDE DEF e
<1>7. SameEntry(e, ScheduleEntryNext(e, clock)) /\ Planned(ScheduleEntryNext(e, clock))
    BY <1>1, <1>4, ScheduleEntryNextFacts, PlannedAfterIsPlanned
<1>8. f.ctxLive = e.ctxLive /\ (running => Planned(f))
    BY <1>7 DEF SameEntry
<1> HIDE DEF f
<1>9. \A i \in Ids : entry'[i] = IF i = id THEN f ELSE entry[i]
    BY <1>1, <1>6
<1>10. FreshSlots'
    BY <1>1, <1>6, <1>9 DEF FreshSlots, LoopInv
<1>11. ContextLive'
    BY <1>1, <1>5, <1>6, <1>8, <1>9 DEF ContextLive, LoopInv
<1>12. NextFromSchedule'
    BY <1>1, <1>6, <1>8, <1>9 DEF NextFromSchedule, LoopInv, LoopRuns, Planned
<1>13. QED
    BY <1>6, <1>10, <1>11, <1>12 DEF LoopInv, LoopRuns

LEMMA WakeKeepsLoopInv ==
    ASSUME LoopInv, Wake
    PROVE  LoopRuns' /\ FreshSlots' /\ ContextLive' /\ NextFromSchedule'
<1> DEFINE now == timer.fired
<1>1. TypeOK /\ IndexesAgree
    BY SMTT(60) DEF LoopInv, Inv
<1>2. /\ now \in Times /\ heap' \subseteq heap /\ heap \subseteq Ids
      /\ loop = "select" /\ UNCHANGED <<running, loop, baseCancelled, nextID>>
    BY <1>1, WakeEffect, HeapIsHandedOut DEF Wake, RemoveEntries
<1>3. ASSUME NEW i \in heap' PROVE SameEntry(entry[i], entry'[i])
    BY <1>1, <1>2, WakeKeepsEntry
<1>4. ASSUME NEW i \in heap' PROVE Planned(entry'[i])
    <2>1. i \in heap /\ entry[i] \in Entry /\ ~(RunsAt(i, now) /\ entry[i].runOnce)
        BY <1>1, WakeEffect, HeapIsHandedOut
    <2>2. ASSUME NEW e \in Entry PROVE Planned(Reschedule(e, now))
        BY <1>2, RescheduleFacts, PlannedAfterIsPlanned
    <2>3. CASE RunsAt(i, now)
        <3>1. entry'[i] = Reschedule([entry[i] EXCEPT !.prev = entry[i].next], now)
            BY <1>1, <2>1, <2>3, WakeEffect
        <3>2. [entry[i] EXCEPT !.prev = entry[i].next] \in Entry
            BY <2>1 DEF Entry
        <3>3. QED
            BY <2>2, <3>1, <3>2
    <2>4. CASE ~RunsAt(i, now)
        <3>1. entry'[i] \in {entry[i], Reschedule(entry[i], now)}
            BY <1>1, <2>1, <2>4, WakeEffect
        <3>2. Planned(entry[i])
            BY <1>2, <2>1 DEF LoopInv, NextFromSchedule, Planned
        <3>3. QED
            BY <2>1, <2>2, <3>1, <3>2
    <2>5. QED
        BY <2>3, <2>4
<1>5. ASSUME NEW i \in Ids, i > nextID PROVE entry'[i] = entry[i]
    BY <1>1, <1>5, WakeEffect, HeapIsHandedOut
<1>6. LoopRuns'
    BY <1>2 DEF LoopInv, LoopRuns
<1>7. QED
    BY <1>2, <1>3, <1>4, <1>5, <1>6, ReplanStep

LEMMA LoopInvStep ==
    ASSUME LoopInv, [Next]_vars
    PROVE  LoopInv'
<1> DEFINE Goal == LoopRuns' /\ FreshSlots' /\ ContextLive' /\ NextFromSchedule'
<1> SUFFICES Goal
    BY TypeStep, InvStep DEF LoopInv, Inv
<1> USE HeapIsHandedOut
<1>1. ASSUME NEW spec \in JobSpecs, AddEntry(spec) PROVE Goal
    BY <1>1, AdditionKeepsLoopInv
<1>2. ASSUME NEW spec \in JobSpecs, AddDuplicateName(spec) PROVE Goal
    BY <1>2, QuietStep DEF AddDuplicateName
<1>3. ASSUME NEW id \in Ids, Remove(id) PROVE Goal
    <2>1. entry' = [entry EXCEPT ![id].ctxLive = @ /\ id \notin entryIndex]
        BY <1>3 DEF Remove
    <2>2. /\ heap' = heap \ (heap \intersect {id}) /\ nextID' = nextID
          /\ UNCHANGED <<running, loop, baseCancelled>>
        BY <1>3 DEF Remove, RemoveEntries, Found
    <2>3. entry \in [Ids -> Entry]
        BY DEF LoopInv, Inv, TypeOK
    <2>4. \A i \in Ids : i # id => entry'[i] = entry[i]
        BY <2>1, <2>3
    <2>5. entry'[id].runOnce = entry[id].runOnce
        BY <2>1, <2>3
    <2>6. QED
        BY <2>2, <2>4, <2>5, QuietStep
<1>4. ASSUME NEW id \in Ids, NEW sched \in Schedules, NEW newJob \in BOOLEAN,
             Update(id, sched, newJob)
      PROVE  Goal
    BY <1>4, UpdateKeepsLoopInv
<1>5. ASSUME NEW id \in Ids, NEW pause \in BOOLEAN, SetPaused(id, pause) PROVE Goal
    <2>1. entry' = [entry EXCEPT ![id].paused = pause] /\ id \in heap
        BY <1>5 DEF SetPaused
    <2>2. UNCHANGED <<heap, nextID, running, loop, baseCancelled>>
        BY <1>5 DEF SetPaused
    <2>3. \A i \in Ids : /\ entry'[i].next = entry[i].next
                         /\ entry'[i].sched = entry[i].sched
                         /\ entry'[i].immediateDue = entry[i].immediateDue
                         /\ entry'[i].ctxLive = entry[i].ctxLive
                         /\ i # id => entry'[i] = entry[i]
        BY <2>1 DEF LoopInv, Inv, TypeOK, Entry
    <2>4. QED
        BY <2>1, <2>2, <2>3, QuietStep
<1>6. ASSUME NEW id \in Ids, Trigger(id) PROVE Goal
    <2>1. entry' = [entry EXCEPT ![id].prev = clock] /\ id \in heap
        BY <1>6 DEF Trigger
    <2>2. heap' \subseteq heap /\ UNCHANGED <<nextID, running, loop, baseCancelled>>
        BY <1>6 DEF Trigger, RemoveEntries
    <2>3. \A i \in Ids : /\ entry'[i].next = entry[i].next
                         /\ entry'[i].sched = entry[i].sched
                         /\ entry'[i].immediateDue = entry[i].immediateDue
                         /\ entry'[i].ctxLive = entry[i].ctxLive
                         /\ i # id => entry'[i] = entry[i]
        BY <2>1 DEF LoopInv, Inv, TypeOK, Entry
    <2>4. QED
        BY <2>1, <2>2, <2>3, QuietStep
<1>7. CASE Start
    BY <1>7, ReplanStep DEF Start, table, LoopInv, LoopRuns, SameEntry
<1>8. CASE RunInit
    <2>1. \A i \in heap : entry'[i] = TakeOver(entry[i], clock)
        BY <1>8 DEF RunInit
    <2>2. \A i \in Ids : i > nextID => entry'[i] = entry[i]
        BY <1>8 DEF RunInit
    <2>3. clock \in Times
        BY DEF LoopInv, Inv, TypeOK
    <2>4. \A i \in heap : SameEntry(entry[i], entry'[i]) /\ Planned(entry'[i])
        BY <2>1, <2>3, TakeOverFacts, PlannedAfterIsPlanned
    <2>5. /\ UNCHANGED <<heap, nextID, running, baseCancelled>>
          /\ loop = "starting" /\ loop' = "select"
        BY <1>8 DEF RunInit
    <2>6. LoopRuns'
        BY <2>5 DEF LoopInv, LoopRuns
    <2>7. QED
        BY <2>2, <2>4, <2>5, <2>6, ReplanStep
<1>9. CASE Stop
    <2>1. \A i \in Ids : entry'[i].runOnce = entry[i].runOnce
        BY <1>9 DEF Stop, LoopInv, Inv, TypeOK, Entry
    <2>2. QED
        BY <1>9, <2>1 DEF Stop, LoopInv, LoopRuns, FreshSlots, ContextLive, NextFromSchedule
<1>10. CASE TimerFire \/ Tick \/ ClockBack
    BY <1>10, QuietStep DEF TimerFire, Tick, ClockBack, table
<1>11. CASE Wake
    BY <1>11, WakeKeepsLoopInv
<1>12. CASE UNCHANGED vars
    BY <1>12, QuietStep DEF vars, table
<1>13. QED
    BY <1>1, <1>2, <1>3, <1>4, <1>5, <1>6, <1>7, <1>8, <1>9, <1>10, <1>11, <1>12
       DEF Next, Request

LEMMA HistoryStepIsStep == [HNext]_hvars => [Next]_vars
BY DEF HNext, hvars

LEMMA LoopInvAlways == HSpec => []LoopInv
<1>1. LoopInv /\ [HNext]_hvars => LoopInv'
    BY HistoryStepIsStep, LoopInvStep
<1>2. QED
    BY <1>1, LoopInvInit, PTL DEF HSpec

\* In every reachable state of every scheduler, while the loop serves, the
\* Next of an entry is an activation of the schedule the entry has now, or a
\* pending run-immediately.
THEOREM NextAlwaysFromSchedule == HSpec => []NextFromSchedule
<1>1. LoopInv => NextFromSchedule
    BY DEF LoopInv
<1>2. QED
    BY <1>1, LoopInvAlways, PTL
-----------------------------------------------------------------------------
(* What holds of the entry of every run.                                   *)

\* Where a run can come from, and what the step does with its entry.
LEMMA RunOrigin ==
    ASSUME LoopInv, Next, NEW r \in started'
    PROVE  \/ /\ r.kind = "catchup" /\ r.id \in heap /\ loop = "starting"
              /\ r.at \in CatchUps(entry[r.id], clock)
              /\ entry'[r.id] = TakeOver(entry[r.id], clock)
              /\ clock' = clock
           \/ /\ r.kind = "catchup" /\ r.id = nextID + 1 /\ r.id \in Ids /\ nextID' = r.id
              /\ \E spec \in JobSpecs :
                    /\ r.at \in CatchUps(NewEntry(spec), clock)
                    /\ entry'[r.id] = TakeOver(NewEntry(spec), clock)
           \/ /\ r.kind = "manual" /\ r.id \in heap /\ ~entry[r.id].paused
              /\ entry'[r.id].ctxLive = entry[r.id].ctxLive
              /\ entry[r.id].runOnce => r.id \notin heap' \union entryIndex'
           \/ /\ r.id \in heap /\ ~entry[r.id].paused
              /\ Wake /\ RunsAt(r.id, timer.fired) /\ r = DueRun(r.id, entry[r.id])
              /\ entry'[r.id].ctxLive = entry[r.id].ctxLive
              /\ entry[r.id].runOnce => r.id \notin heap' \union entryIndex'
<1> USE HeapIsHandedOut
<1>1. ASSUME NEW spec \in JobSpecs, AddEntry(spec)
      PROVE  /\ r.kind = "catchup" /\ r.id = nextID + 1 /\ r.id \in Ids /\ nextID' = r.id
             /\ r.at \in CatchUps(NewEntry(spec), clock)
             /\ entry'[r.id] = TakeOver(NewEntry(spec), clock)
    <2>1. running /\ r \in CatchUpRuns(nextID + 1, NewEntry(spec), clock)
        BY <1>1 DEF AddEntry
    <2>2. r.kind = "catchup" /\ r.id = nextID + 1 /\ r.at \in CatchUps(NewEntry(spec), clock)
        BY <2>1 DEF CatchUpRuns
    <2>3. nextID + 1 \in Ids /\ nextID' = nextID + 1
        BY <1>1, ConstantsAssumption DEF AddEntry, LoopInv, Inv, TypeOK, Ids
    <2>4. entry'[nextID + 1] = TakeOver(NewEntry(spec), clock)
        BY <1>1, <2>1, <2>3 DEF AddEntry, LoopInv, Inv, TypeOK
    <2>5. QED
        BY <2>2, <2>3, <2>4
<1>2. ASSUME NEW id \in Ids, Trigger(id)
      PROVE  /\ r.kind = "manual" /\ r.id \in heap /\ ~entry[r.id].paused
             /\ entry'[r.id].ctxLive = entry[r.id].ctxLive
             /\ entry[r.id].runOnce => r.id \notin heap' \union entryIndex'
    <2>1. r.kind = "manual" /\ r.id = id /\ id \in heap /\ ~entry[id].paused
        BY <1>2 DEF Trigger, Runnable
    <2>2. entry'[id].ctxLive = entry[id].ctxLive
        BY <1>2 DEF Trigger, LoopInv, Inv, TypeOK, Entry
    <2>3. ASSUME entry[id].runOnce PROVE id \notin heap' \union entryIndex'
        BY <1>2, <2>1, <2>3 DEF Trigger, RemoveEntries, Found
    <2>4. QED
        BY <2>1, <2>2, <2>3
<1>3. ASSUME RunInit
      PROVE  /\ r.kind = "catchup" /\ r.id \in heap /\ loop = "starting"
             /\ r.at \in CatchUps(entry[r.id], clock)
             /\ entry'[r.id] = TakeOver(entry[r.id], clock)
             /\ clock' = clock
    <2>1. PICK i \in heap : r \in CatchUpRuns(i, entry[i], clock)
        BY <1>3 DEF RunInit
    <2>2. r.kind = "catchup" /\ r.id = i /\ r.at \in CatchUps(entry[i], clock)
        BY <2>1 DEF CatchUpRuns
    <2>3. entry'[i] = TakeOver(entry[i], clock) /\ loop = "starting" /\ clock' = clock
        BY <1>3 DEF RunInit
    <2>4. QED
        BY <2>1, <2>2, <2>3
<1>4. ASSUME Wake
      PROVE  /\ r.id \in heap /\ ~entry[r.id].paused
             /\ RunsAt(r.id, timer.fired) /\ r = DueRun(r.id, entry[r.id])
             /\ entry'[r.id].ctxLive = entry[r.id].ctxLive
             /\ entry[r.id].runOnce => r.id \notin heap' \union entryIndex'
    <2>1. TypeOK /\ IndexesAgree
        BY DEF LoopInv, Inv
    <2>2. PICK i \in heap : RunsAt(i, timer.fired) /\ r = DueRun(i, entry[i])
        <3>1. started' = {DueRun(i, entry[i]) : i \in {j \in heap : RunsAt(j, timer.fired)}}
            BY <1>4, <2>1, WakeEffect
        <3>2. QED
            BY <3>1
    <2>3. r.id = i /\ ~entry[i].paused
        BY <2>2 DEF DueRun, RunsAt
    <2>4. entry'[i].ctxLive = entry[i].ctxLive
        BY <1>4, <2>1, WakeKeepsEntry DEF SameEntry
    <2>5. entry[i].runOnce => i \notin heap' \union entryIndex'
        BY <1>4, <2>1, <2>2, WakeEffect
    <2>6. QED
        BY <2>2, <2>3, <2>4, <2>5
<1>5. ASSUME started' = {} PROVE FALSE
    BY <1>5
<1>6. QED
    BY <1>1, <1>2, <1>3, <1>4, <1>5
       DEF Next, Request, AddDuplicateName, Remove, Update, SetPaused, Start, Stop, TimerFire,
           Tick, ClockBack

PausedStep    == \A r \in started' : r.kind = "catchup" \/ ~entry[r.id].paused
ContextStep   == ~baseCancelled => \A r \in started' : entry'[r.id].ctxLive
RunOnceStep   == \A r \in started' : entry[r.id].runOnce => r.id \notin heap' \union entryIndex'

LEMMA EntryOfRun ==
    ASSUME LoopInv, Next
    PROVE  PausedStep /\ ContextStep /\ RunOnceStep
<1> SUFFICES ASSUME NEW r \in started'
             PROVE  /\ r.kind = "catchup" \/ ~entry[r.id].paused
                    /\ ~baseCancelled => entry'[r.id].ctxLive
                    /\ entry[r.id].runOnce => r.id \notin heap' \union entryIndex'
    BY DEF PausedStep, ContextStep, RunOnceStep
<1> USE HeapIsHandedOut
<1>0. /\ clock \in Times
      /\ \A i \in heap : ~baseCancelled => entry[i].ctxLive
      /\ \A i \in Ids : i > nextID => ~entry[i].runOnce
    BY DEF LoopInv, Inv, TypeOK, ContextLive, FreshSlots
<1>1. CASE /\ r.kind = "catchup" /\ r.id \in heap
           /\ r.at \in CatchUps(entry[r.id], clock)
           /\ entry'[r.id] = TakeOver(entry[r.id], clock)
    <2>1. ~entry[r.id].runOnce /\ entry'[r.id].ctxLive = entry[r.id].ctxLive
        BY <1>0, <1>1, CatchUpFacts, TakeOverFacts DEF SameEntry
    <2>2. QED
        BY <1>0, <1>1, <2>1
<1>2. CASE /\ r.kind = "catchup" /\ r.id = nextID + 1 /\ r.id \in Ids
           /\ \E spec \in JobSpecs : entry'[r.id] = TakeOver(NewEntry(spec), clock)
    <2>1. PICK spec \in JobSpecs : entry'[r.id] = TakeOver(NewEntry(spec), clock)
        BY <1>2
    <2>2. NewEntry(spec) \in Entry /\ NewEntry(spec).ctxLive = ~baseCancelled
        BY NewEntryType DEF NewEntry, LoopInv, Inv
    <2>3. entry'[r.id].ctxLive = ~baseCancelled
        BY <1>0, <2>1, <2>2, TakeOverFacts DEF SameEntry
    <2>4. r.id > nextID
        BY <1>2 DEF LoopInv, Inv, TypeOK
    <2>5. QED
        BY <1>0, <1>2, <2>3, <2>4
<1>3. CASE /\ r.id \in heap /\ ~entry[r.id].paused
           /\ entry'[r.id].ctxLive = entry[r.id].ctxLive
           /\ entry[r.id].runOnce => r.id \notin heap' \union entryIndex'
    BY <1>0, <1>3
<1>4. QED
    BY <1>1, <1>2, <1>3, RunOrigin

LEMMA EntryOfEveryRun == HSpec => [][PausedStep /\ ContextStep /\ RunOnceStep]_hvars
<1>1. LoopInv /\ [HNext]_hvars => [PausedStep /\ ContextStep /\ RunOnceStep]_hvars
    BY EntryOfRun DEF HNext
<1>2. QED
    BY <1>1, LoopInvAlways, PTL DEF HSpec

\* Only a catch-up runs a paused entry, in every behaviour of every scheduler.
THEOREM PausedNeverScheduled == HSpec => PausedRunsOnlyCatchUp
<1>1. [PausedStep /\ ContextStep /\ RunOnceStep]_hvars =>
          [\A r \in started' : r.kind = "catchup" \/ ~entry[r.id].paused]_hvars
    BY DEF PausedStep
<1>2. QED
    BY <1>1, EntryOfEveryRun, PTL DEF PausedRunsOnlyCatchUp

\* Until Stop cancels the base context, every run of every entry starts with
\* a context that is not cancelled.
THEOREM RunsAlwaysStartUncancelled == HSpec => RunStartsUncancelled
<1>1. [PausedStep /\ ContextStep /\ RunOnceStep]_hvars =>
          [~baseCancelled => \A r \in started' : entry'[r.id].ctxLive]_hvars
    BY DEF ContextStep
<1>2. QED
    BY <1>1, EntryOfEveryRun, PTL DEF RunStartsUncancelled

\* A run-once entry leaves both the heap and the index in the step that runs
\* it, so it never runs twice, whoever launches the run.
THEOREM RunOnceAlwaysLeaves == HSpec => RunOnceLeaves
<1>1. [PausedStep /\ ContextStep /\ RunOnceStep]_hvars =>
          [\A r \in started' : entry[r.id].runOnce =>
               r.id \notin heap' \union entryIndex']_hvars
    BY DEF RunOnceStep
<1>2. QED
    BY <1>1, EntryOfEveryRun, PTL DEF RunOnceLeaves
-----------------------------------------------------------------------------
(* No activation runs twice.  NoActivationTwice needs four facts about the  *)
(* clock, the timer, Prev and Next that hold as long as the clock has not   *)
(* jumped: no activation that ran lies after the clock, nor after a wake    *)
(* the timer has sent and the loop not yet received, however stale; Prev    *)
(* covers them (what catch-ups start from) and Next is after them (what the *)
(* loop runs), unless it stands for a run-immediately at the same time.     *)

RanTypes == ran \subseteq Ids \X Times
RanKnown == \A i \in Ids, t \in Times : <<i, t>> \in ran => i <= nextID

FiredPast == timer.fired <= clock
RanPast   == \A i \in Ids, t \in Times : <<i, t>> \in ran =>
                t <= clock /\ (timer.fired # Zero => t <= timer.fired)
PrevCovers == \A i \in heap, t \in Times : <<i, t>> \in ran => t <= entry[i].prev
NextBeyond ==
    loop = "select" =>
        \A i \in heap, t \in Times : <<i, t>> \in ran /\ entry[i].next # Zero =>
            t < entry[i].next \/ (entry[i].immediateDue /\ t = entry[i].next)

RanInv ==
    /\ LoopInv
    /\ RanTypes
    /\ RanKnown
    /\ jumps = 0 => FiredPast /\ RanPast /\ PrevCovers /\ NextBeyond

LEMMA NewRan ==
    ASSUME HNext, NEW i, NEW t, <<i, t>> \in ran'
    PROVE  <<i, t>> \in ran \/ \E r \in started' : OfSchedule(r) /\ r.id = i /\ r.at = t
BY DEF HNext

LEMMA NothingRan ==
    ASSUME HNext, \A r \in started' : ~OfSchedule(r)
    PROVE  ran' = ran
BY DEF HNext

\* The clock, a wake and the numbers of a type-correct state.
LEMMA RanNumbers ==
    ASSUME RanInv
    PROVE  /\ clock \in Times /\ clock \in Nat /\ Times \subseteq Nat
           /\ nextID \in Nat /\ Ids \subseteq Nat
           /\ timer.fired \in Times \union {Zero} /\ timer.fired \in Nat
           /\ \A i \in heap : i \in Ids /\ entry[i] \in Entry /\ i <= nextID
<1>1. TypeOK /\ IndexesAgree
    BY DEF RanInv, LoopInv, Inv
<1>2. clock \in Times /\ timer.fired \in Times \union {Zero} /\ nextID \in Nat
    BY <1>1 DEF TypeOK
<1>3. Times \subseteq Nat /\ Ids \subseteq Nat
    BY TimesAreNaturals DEF Ids
<1>4. \A i \in heap : i \in Ids /\ entry[i] \in Entry /\ i <= nextID
    BY <1>1 DEF TypeOK, IndexesAgree
<1>5. timer.fired \in Nat
    <2>1. CASE timer.fired = Zero
        BY <2>1 DEF Zero
    <2>2. CASE timer.fired \in Times
        BY <2>2, <1>3, Zenon
    <2>3. QED
        BY <1>2, <2>1, <2>2
<1>6. QED
    BY <1>2, <1>3, <1>4, <1>5

\* A Next planned after a time that no activation passed is after them all.
LEMMA PlannedBeyond ==
    ASSUME NEW f, NEW now \in Nat, PlannedAfter(f, now), NEW t \in Nat, t <= now,
           f.sched \subseteq Times, f.next # Zero
    PROVE  t < f.next \/ (f.immediateDue /\ t = f.next)
<1>1. CASE f.next \in f.sched /\ f.next > now
    <2>1. f.next \in Nat
        BY <1>1, TimesAreNaturals
    <2>2. QED
        BY <1>1, <2>1
<1>2. CASE f.immediateDue /\ f.next = now
    BY <1>2
<1>3. QED
    BY <1>1, <1>2 DEF PlannedAfter

\* A step that runs no activation.
LEMMA SilentStep ==
    ASSUME RanInv, LoopInv', ran' = ran, jumps = 0,
           nextID' = nextID, heap' \subseteq heap, clock' \in Nat, clock' >= clock,
           timer'.fired \in {Zero, timer.fired, clock},
           \A i \in heap' : entry'[i].prev \in {entry[i].prev, clock},
           loop' = "select" =>
               \A i \in heap' : \/ PlannedAfter(entry'[i], clock)
                                \/ /\ loop = "select"
                                   /\ entry'[i].next = entry[i].next
                                   /\ entry'[i].immediateDue = entry[i].immediateDue
    PROVE  RanInv'
<1>1. FiredPast /\ RanPast /\ PrevCovers /\ NextBeyond /\ RanTypes /\ RanKnown
    BY DEF RanInv
<1>2. FiredPast'
    BY <1>1, RanNumbers DEF FiredPast, Zero
<1>3. ASSUME NEW i \in Ids, NEW t \in Times, <<i, t>> \in ran
      PROVE  t <= clock /\ t <= clock' /\ (timer'.fired # Zero => t <= timer'.fired)
    <2>1. t <= clock /\ (timer.fired # Zero => t <= timer.fired)
        BY <1>1, <1>3 DEF RanPast
    <2>2. t \in Nat /\ clock \in Nat
        BY RanNumbers
    <2>3. QED
        BY <2>1, <2>2
<1>4. RanPast'
    BY <1>3 DEF RanPast
<1>5. PrevCovers'
    BY <1>1, <1>3, RanNumbers DEF PrevCovers
<1>6. NextBeyond'
    <2>1. SUFFICES ASSUME loop' = "select", NEW i \in heap', NEW t \in Times,
                          <<i, t>> \in ran, entry'[i].next # Zero
                   PROVE  t < entry'[i].next \/ (entry'[i].immediateDue /\ t = entry'[i].next)
        BY DEF NextBeyond
    <2>2. i \in heap /\ i \in Ids /\ t \in Nat /\ clock \in Nat
        BY RanNumbers
    <2>3. CASE PlannedAfter(entry'[i], clock)
        <3>1. entry'[i].sched \subseteq Times
            BY <2>1, <2>2 DEF LoopInv, Inv, TypeOK, Entry
        <3>2. t <= clock
            BY <1>3, <2>1, <2>2
        <3>3. QED
            BY <2>1, <2>2, <2>3, <3>1, <3>2, PlannedBeyond
    <2>4. CASE loop = "select" /\ entry'[i].next = entry[i].next
                               /\ entry'[i].immediateDue = entry[i].immediateDue
        BY <1>1, <2>1, <2>2, <2>4 DEF NextBeyond
    <2>5. QED
        BY <2>1, <2>3, <2>4
<1>7. RanTypes' /\ RanKnown'
    BY <1>1 DEF RanTypes, RanKnown
<1>8. QED
    BY <1>2, <1>4, <1>5, <1>6, <1>7 DEF RanInv

\* After RunInit every activation that ran is at or before the clock, the
\* catch-ups included, and every Next is planned from the clock on.
LEMMA RunInitKeepsRanInv ==
    ASSUME RanInv, LoopInv', HNext, RunInit, jumps = 0
    PROVE  RanInv'
<1>1. FiredPast /\ RanPast /\ PrevCovers /\ NextBeyond /\ RanTypes /\ RanKnown
    BY DEF RanInv
<1>2. /\ \A i \in heap : entry'[i] = TakeOver(entry[i], clock)
      /\ UNCHANGED <<heap, nextID, clock>> /\ timer'.fired = Zero
    <2>1. heap \subseteq Ids
        BY RanNumbers
    <2>2. QED
        BY <2>1 DEF RunInit, Arm
<1>3. ASSUME NEW i, NEW t, <<i, t>> \in ran', <<i, t>> \notin ran
      PROVE  i \in heap /\ t \in CatchUps(entry[i], clock)
    <2>1. PICK r \in started' : r.id = i /\ r.at = t
        BY <1>3, NewRan
    <2>2. PICK j \in heap : r \in CatchUpRuns(j, entry[j], clock)
        BY <2>1 DEF RunInit
    <2>3. QED
        BY <2>1, <2>2 DEF CatchUpRuns
<1>4. ASSUME NEW i, NEW t, <<i, t>> \in ran'
      PROVE  /\ i \in Ids /\ t \in Times /\ i <= nextID /\ t <= clock
             /\ i \in heap => t <= entry'[i].prev
    <2>1. CASE <<i, t>> \in ran
        <3>1. i \in Ids /\ t \in Times /\ i <= nextID /\ t <= clock
            BY <1>1, <2>1 DEF RanTypes, RanKnown, RanPast
        <3>2. ASSUME i \in heap PROVE t <= entry'[i].prev
            <4>1. t <= entry[i].prev
                BY <1>1, <2>1, <3>1, <3>2 DEF PrevCovers
            <4>2. entry[i] \in Entry /\ clock \in Times /\ t \in Nat
                BY <3>1, <3>2, RanNumbers
            <4>3. entry'[i] \in Entry
                BY <1>2, <3>2, <4>2, TakeOverType
            <4>4. entry[i].prev \in Nat /\ entry'[i].prev \in Nat
                BY <4>2, <4>3, PrevIsNatural
            <4>5. entry'[i].prev >= entry[i].prev
                BY <1>2, <3>2, <4>2, TakeOverFacts
            <4>6. QED
                BY <4>1, <4>2, <4>4, <4>5
        <3>3. QED
            BY <3>1, <3>2
    <2>2. CASE <<i, t>> \notin ran
        <3>1. i \in heap /\ t \in CatchUps(entry[i], clock)
            BY <1>3, <1>4, <2>2
        <3>2. i \in Ids /\ i <= nextID /\ entry[i] \in Entry /\ clock \in Times /\ Times \subseteq Nat
            BY <3>1, RanNumbers
        <3>3. t \in Times /\ t < clock
            BY <3>1, <3>2, CatchUpFacts
        <3>4. t <= entry'[i].prev
            BY <1>2, <3>1, <3>2, TakeOverFacts
        <3>5. QED
            BY <3>1, <3>2, <3>3, <3>4
    <2>3. QED
        BY <2>1, <2>2
<1>5. RanTypes' /\ RanKnown' /\ RanPast' /\ PrevCovers'
    <2>1. ran' \subseteq Ids \X Times
        <3>1. \A x \in ran' : \E i, t : x = <<i, t>>
            BY <1>1 DEF HNext, RanTypes
        <3>2. QED
            BY <1>4, <3>1
    <2>2. QED
        BY <1>2, <1>4, <2>1 DEF RanTypes, RanKnown, RanPast, PrevCovers
<1>6. FiredPast'
    BY <1>2, RanNumbers DEF FiredPast, Zero
<1>7. NextBeyond'
    <2>1. SUFFICES ASSUME NEW i \in heap, NEW t \in Times,
                          <<i, t>> \in ran', entry'[i].next # Zero
                   PROVE  t < entry'[i].next \/ (entry'[i].immediateDue /\ t = entry'[i].next)
        BY <1>2 DEF NextBeyond
    <2>2. entry[i] \in Entry /\ clock \in Times /\ clock \in Nat /\ t \in Nat /\ t <= clock
        BY <1>4, <2>1, RanNumbers
    <2>3. PlannedAfter(entry'[i], clock)
        BY <1>2, <2>2, TakeOverFacts
    <2>4. entry'[i].sched \subseteq Times
        BY <1>2, <2>2, TakeOverType DEF Entry
    <2>5. QED
        BY <2>1, <2>2, <2>3, <2>4, PlannedBeyond
<1>8. QED
    BY <1>5, <1>6, <1>7 DEF RanInv

\* A new entry has run nothing: its ID is new, and what it catches up its own
\* Prev covers.
LEMMA AdditionKeepsRanInv ==
    ASSUME RanInv, LoopInv', HNext, NEW spec \in JobSpecs, AddEntry(spec), jumps = 0
    PROVE  RanInv'
<1> DEFINE id == nextID + 1
           e == NewEntry(spec)
<1>1. FiredPast /\ RanPast /\ PrevCovers /\ NextBeyond /\ RanTypes /\ RanKnown
    BY DEF RanInv
<1>2. id \in Ids /\ e \in Entry /\ clock \in Times /\ nextID \in Nat
    BY NewEntryType, ConstantsAssumption
       DEF AddEntry, RanInv, LoopInv, Inv, TypeOK, Ids
<1>3. /\ heap' = heap \union {id} /\ nextID' = id
      /\ UNCHANGED <<clock, running, loop>>
      /\ entry' = [entry EXCEPT ![id] = IF running THEN TakeOver(e, clock) ELSE e]
      /\ started' = IF running THEN CatchUpRuns(id, e, clock) ELSE {}
      /\ timer'.fired = (IF running THEN Zero ELSE timer.fired)
    BY DEF AddEntry, ReArm, Arm
<1>4. \A i \in Ids : entry'[i] = IF i # id THEN entry[i]
                                 ELSE IF running THEN TakeOver(e, clock) ELSE e
    BY <1>2, <1>3 DEF RanInv, LoopInv, Inv, TypeOK
<1>5. \A i \in Ids, t \in Times : <<i, t>> \in ran => i # id /\ i <= id
    <2>1. ASSUME NEW i \in Ids, NEW t \in Times, <<i, t>> \in ran
          PROVE  i # id /\ i <= id
        <3>1. i <= nextID /\ i \in Nat
            BY <1>1, <2>1, RanNumbers DEF RanKnown
        <3>2. QED
            BY <1>2, <3>1
    <2>2. QED
        BY <2>1
<1>6. heap \subseteq Ids /\ id \notin heap
    BY <1>2, RanNumbers
<1> HIDE DEF id, e
<1>7. ASSUME NEW i, NEW t, <<i, t>> \in ran', <<i, t>> \notin ran
      PROVE  i = id /\ running /\ t \in CatchUps(e, clock)
    <2>1. PICK r \in started' : r.id = i /\ r.at = t
        BY <1>7, NewRan
    <2>2. QED
        BY <1>3, <2>1 DEF CatchUpRuns
<1>8. ASSUME NEW i, NEW t, <<i, t>> \in ran'
      PROVE  /\ i \in Ids /\ t \in Times /\ i <= id /\ t <= clock
             /\ timer'.fired # Zero => t <= timer'.fired
             /\ i \in heap' => t <= entry'[i].prev
    <2>1. CASE <<i, t>> \in ran
        <3>1. i \in Ids /\ t \in Times
            BY <1>1, <2>1 DEF RanTypes
        <3>2. i # id /\ i <= id
            BY <1>5, <2>1, <3>1
        <3>3. t <= clock /\ (timer.fired # Zero => t <= timer.fired)
            BY <1>1, <2>1, <3>1 DEF RanPast
        <3>4. i \in heap' => t <= entry'[i].prev
            BY <1>1, <1>3, <1>4, <2>1, <3>1, <3>2 DEF PrevCovers
        <3>5. QED
            BY <1>3, <3>1, <3>2, <3>3, <3>4
    <2>2. CASE <<i, t>> \notin ran
        <3>1. i = id /\ running /\ t \in CatchUps(e, clock)
            BY <1>7, <1>8, <2>2
        <3>2. t \in Times /\ t < clock /\ t \in Nat /\ clock \in Nat /\ id \in Nat
            BY <1>2, <3>1, CatchUpFacts, RanNumbers
        <3>3. t <= entry'[i].prev
            BY <1>2, <1>4, <3>1, TakeOverFacts
        <3>4. QED
            BY <1>2, <1>3, <3>1, <3>2, <3>3
    <2>3. QED
        BY <2>1, <2>2
<1>9. RanTypes' /\ RanKnown' /\ RanPast' /\ PrevCovers'
    <2>1. ran' \subseteq Ids \X Times
        <3>1. \A x \in ran' : \E i, t : x = <<i, t>>
            BY <1>1 DEF HNext, RanTypes
        <3>2. QED
            BY <1>8, <3>1
    <2>2. QED
        BY <1>3, <1>8, <2>1 DEF RanTypes, RanKnown, RanPast, PrevCovers
<1>10. FiredPast'
    BY <1>1, <1>3, RanNumbers DEF FiredPast, Zero
<1>11. NextBeyond'
    <2>1. SUFFICES ASSUME loop = "select", NEW i \in heap', NEW t \in Times,
                          <<i, t>> \in ran', entry'[i].next # Zero
                   PROVE  t < entry'[i].next \/ (entry'[i].immediateDue /\ t = entry'[i].next)
        BY <1>3 DEF NextBeyond
    <2>2. running
        BY <2>1 DEF RanInv, LoopInv, LoopRuns
    <2>3. CASE i = id
        <3>1. entry'[i] = TakeOver(e, clock)
            BY <1>2, <1>4, <2>2, <2>3
        <3>2. PlannedAfter(entry'[i], clock) /\ entry'[i].sched \subseteq Times
            BY <1>2, <3>1, TakeOverFacts, TakeOverType DEF Entry
        <3>3. t \in Nat /\ clock \in Nat /\ t <= clock
            BY <1>8, <2>1, RanNumbers
        <3>4. QED
            BY <2>1, <3>2, <3>3, PlannedBeyond
    <2>4. CASE i # id
        <3>1. i \in heap /\ entry'[i] = entry[i]
            BY <1>3, <1>4, <1>6, <2>4
        <3>2. <<i, t>> \in ran
            BY <1>7, <2>1, <2>4
        <3>3. QED
            BY <1>1, <2>1, <3>1, <3>2 DEF NextBeyond
    <2>5. QED
        BY <2>3, <2>4
<1>12. QED
    BY <1>9, <1>10, <1>11 DEF RanInv

\* A wake, however stale, runs activations up to its own time and plans the
\* next ones after it; nothing that ran before lies in between.
LEMMA WakeKeepsRanInv ==
    ASSUME RanInv, LoopInv', HNext, Wake, jumps = 0
    PROVE  RanInv'
<1> DEFINE now == timer.fired
<1>1. FiredPast /\ RanPast /\ PrevCovers /\ NextBeyond /\ RanTypes /\ RanKnown
    BY DEF RanInv
<1>2. TypeOK /\ IndexesAgree
    BY SMTT(60) DEF RanInv, LoopInv, Inv
<1>3. /\ now \in Times /\ now \in Nat /\ now # Zero /\ now <= clock
      /\ heap' \subseteq heap /\ nextID' = nextID /\ clock' = clock
      /\ loop = "select" /\ loop' = "select" /\ timer'.fired = Zero
    BY <1>1, <1>2, WakeEffect, RanNumbers DEF Wake, RemoveEntries, Arm, FiredPast
<1>4. ASSUME NEW i \in heap, RunsAt(i, now)
      PROVE  entry[i].next \in Times /\ entry[i].next <= now /\ entry[i].next # Zero
    BY <1>4, RanNumbers DEF RunsAt, IsDue, Entry
<1>5. ASSUME NEW i, NEW t, <<i, t>> \in ran', <<i, t>> \notin ran
      PROVE  i \in heap /\ RunsAt(i, now) /\ t = entry[i].next
    <2>1. PICK r \in started' : r.id = i /\ r.at = t
        BY <1>5, NewRan
    <2>2. started' = {DueRun(j, entry[j]) : j \in {k \in heap : RunsAt(k, now)}}
        BY <1>2, WakeEffect
    <2>3. PICK j \in heap : RunsAt(j, now) /\ r = DueRun(j, entry[j])
        BY <2>2
    <2>4. QED
        BY <2>1, <2>3 DEF DueRun
<1>6. ASSUME NEW i, NEW t, <<i, t>> \in ran'
      PROVE  i \in Ids /\ t \in Times /\ i <= nextID /\ t <= now /\ t <= clock
    <2>1. CASE <<i, t>> \in ran
        BY <1>1, <1>3, <2>1 DEF RanTypes, RanKnown, RanPast
    <2>2. CASE <<i, t>> \notin ran
        <3>1. i \in heap /\ t \in Times /\ t <= now
            BY <1>4, <1>5, <1>6, <2>2
        <3>2. i \in Ids /\ i <= nextID /\ t \in Nat /\ clock \in Nat
            BY <3>1, RanNumbers
        <3>3. QED
            BY <1>3, <3>1, <3>2
    <2>3. QED
        BY <2>1, <2>2
<1>7. ASSUME NEW i \in heap', NEW t \in Times, <<i, t>> \in ran'
      PROVE  /\ t <= entry'[i].prev
             /\ entry'[i].next # Zero =>
                    t < entry'[i].next \/ (entry'[i].immediateDue /\ t = entry'[i].next)
    <2>1. /\ i \in heap /\ i \in Ids /\ entry[i] \in Entry /\ t \in Nat /\ t <= now
          /\ Times \subseteq Nat
        BY <1>3, <1>6, <1>7, RanNumbers
    <2>2. ASSUME NEW e \in Entry, entry'[i] = Reschedule(e, now)
          PROVE  /\ entry'[i].prev = e.prev
                 /\ entry'[i].next # Zero =>
                        t < entry'[i].next \/ (entry'[i].immediateDue /\ t = entry'[i].next)
        <3>1. PlannedAfter(entry'[i], now) /\ entry'[i].prev = e.prev
            BY <1>3, <2>2, RescheduleFacts
        <3>2. entry'[i].sched \subseteq Times
            BY <1>3, <2>2, RescheduleType DEF Entry
        <3>3. QED
            BY <1>3, <2>1, <3>1, <3>2, PlannedBeyond
    <2>3. CASE RunsAt(i, now)
        <3> DEFINE e == [entry[i] EXCEPT !.prev = entry[i].next]
        <3>1. e \in Entry /\ e.prev = entry[i].next
            BY <2>1 DEF Entry
        <3>2. ~entry[i].runOnce
            BY <1>2, <2>3, WakeEffect
        <3>3. entry'[i] = Reschedule(e, now)
            BY <1>2, <2>1, <2>3, <3>2, WakeEffect
        <3> HIDE DEF e
        <3>4. t <= entry[i].next
            <4>1. entry[i].next \in Nat /\ entry[i].next # Zero
                BY <1>4, <2>1, <2>3
            <4>2. CASE <<i, t>> \in ran
                BY <1>1, <1>3, <2>1, <4>1, <4>2 DEF NextBeyond
            <4>3. CASE <<i, t>> \notin ran
                BY <1>5, <1>7, <4>1, <4>3
            <4>4. QED
                BY <4>2, <4>3
        <3>5. QED
            BY <2>2, <3>1, <3>3, <3>4
    <2>4. CASE ~RunsAt(i, now)
        <3>1. entry'[i] \in {entry[i], Reschedule(entry[i], now)}
            BY <1>2, <2>1, <2>4, WakeEffect
        <3>2. <<i, t>> \in ran
            BY <1>5, <1>7, <2>4
        <3>3. t <= entry[i].prev
            BY <1>1, <2>1, <3>2 DEF PrevCovers
        <3>4. CASE entry'[i] = entry[i]
            BY <1>1, <1>3, <2>1, <3>2, <3>3, <3>4 DEF NextBeyond
        <3>5. CASE entry'[i] = Reschedule(entry[i], now)
            BY <2>1, <2>2, <3>3, <3>5
        <3>6. QED
            BY <3>1, <3>4, <3>5
    <2>5. QED
        BY <2>3, <2>4
<1>8. RanTypes' /\ RanKnown' /\ RanPast'
    <2>1. ran' \subseteq Ids \X Times
        <3>1. \A x \in ran' : \E i, t : x = <<i, t>>
            BY <1>1 DEF HNext, RanTypes
        <3>2. QED
            BY <1>6, <3>1
    <2>2. QED
        BY <1>3, <1>6, <2>1 DEF RanTypes, RanKnown, RanPast
<1>9. PrevCovers' /\ NextBeyond'
    BY <1>7 DEF PrevCovers, NextBeyond
<1>10. FiredPast'
    BY <1>3, RanNumbers DEF FiredPast, Zero
<1>11. QED
    BY <1>8, <1>9, <1>10 DEF RanInv

LEMMA RanInvInit == HInit => RanInv
<1>1. HInit => RanTypes /\ RanKnown /\ RanPast /\ PrevCovers /\ NextBeyond
    BY DEF HInit, RanTypes, RanKnown, RanPast, PrevCovers, NextBeyond
<1>2. HInit => FiredPast
    BY DEF HInit, Init, FiredPast, Zero
<1>3. QED
    BY <1>1, <1>2, LoopInvInit DEF RanInv

LEMMA StepNumbers ==
    ASSUME Next
    PROVE  /\ nextID' \in {nextID, nextID + 1}
           /\ jumps' = jumps \/ (ClockBack /\ jumps' = jumps + 1)
<1>1. ASSUME NEW spec \in JobSpecs, AddEntry(spec) \/ AddDuplicateName(spec)
      PROVE  nextID' \in {nextID, nextID + 1} /\ jumps' = jumps
    BY <1>1 DEF AddEntry, AddDuplicateName
<1>2. ASSUME NEW id \in Ids, Remove(id) \/ Trigger(id)
      PROVE  nextID' = nextID /\ jumps' = jumps
    BY <1>2 DEF Remove, Trigger, RemoveEntries
<1>3. ASSUME NEW id \in Ids, NEW pause \in BOOLEAN, SetPaused(id, pause)
      PROVE  nextID' = nextID /\ jumps' = jumps
    BY <1>3 DEF SetPaused
<1>4. ASSUME NEW id \in Ids, NEW sched \in Schedules, NEW newJob \in BOOLEAN,
             Update(id, sched, newJob)
      PROVE  nextID' = nextID /\ jumps' = jumps
    BY <1>4 DEF Update
<1>5. CASE Start \/ RunInit \/ Stop \/ TimerFire \/ Tick
    BY <1>5 DEF Start, RunInit, Stop, TimerFire, Tick, table
<1>6. CASE Wake
    BY <1>6 DEF Wake, RemoveEntries
<1>7. CASE ClockBack
    BY <1>7 DEF ClockBack, table
<1>8. QED
    BY <1>1, <1>2, <1>3, <1>4, <1>5, <1>6, <1>7 DEF Next, Request

\* Once the clock has jumped, only the types and the IDs of ran are kept.
LEMMA AfterJumps ==
    ASSUME RanInv, LoopInv', HNext, jumps' # 0
    PROVE  RanInv'
<1>1. RanTypes'
    <2>1. started' \subseteq [id : Ids, kind : Kinds, at : Times]
        BY DEF LoopInv, Inv, TypeOK
    <2>2. QED
        BY <2>1 DEF RanInv, RanTypes, HNext
<1>2. nextID' \in Nat /\ nextID \in Nat /\ nextID' >= nextID
    BY StepNumbers, RanNumbers DEF HNext
<1>3. ASSUME NEW i \in Ids, NEW t \in Times, <<i, t>> \in ran'
      PROVE  i <= nextID'
    <2>1. i \in Nat
        BY DEF Ids
    <2>2. CASE <<i, t>> \in ran
        BY <1>2, <2>1, <2>2 DEF RanInv, RanKnown
    <2>3. CASE <<i, t>> \notin ran
        <3>1. PICK r \in started' : r.id = i
            BY <1>3, <2>3, NewRan
        <3>2. i \in heap \/ i = nextID'
            BY <3>1, RunOrigin DEF RanInv, HNext
        <3>3. i \in heap => i <= nextID
            BY RanNumbers
        <3>4. QED
            BY <1>2, <2>1, <3>2, <3>3
    <2>4. QED
        BY <2>2, <2>3
<1>4. QED
    BY <1>1, <1>3 DEF RanInv, RanKnown

LEMMA RanInvStep ==
    ASSUME RanInv, [HNext]_hvars
    PROVE  RanInv'
<1>1. LoopInv'
    BY LoopInvStep, HistoryStepIsStep DEF RanInv
<1>2. CASE UNCHANGED hvars
    BY <1>1, <1>2 DEF hvars, vars, table, RanInv, RanTypes, RanKnown, FiredPast, RanPast,
       PrevCovers, NextBeyond
<1>3. CASE HNext /\ jumps' # 0
    BY <1>1, <1>3, AfterJumps
<1>4. CASE HNext /\ jumps' = 0
    <2> USE RanNumbers
    <2>1. jumps = 0 /\ ~ClockBack
        <3>1. jumps \in Nat
            BY DEF RanInv, LoopInv, Inv, TypeOK
        <3>2. ClockBack => jumps' = jumps + 1
            BY DEF ClockBack
        <3>3. QED
            BY <1>4, <3>1, <3>2, StepNumbers DEF HNext
    <2>2. started' = {} => ran' = ran
        BY <1>4, NothingRan
    <2>3. ASSUME NEW spec \in JobSpecs, AddEntry(spec) PROVE RanInv'
        BY <1>1, <1>4, <2>1, <2>3, AdditionKeepsRanInv
    <2>4. ASSUME NEW spec \in JobSpecs, AddDuplicateName(spec) PROVE RanInv'
        BY <1>1, <2>1, <2>2, <2>4, SilentStep DEF AddDuplicateName, KeepTimer
    <2>5. ASSUME NEW id \in Ids, Remove(id) PROVE RanInv'
        <3>1. /\ ran' = ran /\ UNCHANGED <<nextID, clock, loop>> /\ heap' \subseteq heap
              /\ timer'.fired \in {Zero, timer.fired}
            BY <2>2, <2>5 DEF Remove, RemoveEntries, ReArm, Arm
        <3>2. \A i \in heap : /\ entry'[i].prev = entry[i].prev
                              /\ entry'[i].next = entry[i].next
                              /\ entry'[i].immediateDue = entry[i].immediateDue
            BY <2>5 DEF Remove, RanInv, LoopInv, Inv, TypeOK, Entry
        <3>3. QED
            BY <1>1, <2>1, <3>1, <3>2, SilentStep
    <2>6. ASSUME NEW id \in Ids, NEW sched \in Schedules, NEW newJob \in BOOLEAN,
                 Update(id, sched, newJob)
          PROVE  RanInv'
        <3> DEFINE e == [entry[id] EXCEPT !.sched = sched,
                                          !.ctxLive = IF newJob THEN ~baseCancelled ELSE @]
        <3>1. /\ ran' = ran /\ UNCHANGED <<nextID, clock, loop, heap>>
              /\ timer'.fired \in {Zero, timer.fired}
            BY <2>2, <2>6 DEF Update, ReArm, Arm
        <3>2. entry' = [entry EXCEPT ![id] = IF running THEN ScheduleEntryNext(e, clock) ELSE e]
            BY <2>6 DEF Update
        <3>3. e \in Entry
            <4>1. sched \in SUBSET Times /\ entry[id] \in Entry /\ id \in heap
                BY <2>6, ConstantsAssumption, Zenon
                   DEF Update, RanInv, LoopInv, Inv, TypeOK, IndexesAgree
            <4>2. (IF newJob THEN ~baseCancelled ELSE entry[id].ctxLive) \in BOOLEAN
                BY <4>1 DEF Entry, RanInv, LoopInv, Inv, TypeOK
            <4>3. QED
                BY <4>1, <4>2, ZenonT(60) DEF Entry
        <3>4. e.prev = entry[id].prev
            BY DEF RanInv, LoopInv, Inv, TypeOK, Entry
        <3> HIDE DEF e
        <3>5. /\ ScheduleEntryNext(e, clock).prev = entry[id].prev
              /\ PlannedAfter(ScheduleEntryNext(e, clock), clock)
            BY <3>3, <3>4, ScheduleEntryNextFacts
        <3>6. ASSUME NEW i \in heap
              PROVE  /\ entry'[i].prev = entry[i].prev
                     /\ running => entry'[i] = entry[i] \/ PlannedAfter(entry'[i], clock)
            BY <3>2, <3>4, <3>5 DEF RanInv, LoopInv, Inv, TypeOK
        <3>7. loop = "select" => running
            BY DEF RanInv, LoopInv, LoopRuns
        <3>8. QED
            BY <1>1, <2>1, <3>1, <3>6, <3>7, SilentStep
    <2>7. ASSUME NEW id \in Ids, NEW pause \in BOOLEAN, SetPaused(id, pause) PROVE RanInv'
        <3>1. ran' = ran /\ UNCHANGED <<nextID, clock, loop, heap, timer>>
            BY <2>2, <2>7 DEF SetPaused, KeepTimer
        <3>2. \A i \in heap : /\ entry'[i].prev = entry[i].prev
                              /\ entry'[i].next = entry[i].next
                              /\ entry'[i].immediateDue = entry[i].immediateDue
            BY <2>7 DEF SetPaused, RanInv, LoopInv, Inv, TypeOK, Entry
        <3>3. QED
            BY <1>1, <2>1, <3>1, <3>2, SilentStep
    <2>8. ASSUME NEW id \in Ids, Trigger(id) PROVE RanInv'
        <3>1. ran' = ran
            BY <1>4, <2>8, NothingRan DEF Trigger, OfSchedule
        <3>2. UNCHANGED <<nextID, clock, loop, timer>> /\ heap' \subseteq heap
            BY <2>8 DEF Trigger, KeepTimer, RemoveEntries
        <3>3. \A i \in heap : /\ entry'[i].prev \in {entry[i].prev, clock}
                              /\ entry'[i].next = entry[i].next
                              /\ entry'[i].immediateDue = entry[i].immediateDue
            BY <2>8 DEF Trigger, RanInv, LoopInv, Inv, TypeOK, Entry
        <3>4. QED
            BY <1>1, <2>1, <3>1, <3>2, <3>3, SilentStep
    <2>9. CASE Start
        BY <1>1, <2>1, <2>2, <2>9, SilentStep DEF Start, table
    <2>10. CASE RunInit
        BY <1>1, <1>4, <2>1, <2>10, RunInitKeepsRanInv
    <2>11. CASE Stop
        <3>1. \A i \in heap : entry'[i].prev = entry[i].prev
            BY <2>11 DEF Stop, RanInv, LoopInv, Inv, TypeOK, Entry
        <3>2. QED
            BY <1>1, <2>1, <2>2, <2>11, <3>1, SilentStep DEF Stop
    <2>12. CASE TimerFire
        <3>1. timer'.fired = clock
            BY <2>12 DEF TimerFire, RanInv, LoopInv, Inv, TypeOK
        <3>2. QED
            BY <1>1, <2>1, <2>2, <2>12, <3>1, SilentStep DEF TimerFire, table
    <2>13. CASE Tick
        <3>1. timer'.fired = timer.fired /\ clock' \in Nat /\ clock' >= clock
            BY <2>13 DEF Tick, RanInv, LoopInv, Inv, TypeOK
        <3>2. QED
            BY <1>1, <2>1, <2>2, <2>13, <3>1, SilentStep DEF Tick, table
    <2>14. CASE Wake
        BY <1>1, <1>4, <2>1, <2>14, WakeKeepsRanInv
    <2>15. QED
        BY <1>4, <2>1, <2>3, <2>4, <2>5, <2>6, <2>7, <2>8, <2>9, <2>10, <2>11, <2>12, <2>13,
           <2>14 DEF HNext, Next, Request
<1>5. QED
    BY <1>2, <1>3, <1>4

LEMMA RanInvAlways == HSpec => []RanInv
<1>1. QED
    BY RanInvInit, RanInvStep, PTL DEF HSpec

FreshStep == jumps = 0 => \A r \in started' : OfSchedule(r) => <<r.id, r.at>> \notin ran

\* A catch-up lies after Prev, which covers what ran; the entry of an
\* addition is new; what the loop runs is its Next, which is beyond.
LEMMA FreshRuns ==
    ASSUME RanInv, LoopInv', Next
    PROVE  FreshStep
<1> SUFFICES ASSUME jumps = 0, NEW r \in started', OfSchedule(r)
             PROVE  <<r.id, r.at>> \notin ran
    BY DEF FreshStep
<1> USE RanNumbers
<1>1. PrevCovers /\ NextBeyond /\ RanKnown /\ r.at \in Times
    BY DEF RanInv, LoopInv, Inv, TypeOK
<1>2. CASE r.id \in heap /\ r.at \in CatchUps(entry[r.id], clock)
    <2>1. entry[r.id].prev < r.at /\ r.at \in Nat /\ entry[r.id].prev \in Nat
        BY <1>1, <1>2, CatchUpFacts, PrevIsNatural
    <2>2. QED
        BY <1>1, <1>2, <2>1 DEF PrevCovers
<1>3. CASE r.id = nextID + 1 /\ r.id \in Ids
    BY <1>1, <1>3 DEF RanKnown
<1>4. CASE Wake /\ r.id \in heap /\ RunsAt(r.id, timer.fired) /\ r = DueRun(r.id, entry[r.id])
    <2>1. r.at = entry[r.id].next /\ ~entry[r.id].immediateDue
        BY <1>4 DEF DueRun, OfSchedule
    <2>2. loop = "select" /\ entry[r.id].next # Zero
        BY <1>4 DEF Wake, RunsAt, IsDue
    <2>3. r.at \in Nat
        BY <1>1
    <2>4. QED
        BY <1>1, <1>4, <2>1, <2>2, <2>3 DEF NextBeyond
<1>5. r.kind # "manual"
    BY DEF OfSchedule
<1>6. QED
    BY <1>2, <1>3, <1>4, <1>5, RunOrigin DEF RanInv

\* As long as the clock does not jump backwards no activation of an entry
\* runs twice, by schedule or catch-up, in any behaviour of any scheduler.
THEOREM NoActivationEverTwice == HSpec => NoActivationTwice
<1>1. RanInv /\ [HNext]_hvars =>
          [jumps = 0 => \A r \in started' : OfSchedule(r) => <<r.id, r.at>> \notin ran]_hvars
    BY FreshRuns, LoopInvStep, HistoryStepIsStep DEF RanInv, HNext, FreshStep
<1>2. QED
    BY <1>1, RanInvAlways, PTL DEF HSpec, NoActivationTwice
=============================================================================
