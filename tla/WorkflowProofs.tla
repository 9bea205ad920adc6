---------------------------- MODULE WorkflowProofs ----------------------------
(***************************************************************************)
(* Theorems about workflow executions, for every number of entries, every  *)
(* graph and every sequence of reports and edits.                          *)
(***************************************************************************)
EXTENDS Workflow, FiniteSetTheorems, TLAPS

\* What is proved of the graph, for the edges of the lists of children.
Proved == INSTANCE DependencyGraphProofs
              WITH nextID <- MaxEntryID, parentToChildren <- ChildSets

-----------------------------------------------------------------------------
(* Induction and recursion over the naturals *)

LEMMA SetInduction ==
    ASSUME NEW G \in SUBSET Nat, 0 \in G, \A n \in G : n + 1 \in G
    PROVE  G = Nat
BY WorkflowAssumption, Proved!SetInduction DEF Proved!GraphAssumption

LEMMA PrimitiveRecursion ==
    ASSUME NEW S, NEW x \in S, NEW g \in [S -> S]
    PROVE  \E f \in [Nat -> S] : f[0] = x /\ \A n \in Nat : f[n + 1] = g[f[n]]
<1> DEFINE Upto(n) == {f \in [0..n -> S] : f[0] = x /\ \A m \in 0..(n - 1) : f[m + 1] = g[f[m]]}
<1>1. \A n \in Nat : Upto(n) # {}
    <2> DEFINE G == {n \in Nat : Upto(n) # {}}
    <2>1. 0 \in G
        <3>1. [m \in 0..0 |-> x] \in Upto(0)
            OBVIOUS
        <3>2. QED
            BY <3>1
    <2>2. ASSUME NEW n \in G PROVE n + 1 \in G
        <3>1. PICK f : f \in Upto(n)
            OBVIOUS
        <3> DEFINE h == [m \in 0..(n + 1) |-> IF m = n + 1 THEN g[f[n]] ELSE f[m]]
        <3>2. h \in [0..(n + 1) -> S]
            BY <3>1
        <3>3. h[0] = x
            BY <3>1
        <3>4. ASSUME NEW m \in 0..n PROVE h[m + 1] = g[h[m]]
            <4>1. CASE m = n
                BY <3>1, <4>1
            <4>2. CASE m # n
                BY <3>1, <4>2
            <4>3. QED
                BY <4>1, <4>2
        <3> HIDE DEF h
        <3>5. 0..((n + 1) - 1) = 0..n /\ n + 1 \in Nat
            OBVIOUS
        <3>6. h \in Upto(n + 1)
            BY <3>2, <3>3, <3>4, <3>5
        <3> HIDE DEF Upto
        <3>7. QED
            BY <3>5, <3>6
    <2> HIDE DEF G
    <2>3. G = Nat
        <3>1. G \in SUBSET Nat
            BY DEF G
        <3>2. QED
            BY <2>1, <2>2, <3>1, SetInduction
    <2>4. \A n \in Nat : n \in G
        BY <2>3
    <2> HIDE DEF Upto
    <2>5. QED
        BY <2>4 DEF G
<1>2. ASSUME NEW n \in Nat, NEW f \in Upto(n), NEW h \in Upto(n + 1)
      PROVE  f[n] = h[n]
    <2> DEFINE G == {m \in Nat : m <= n => f[m] = h[m]}
    <2>1. 0 \in G
        OBVIOUS
    <2>2. ASSUME NEW m \in G PROVE m + 1 \in G
        <3>1. CASE m + 1 <= n
            <4>1. m \in 0..(n - 1) /\ m \in 0..((n + 1) - 1) /\ f[m] = h[m]
                BY <3>1
            <4>2. QED
                BY <4>1
        <3>2. CASE ~(m + 1 <= n)
            BY <3>2
        <3>3. QED
            BY <3>1, <3>2
    <2> HIDE DEF G
    <2>3. G = Nat
        <3>1. G \in SUBSET Nat
            BY DEF G
        <3>2. QED
            BY <2>1, <2>2, <3>1, SetInduction
    <2>4. QED
        BY <2>3 DEF G
<1> DEFINE up(n) == CHOOSE f \in Upto(n) : TRUE
           F     == [n \in Nat |-> up(n)[n]]
<1>3. \A n \in Nat : up(n) \in Upto(n)
    BY <1>1
<1>4. F \in [Nat -> S] /\ F[0] = x
    <2>1. \A n \in Nat : up(n) \in [0..n -> S]
        BY <1>3
    <2> HIDE DEF up
    <2>2. ASSUME NEW n \in Nat PROVE up(n)[n] \in S
        <3>1. up(n) \in [0..n -> S] /\ n \in 0..n
            BY <2>1
        <3>2. QED
            BY <3>1
    <2>3. up(0)[0] = x
        BY <1>3
    <2>4. QED
        BY <2>2, <2>3
<1>5. ASSUME NEW n \in Nat PROVE F[n + 1] = g[F[n]]
    <2> HIDE DEF up
    <2>1. up(n) \in Upto(n) /\ up(n + 1) \in Upto(n + 1)
        <3> HIDE DEF Upto
        <3>1. n + 1 \in Nat
            OBVIOUS
        <3>2. QED
            BY <1>3, <3>1
    <2>2. n \in 0..((n + 1) - 1)
        OBVIOUS
    <2>3. up(n)[n] = up(n + 1)[n]
        <3> HIDE DEF Upto
        <3>1. QED
            BY <1>2, <2>1
    <2>4. up(n + 1)[n + 1] = g[up(n + 1)[n]]
        BY <2>1, <2>2
    <2>5. QED
        BY <2>3, <2>4 DEF F
<1>6. QED
    BY <1>4, <1>5

-----------------------------------------------------------------------------
(* Sequences of children *)

ChildTypes ==
    /\ DOMAIN parentToChildren = Ids
    /\ \A p \in Ids : parentToChildren[p] \in Seq(Ids) /\ IsInjective(parentToChildren[p])

\* A visit leaves an evaluation an evaluation.
LEMMA VisitType ==
    ASSUME NEW s \in Evaluation, s.rest # <<>>, ChildTypes
    PROVE  Visit(s) \in Evaluation
<1> DEFINE c       == Head(s.rest)
           others  == Tail(s.rest)
           skipped == [s.results EXCEPT ![c] = "Skipped"]
<1>1. s.rest \in Seq(Ids) /\ s.started \in Seq(Ids)
    BY DEF Evaluation
<1>2. PICK P \in SUBSET Ids : s.results \in [P -> Results]
    BY DEF Evaluation
<1>3. c \in Ids /\ others \in Seq(Ids)
    BY <1>1
<1>4. skipped \in [P -> Results]
    BY <1>2 DEF Results
<1>5. Append(s.started, c) \in Seq(Ids) /\ parentToChildren[c] \o others \in Seq(Ids)
    BY <1>1, <1>3 DEF ChildTypes
<1>6. \A r \in [P -> Results], st \in Seq(Ids), rest \in Seq(Ids) :
        [results |-> r, started |-> st, rest |-> rest] \in Evaluation
    BY DEF Evaluation
<1> HIDE DEF c, others, skipped
<1>7. QED
    BY <1>1, <1>2, <1>3, <1>4, <1>5, <1>6 DEF Visit, c, others, skipped

\* The recursion is well defined.
LEMMA VisitsEquation ==
    ASSUME ChildTypes
    PROVE  \A n \in Nat, s \in Evaluation :
               Visits[n][s] = IF n = 0 \/ s.rest = <<>> THEN s ELSE Visits[n - 1][Visit(s)]
<1> DEFINE E    == Evaluation
           id   == [s \in E |-> s]
           g    == [F \in [E -> E] |-> [s \in E |-> IF s.rest = <<>> THEN s ELSE F[Visit(s)]]]
           S    == [E -> E]
<1>1. id \in S
    OBVIOUS
<1>2. g \in [S -> S]
    BY VisitType
<1>3. PICK f \in [Nat -> S] : f[0] = id /\ \A n \in Nat : f[n + 1] = g[f[n]]
    <2> HIDE DEF S, id, g
    <2>1. QED
        BY <1>1, <1>2, PrimitiveRecursion
<1>4. f = [n \in Nat |-> [s \in E |->
                IF n = 0 \/ s.rest = <<>> THEN s ELSE f[n - 1][Visit(s)]]]
    <2>1. ASSUME NEW n \in Nat
          PROVE  f[n] = [s \in E |-> IF n = 0 \/ s.rest = <<>> THEN s ELSE f[n - 1][Visit(s)]]
        <3>1. CASE n = 0
            BY <1>3, <3>1
        <3>2. CASE n # 0
            <4>1. n - 1 \in Nat /\ n = (n - 1) + 1
                BY <3>2
            <4>2. f[n] = g[f[n - 1]] /\ f[n - 1] \in S
                <5> HIDE DEF S, g, id
                <5>1. QED
                    BY <1>3, <4>1
            <4>3. g[f[n - 1]] = [s \in E |-> IF s.rest = <<>> THEN s ELSE f[n - 1][Visit(s)]]
                BY <4>2
            <4>4. QED
                BY <3>2, <4>2, <4>3
        <3>3. QED
            BY <3>1, <3>2
    <2> HIDE DEF S, g, id
    <2>2. QED
        BY <1>3, <2>1
<1>5. Visits = [n \in Nat |-> [s \in E |->
                  IF n = 0 \/ s.rest = <<>> THEN s ELSE Visits[n - 1][Visit(s)]]]
    <2> HIDE DEF id, g, S
    <2>1. QED
        BY <1>4, Zenon DEF Visits
<1>6. QED
    <2>1. SUFFICES ASSUME NEW n \in Nat
                   PROVE  \A s \in E : Visits[n][s] =
                             IF n = 0 \/ s.rest = <<>> THEN s ELSE Visits[n - 1][Visit(s)]
        OBVIOUS
    <2> HIDE DEF id, g, S
    <2>2. Visits[n] = [s \in E |-> IF n = 0 \/ s.rest = <<>> THEN s ELSE Visits[n - 1][Visit(s)]]
        BY <1>5
    <2>3. QED
        BY <2>2

\* What one visit may do.
LEMMA VisitCases ==
    ASSUME NEW s \in Evaluation, s.rest # <<>>,
           NEW c, c = Head(s.rest), NEW others, others = Tail(s.rest)
    PROVE  LET pending == c \in DOMAIN s.results /\ s.results[c] = "Pending"
               skipped == [s.results EXCEPT ![c] = "Skipped"]
           IN  \/ /\ ~pending \/ ~AllParentsResolved(s.results, c)
                  /\ Visit(s) = [results |-> s.results, started |-> s.started, rest |-> others]
               \/ /\ pending /\ c \in entryIndex
                  /\ Visit(s) = [results |-> s.results, started |-> Append(s.started, c),
                                 rest |-> others]
               \/ /\ pending /\ c \notin entryIndex /\ entryDeps[c] # {}
                  /\ Visit(s) = [results |-> skipped, started |-> s.started, rest |-> others]
               \/ /\ pending
                  /\ Visit(s) = [results |-> skipped, started |-> s.started,
                                 rest |-> parentToChildren[c] \o others]
<1> DEFINE pending == c \in DOMAIN s.results /\ s.results[c] = "Pending"
           due     == pending /\ ShouldTrigger(s.results, c)
<1>1. due => entryDeps[c] # {} /\ pending
    BY DEF ShouldTrigger
<1>2. ~due /\ ~(pending /\ ~due /\ AllParentsResolved(s.results, c))
        => ~pending \/ ~AllParentsResolved(s.results, c)
    OBVIOUS
<1> HIDE DEF pending
<1>3. CASE due /\ c \notin entryIndex
    BY <1>1, <1>3 DEF Visit, pending
<1>4. CASE due /\ c \in entryIndex /\ c \notin paused
    BY <1>1, <1>4 DEF Visit, pending
<1>5. CASE \/ due /\ c \in entryIndex /\ c \in paused
           \/ pending /\ ~due /\ AllParentsResolved(s.results, c)
    BY <1>1, <1>5 DEF Visit, pending
<1>6. CASE ~due /\ ~(pending /\ ~due /\ AllParentsResolved(s.results, c))
    BY <1>2, <1>6 DEF Visit, pending
<1>7. QED
    BY <1>3, <1>4, <1>5, <1>6

\* What every visit keeps holds at the end.
LEMMA VisitsKeep ==
    ASSUME ChildTypes, NEW J \in SUBSET Evaluation,
           \A s \in J : s.rest # <<>> => Visit(s) \in J
    PROVE  \A n \in Nat, s \in J : Visits[n][s] \in J
<1> DEFINE G == {n \in Nat : \A s \in J : Visits[n][s] \in J}
<1>1. 0 \in G
    <2>1. \A s \in J : Visits[0][s] = s
        BY VisitsEquation
    <2>2. QED
        BY <2>1
<1>2. ASSUME NEW n \in G PROVE n + 1 \in G
    <2>1. n + 1 \in Nat /\ n + 1 # 0 /\ (n + 1) - 1 = n
        OBVIOUS
    <2>2. ASSUME NEW s \in J PROVE Visits[n + 1][s] \in J
        <3>1. Visits[n + 1][s] = IF s.rest = <<>> THEN s ELSE Visits[n][Visit(s)]
            BY <2>1, VisitsEquation
        <3>2. QED
            BY <3>1
    <2>3. QED
        BY <2>1, <2>2
<1> HIDE DEF G
<1>3. G = Nat
    <2>1. G \in SUBSET Nat
        BY DEF G
    <2>2. QED
        BY <1>1, <1>2, <2>1, SetInduction
<1>4. QED
    BY <1>3 DEF G

-----------------------------------------------------------------------------
(* The evaluation ends *)

LEMMA IdsFinite == MaxEntryID \in Nat /\ IsFiniteSet(Ids) /\ Cardinality(Ids) = MaxEntryID
<1>1. MaxEntryID \in Nat
    BY WorkflowAssumption
<1>2. IsFiniteSet(1..MaxEntryID) /\ Cardinality(1..MaxEntryID) = MaxEntryID
    BY <1>1, FS_Interval
<1>3. QED
    BY <1>1, <1>2 DEF Ids

\* A sequence without repetitions is no longer than the number of entries.
LEMMA InjectiveIsShort ==
    ASSUME NEW q \in Seq(Ids), IsInjective(q)
    PROVE  Len(q) \in Nat /\ Len(q) <= MaxEntryID
<1>1. Len(q) \in Nat /\ DOMAIN q = 1..Len(q) /\ q \in [1..Len(q) -> Ids]
    OBVIOUS
<1>2. q \in Injection(1..Len(q), Ids)
    BY <1>1 DEF Injection
<1>3. Cardinality(1..Len(q)) <= Cardinality(Ids)
    BY <1>2, IdsFinite, FS_Injection
<1>4. Cardinality(1..Len(q)) = Len(q)
    BY <1>1, FS_Interval
<1>5. QED
    BY <1>1, <1>3, <1>4, IdsFinite

PendingIn(results) == {i \in DOMAIN results : results[i] = "Pending"}

LEMMA PendingIsFinite ==
    ASSUME NEW P \in SUBSET Ids, NEW r \in [P -> Results]
    PROVE  /\ IsFiniteSet(PendingIn(r)) /\ Cardinality(PendingIn(r)) \in 0..MaxEntryID
           /\ \A c \in PendingIn(r) :
                  Cardinality(PendingIn([r EXCEPT ![c] = "Skipped"])) = Cardinality(PendingIn(r)) - 1
<1>1. PendingIn(r) \in SUBSET Ids
    BY DEF PendingIn
<1>2. IsFiniteSet(PendingIn(r)) /\ Cardinality(PendingIn(r)) <= MaxEntryID
    BY <1>1, IdsFinite, FS_Subset
<1>3. Cardinality(PendingIn(r)) \in Nat
    BY <1>2, FS_CardinalityType
<1>4. ASSUME NEW c \in PendingIn(r)
      PROVE  Cardinality(PendingIn([r EXCEPT ![c] = "Skipped"])) = Cardinality(PendingIn(r)) - 1
    <2>1. PendingIn([r EXCEPT ![c] = "Skipped"]) = PendingIn(r) \ {c}
        BY DEF PendingIn
    <2>2. QED
        BY <1>2, <2>1, FS_RemoveElement
<1>5. QED
    BY <1>2, <1>3, <1>4, IdsFinite

\* The visits left: at most one for each child on the rest, and as many as
\* there are entries for each entry that may still be skipped.
Work(s) == Len(s.rest) + MaxEntryID * Cardinality(PendingIn(s.results))

LEMMA WorkShrinks ==
    ASSUME NEW s \in Evaluation, ChildTypes
    PROVE  /\ Work(s) \in Nat
           /\ s.rest # <<>> => Work(s) > 0 /\ Work(Visit(s)) <= Work(s) - 1
<1> DEFINE c       == Head(s.rest)
           others  == Tail(s.rest)
           skipped == [s.results EXCEPT ![c] = "Skipped"]
           N       == MaxEntryID
           k       == Cardinality(PendingIn(s.results))
           all     == N * k
           less    == N * Cardinality(PendingIn(skipped))
<1>1. s.rest \in Seq(Ids) /\ s.started \in Seq(Ids)
    BY DEF Evaluation
<1>2. PICK P \in SUBSET Ids : s.results \in [P -> Results]
    BY DEF Evaluation
<1>3. N \in Nat /\ k \in Nat /\ all \in Nat
    BY <1>2, IdsFinite, PendingIsFinite
<1>4. Work(s) = Len(s.rest) + all /\ Work(s) \in Nat
    BY <1>1, <1>3 DEF Work
<1>5. ASSUME s.rest # <<>>
      PROVE  Work(s) > 0 /\ Work(Visit(s)) <= Work(s) - 1
    <2>1. /\ c \in Ids /\ others \in Seq(Ids) /\ Len(others) = Len(s.rest) - 1
          /\ Len(s.rest) \in Nat /\ Len(s.rest) > 0
        BY <1>1, <1>5
    <2>2. Work(s) > 0
        BY <1>3, <1>4, <2>1
    <2> DEFINE pending == c \in DOMAIN s.results /\ s.results[c] = "Pending"
    <2>3. CASE Visit(s) = [results |-> s.results, started |-> s.started, rest |-> others]
        BY <1>3, <1>4, <2>1, <2>2, <2>3 DEF Work
    <2>4. CASE Visit(s) = [results |-> s.results, started |-> Append(s.started, c), rest |-> others]
        BY <1>3, <1>4, <2>1, <2>2, <2>4 DEF Work
    <2>5. ASSUME pending
          PROVE  less = all - N
        <3>1. c \in PendingIn(s.results)
            BY <2>5 DEF PendingIn
        <3>2. Cardinality(PendingIn(skipped)) = k - 1
            BY <1>2, <3>1, PendingIsFinite
        <3> HIDE DEF k, N
        <3>3. N * (k - 1) = N * k - N
            BY <1>3
        <3>4. QED
            BY <3>2, <3>3
    <2>6. CASE pending /\ Visit(s) = [results |-> skipped, started |-> s.started, rest |-> others]
        <3>1. Work(Visit(s)) = Len(others) + less
            BY <2>6 DEF Work
        <3> HIDE DEF all, less, N, others
        <3>2. QED
            BY <1>3, <1>4, <2>1, <2>2, <2>5, <2>6, <3>1
    <2>7. CASE pending /\ Visit(s) = [results |-> skipped, started |-> s.started,
                                      rest |-> parentToChildren[c] \o others]
        <3>1. /\ parentToChildren[c] \in Seq(Ids) /\ Len(parentToChildren[c]) \in Nat
              /\ Len(parentToChildren[c]) <= N
            BY <2>1, InjectiveIsShort DEF ChildTypes
        <3>2. Work(Visit(s)) = Len(parentToChildren[c] \o others) + less
            BY <2>7 DEF Work
        <3>3. Len(parentToChildren[c] \o others) = Len(parentToChildren[c]) + Len(others)
            BY <2>1, <3>1
        <3> HIDE DEF all, less, N, others, c
        <3>4. QED
            BY <1>3, <1>4, <2>1, <2>2, <2>5, <2>7, <3>1, <3>2, <3>3, SMTT(60)
    <2>8. QED
        BY <1>5, <2>3, <2>4, <2>6, <2>7, VisitCases
<1>6. QED
    BY <1>4, <1>5

LEMMA VisitsEnd ==
    ASSUME ChildTypes
    PROVE  \A n \in Nat, s \in Evaluation : Work(s) <= n => Visits[n][s].rest = <<>>
<1> DEFINE G == {n \in Nat : \A s \in Evaluation : Work(s) <= n => Visits[n][s].rest = <<>>}
<1>1. 0 \in G
    <2>1. ASSUME NEW s \in Evaluation, Work(s) <= 0 PROVE Visits[0][s].rest = <<>>
        <3>1. Visits[0][s] = s
            BY VisitsEquation
        <3>2. s.rest = <<>>
            BY <2>1, WorkShrinks
        <3>3. QED
            BY <3>1, <3>2
    <2>2. QED
        BY <2>1
<1>2. ASSUME NEW n \in G PROVE n + 1 \in G
    <2>1. n + 1 \in Nat /\ n + 1 # 0 /\ (n + 1) - 1 = n
        OBVIOUS
    <2>2. ASSUME NEW s \in Evaluation, Work(s) <= n + 1 PROVE Visits[n + 1][s].rest = <<>>
        <3>1. Visits[n + 1][s] = IF s.rest = <<>> THEN s ELSE Visits[n][Visit(s)]
            BY <2>1, VisitsEquation
        <3>2. CASE s.rest # <<>>
            <4>1. Visit(s) \in Evaluation /\ Work(Visit(s)) \in Nat /\ Work(s) \in Nat
                BY <3>2, VisitType, WorkShrinks
            <4>2. Work(Visit(s)) <= n
                BY <2>2, <3>2, <4>1, WorkShrinks
            <4>3. QED
                BY <3>1, <3>2, <4>1, <4>2
        <3>3. QED
            BY <3>1, <3>2
    <2>3. QED
        BY <2>1, <2>2
<1> HIDE DEF G
<1>3. G = Nat
    <2>1. G \in SUBSET Nat
        BY DEF G
    <2>2. QED
        BY <1>1, <1>2, <2>1, SetInduction
<1>4. QED
    BY <1>3 DEF G

-----------------------------------------------------------------------------
(* What an evaluation makes of the results *)

Mirrored == \A c, p \in Ids :
    Seen(parentToChildren[p], c) <=> \E d \in entryDeps[c] : d.parent = p

Anchored == \A c \in Ids : entryDeps[c] # {} => c \in entryIndex

\* An evaluation resolves entries that were pending, starts only entries that
\* exist, and leaves no child behind that waits for nobody: an entry that is
\* still pending has a parent that is not resolved, or was started, or had no
\* unresolved parent before and is no child of the entry that reported.
LEMMA EvaluateFacts ==
    ASSUME ChildTypes, Mirrored, Anchored,
           NEW P \in SUBSET Ids, NEW results \in [P -> Results], NEW parent \in Ids
    PROVE  LET t == EvaluateChildren(results, parent)
           IN  /\ t.results \in [P -> Results] /\ t.started \in Seq(Ids)
               /\ \A i \in P : t.results[i] # results[i] => results[i] = "Pending"
               /\ \A k \in DOMAIN t.started : t.started[k] \in entryIndex \intersect P
               /\ \A i \in P : t.results[i] = "Pending" /\ AllParentsResolved(t.results, i)
                      => \/ Seen(t.started, i)
                         \/ AllParentsResolved(results, i) /\ ~Seen(parentToChildren[parent], i)
<1> DEFINE Kept(s) == \A i \in P : s.results[i] # results[i] => results[i] = "Pending"
           Real(s) == \A k \in DOMAIN s.started : s.started[k] \in entryIndex \intersect P
           Due(s)  == \A i \in P : s.results[i] = "Pending" /\ AllParentsResolved(s.results, i)
                        => \/ Seen(s.started, i) \/ Seen(s.rest, i)
                           \/ AllParentsResolved(results, i) /\ ~Seen(parentToChildren[parent], i)
           J     == {s \in Evaluation : s.results \in [P -> Results] /\ Kept(s) /\ Real(s) /\ Due(s)}
           first == [results |-> results, started |-> <<>>, rest |-> parentToChildren[parent]]
<1>1. first \in J
    <2>1. first \in Evaluation
        BY DEF Evaluation, ChildTypes
    <2>2. Kept(first) /\ Real(first)
        OBVIOUS
    <2>3. Due(first)
        OBVIOUS
    <2>4. QED
        BY <2>1, <2>2, <2>3
<1>2. ASSUME NEW s \in J, s.rest # <<>>
      PROVE  Visit(s) \in J
    <2> DEFINE c       == Head(s.rest)
               others  == Tail(s.rest)
               skipped == [s.results EXCEPT ![c] = "Skipped"]
               pending == c \in DOMAIN s.results /\ s.results[c] = "Pending"
               v       == Visit(s)
    <2>1. /\ s \in Evaluation /\ s.results \in [P -> Results]
          /\ s.rest \in Seq(Ids) /\ s.started \in Seq(Ids)
        BY DEF Evaluation
    <2>2. Kept(s) /\ Real(s) /\ Due(s)
        OBVIOUS
    <2> HIDE DEF J
    <2>3. /\ c \in Ids /\ others \in Seq(Ids)
          /\ \A i : Seen(s.rest, i) <=> i = c \/ Seen(others, i)
        <3>1. Len(s.rest) > 0 /\ others \in Seq(Ids) /\ Len(others) = Len(s.rest) - 1
            BY <1>2, <2>1
        <3>2. \A k \in 1..Len(others) : others[k] = s.rest[k + 1]
            BY <1>2, <2>1, <3>1
        <3>3. c = s.rest[1] /\ c \in Ids
            BY <1>2, <2>1
        <3>4. ASSUME NEW i, Seen(s.rest, i) PROVE i = c \/ Seen(others, i)
            <4>1. PICK k \in 1..Len(s.rest) : s.rest[k] = i
                BY <2>1, <3>4 DEF Seen
            <4>2. CASE k = 1
                BY <3>3, <4>1, <4>2
            <4>3. CASE k # 1
                <5>1. k - 1 \in 1..Len(others) /\ (k - 1) + 1 = k
                    BY <3>1, <4>1, <4>3
                <5>2. others[k - 1] = i
                    BY <3>2, <4>1, <5>1
                <5>3. DOMAIN others = 1..Len(others)
                    BY <3>1
                <5> HIDE DEF others
                <5>4. QED
                    BY <5>1, <5>2, <5>3 DEF Seen
            <4>4. QED
                BY <4>2, <4>3
        <3>5. ASSUME NEW i, i = c \/ Seen(others, i) PROVE Seen(s.rest, i)
            <4>1. CASE i = c
                <5>1. 1 \in DOMAIN s.rest
                    BY <2>1, <3>1
                <5>2. QED
                    BY <3>3, <4>1, <5>1 DEF Seen
            <4>2. CASE Seen(others, i)
                <5>1. PICK k \in 1..Len(others) : others[k] = i
                    BY <3>1, <4>2 DEF Seen
                <5>2. k + 1 \in 1..Len(s.rest) /\ s.rest[k + 1] = i
                    BY <3>1, <3>2, <5>1
                <5>3. QED
                    BY <2>1, <5>2 DEF Seen
            <4>3. QED
                BY <3>5, <4>1, <4>2
        <3>6. QED
            BY <3>1, <3>3, <3>4, <3>5
    <2>4. v \in Evaluation
        BY <1>2, <2>1, VisitType
    <2>5. pending => \A i \in P : skipped[i] = IF i = c THEN "Skipped" ELSE s.results[i]
        BY <2>1
    <2>6. pending => skipped \in [P -> Results] /\ c \in P /\ results[c] = "Pending"
        BY <2>1, <2>2 DEF Results
    <2> HIDE DEF v, c, others, skipped
    <2>7. CASE /\ ~pending \/ ~AllParentsResolved(s.results, c)
               /\ v = [results |-> s.results, started |-> s.started, rest |-> others]
        <3>1. Kept(v) /\ Real(v) /\ v.results \in [P -> Results]
            BY <2>1, <2>2, <2>7
        <3>2. Due(v)
            BY <2>1, <2>2, <2>3, <2>7
        <3>3. QED
            BY <2>4, <3>1, <3>2 DEF J, v
    <2>8. CASE /\ pending /\ c \in entryIndex
               /\ v = [results |-> s.results, started |-> Append(s.started, c), rest |-> others]
        <3>1. \A i : Seen(s.started, i) \/ i = c => Seen(v.started, i)
            <4>1. v.started = Append(s.started, c) /\ Len(s.started) \in Nat
                BY <2>1, <2>8
            <4>2. /\ DOMAIN v.started = 1..(Len(s.started) + 1) /\ DOMAIN s.started = 1..Len(s.started)
                  /\ v.started[Len(s.started) + 1] = c
                  /\ \A k \in DOMAIN s.started : v.started[k] = s.started[k]
                BY <2>1, <2>3, <4>1
            <4>3. Seen(v.started, c)
                BY <4>1, <4>2 DEF Seen
            <4>4. ASSUME NEW i, Seen(s.started, i) PROVE Seen(v.started, i)
                <5>1. PICK k \in DOMAIN s.started : s.started[k] = i
                    BY <4>4 DEF Seen
                <5>2. k \in DOMAIN v.started
                    BY <4>1, <4>2
                <5>3. QED
                    BY <4>2, <5>1, <5>2 DEF Seen
            <4>5. QED
                BY <4>3, <4>4
        <3>2. Kept(v) /\ v.results \in [P -> Results]
            BY <2>1, <2>2, <2>8
        <3>3. Real(v)
            BY <2>1, <2>2, <2>3, <2>6, <2>8
        <3>4. Due(v)
            BY <2>1, <2>2, <2>3, <2>8, <3>1
        <3>5. QED
            BY <2>4, <3>2, <3>3, <3>4 DEF J, v
    <2>9. CASE pending /\ c \notin entryIndex /\ entryDeps[c] # {}
        BY <2>3, <2>9 DEF Anchored
    <2>10. CASE /\ pending
                /\ v = [results |-> skipped, started |-> s.started,
                        rest |-> parentToChildren[c] \o others]
        <3>1. v.results = skipped /\ v.started = s.started
            BY <2>10
        <3>2. \A i : Seen(parentToChildren[c], i) \/ Seen(others, i) => Seen(v.rest, i)
            <4> DEFINE q == parentToChildren[c]
            <4>1. q \in Seq(Ids) /\ v.rest = q \o others
                BY <2>3, <2>10 DEF ChildTypes
            <4> HIDE DEF q
            <4>2. /\ DOMAIN v.rest = 1..(Len(q) + Len(others)) /\ Len(q) \in Nat /\ Len(others) \in Nat
                  /\ DOMAIN q = 1..Len(q) /\ DOMAIN others = 1..Len(others)
                  /\ \A k \in 1..Len(q) : v.rest[k] = q[k]
                  /\ \A k \in 1..Len(others) : v.rest[k + Len(q)] = others[k]
                BY <2>3, <4>1
            <4>3. ASSUME NEW i, Seen(q, i) PROVE Seen(v.rest, i)
                <5>1. PICK k \in 1..Len(q) : q[k] = i
                    BY <4>2, <4>3 DEF Seen
                <5>2. k \in DOMAIN v.rest
                    BY <4>2
                <5>3. QED
                    BY <4>2, <5>1, <5>2 DEF Seen
            <4>4. ASSUME NEW i, Seen(others, i) PROVE Seen(v.rest, i)
                <5>1. PICK k \in 1..Len(others) : others[k] = i
                    BY <4>2, <4>4 DEF Seen
                <5>2. k + Len(q) \in DOMAIN v.rest
                    BY <4>2
                <5>3. QED
                    BY <4>2, <5>1, <5>2 DEF Seen
            <4>5. QED
                BY <4>3, <4>4 DEF q
        <3>3. Kept(v) /\ Real(v) /\ v.results \in [P -> Results]
            BY <2>2, <2>5, <2>6, <2>10, <3>1
        <3>4. ASSUME NEW i \in P, v.results[i] = "Pending", AllParentsResolved(v.results, i)
              PROVE  \/ Seen(v.started, i) \/ Seen(v.rest, i)
                     \/ AllParentsResolved(results, i) /\ ~Seen(parentToChildren[parent], i)
            <4>1. i # c /\ s.results[i] = "Pending"
                BY <2>5, <2>10, <3>1, <3>4
            <4>2. CASE \E d \in entryDeps[i] : d.parent = c
                BY <2>3, <3>2, <4>2 DEF Mirrored
            <4>3. CASE ~\E d \in entryDeps[i] : d.parent = c
                <5>1. ASSUME NEW d \in entryDeps[i] PROVE Resolved(s.results, d.parent)
                    <6>1. Resolved(skipped, d.parent) /\ d.parent # c
                        BY <3>1, <3>4, <4>3 DEF AllParentsResolved
                    <6>2. d.parent \in P
                        BY <2>6, <2>10, <6>1 DEF Resolved
                    <6>3. skipped[d.parent] = s.results[d.parent]
                        BY <2>5, <2>10, <6>1, <6>2
                    <6>4. QED
                        BY <2>1, <6>1, <6>2, <6>3 DEF Resolved
                <5>2. AllParentsResolved(s.results, i)
                    BY <5>1 DEF AllParentsResolved
                <5>3. QED
                    BY <2>2, <2>3, <3>1, <3>2, <4>1, <5>2
            <4>4. QED
                BY <4>2, <4>3
        <3>5. Due(v)
            BY <3>4
        <3>6. QED
            BY <2>4, <3>3, <3>5 DEF J, v
    <2>11. QED
        BY <1>2, <2>1, <2>7, <2>8, <2>9, <2>10, VisitCases DEF c, others, skipped, v
<1> DEFINE t == Visits[MaxVisits][first]
<1>3. t \in J
    <2>1. J \in SUBSET Evaluation
        OBVIOUS
    <2>2. MaxVisits \in Nat
        BY IdsFinite DEF MaxVisits
    <2> HIDE DEF J, first
    <2>3. QED
        BY <1>1, <1>2, <2>1, <2>2, VisitsKeep
<1>4. t.rest = <<>>
    <2>1. first \in Evaluation
        BY <1>1
    <2>2. Len(parentToChildren[parent]) \in Nat /\ Len(parentToChildren[parent]) <= MaxEntryID
        BY InjectiveIsShort DEF ChildTypes
    <2>3. Cardinality(PendingIn(results)) \in 0..MaxEntryID /\ MaxEntryID \in Nat
        BY PendingIsFinite, IdsFinite
    <2> DEFINE k == Cardinality(PendingIn(results))
    <2>4. MaxEntryID * k <= MaxEntryID * MaxEntryID
        BY <2>3
    <2>5. MaxEntryID * k \in Nat /\ MaxVisits = MaxEntryID * MaxEntryID + MaxEntryID /\ MaxVisits \in Nat
        BY <2>3 DEF MaxVisits
    <2>6. Work(first) = Len(parentToChildren[parent]) + MaxEntryID * k
        BY DEF Work
    <2>7. Work(first) <= MaxVisits
        BY <2>2, <2>3, <2>4, <2>5, <2>6
    <2>8. QED
        BY <2>1, <2>5, <2>7, VisitsEnd
<1>5. t = EvaluateChildren(results, parent)
    BY DEF EvaluateChildren
<1>6. \A i : ~Seen(t.rest, i)
    BY <1>4 DEF Seen
<1>7. t.started \in Seq(Ids)
    BY <1>3 DEF Evaluation
<1>8. QED
    <2> HIDE DEF first, t
    <2>1. t.results \in [P -> Results] /\ Kept(t) /\ Real(t) /\ Due(t)
        BY <1>3
    <2>2. QED
        BY <1>5, <1>6, <1>7, <2>1

-----------------------------------------------------------------------------
(* The inductive invariant *)

ResultMaps == UNION {[P -> Results] : P \in SUBSET Ids}
Job        == [exec : Execs, id : Ids, nr : Nat, live : BOOLEAN]
Event      == [exec : Execs, id : Ids, result : Results \ {"Pending"}]

\* The types of WTypeOK, with those of the variables it leaves out.
WTypes ==
    /\ running \in BOOLEAN /\ baseCancelled \in BOOLEAN
    /\ entryIndex \subseteq Ids /\ paused \subseteq Ids
    /\ entryDeps \in [Ids -> SUBSET [parent : Ids, condition : Conditions]]
    /\ ChildTypes
    /\ DOMAIN active \subseteq 1..(nextExec - 1)
    /\ active \in [DOMAIN active -> [root : Ids, results : ResultMaps]]
    /\ completed \in Seq([exec : Execs, results : ResultMaps])
    /\ Retention > 0 => Len(completed) <= Retention
    /\ jobs \subseteq Job
    /\ jobDone \in Seq(Event) /\ Len(jobDone) <= DoneCapacity
    /\ nextExec \in 1..(MaxExecs + 1) /\ edits \in Nat
    /\ dispatched \in [Execs -> [Ids -> Nat]]
    /\ disturbed \subseteq Execs

UnderWay(x, i) ==
    \/ \E j \in jobs : j.exec = x /\ j.id = i
    \/ \E k \in DOMAIN jobDone : jobDone[k].exec = x /\ jobDone[k].id = i

\* Executions are numbered in order, and what is under way for one belongs to
\* an entry of it.
StepsKnown ==
    \A x \in Execs, i \in Ids : UnderWay(x, i) =>
        x < nextExec /\ (x \in DOMAIN active => i \in DOMAIN active[x].results)

\* An active execution still has a pending entry.
NoneComplete ==
    \A x \in DOMAIN active : \E i \in DOMAIN active[x].results : active[x].results[i] = "Pending"

\* Only runs of disturbed executions may end without a report.
CancelledDisturbed ==
    /\ baseCancelled => DOMAIN active \subseteq disturbed
    /\ \A j \in jobs : ~j.live /\ j.exec \in DOMAIN active => j.exec \in disturbed

\* A pending entry of an undisturbed execution is under way, or waits for a
\* parent that is not resolved.
PendingExplained ==
    \A x \in DOMAIN active \ disturbed : \A i \in DOMAIN active[x].results :
        active[x].results[i] = "Pending" =>
            \/ UnderWay(x, i)
            \/ /\ i # active[x].root
               /\ \E d \in entryDeps[i] : ~Resolved(active[x].results, d.parent)

WInv ==
    /\ WTypes /\ Graph!GraphInv
    /\ StepsKnown /\ NoneComplete /\ CancelledDisturbed /\ PendingExplained /\ LiveJobsBelong

-----------------------------------------------------------------------------
(* The graph operations implement those of DependencyGraph *)

LEMMA SameInvariant == Proved!GraphInv <=> Graph!GraphInv
BY DEF Proved!GraphInv, Graph!GraphInv, Proved!GTypeOK, Graph!GTypeOK, Proved!IndexesMirror,
       Graph!IndexesMirror, Proved!NoDanglingEdge, Graph!NoDanglingEdge, Proved!Acyclic,
       Graph!Acyclic, Proved!Ids, Graph!Ids, Proved!Parents, Graph!Parents,
       Proved!Dependency, Graph!Dependency

\* slices.Delete keeps the order and the type of a list of children.
LEMMA WithoutFacts ==
    ASSUME NEW q \in Seq(Ids), IsInjective(q), NEW c
    PROVE  /\ Without(q, c) \in Seq(Ids) /\ IsInjective(Without(q, c))
           /\ \A i : Seen(Without(q, c), i) <=> Seen(q, i) /\ i # c
<1>1. CASE ~Seen(q, c)
    BY <1>1 DEF Without, Seen
<1>2. CASE Seen(q, c)
    <2> DEFINE m == CHOOSE k \in DOMAIN q : q[k] = c
               t == Without(q, c)
    <2>1. m \in 1..Len(q) /\ q[m] = c /\ Len(q) \in Nat
        BY <1>2 DEF Seen
    <2>2. t = SubSeq(q, 1, m - 1) \o SubSeq(q, m + 1, Len(q))
        BY <1>2 DEF Without, RemoveAt
    <2> HIDE DEF m, t
    <2>3. /\ t \in Seq(Ids) /\ Len(t) = Len(q) - 1
          /\ \A k \in 1..(Len(q) - 1) : t[k] = IF k < m THEN q[k] ELSE q[k + 1]
        <3>1. /\ SubSeq(q, 1, m - 1) \in Seq(Ids) /\ Len(SubSeq(q, 1, m - 1)) = m - 1
              /\ SubSeq(q, m + 1, Len(q)) \in Seq(Ids)
              /\ Len(SubSeq(q, m + 1, Len(q))) = Len(q) - m
              /\ \A k \in 1..(m - 1) : SubSeq(q, 1, m - 1)[k] = q[k]
              /\ \A k \in 1..(Len(q) - m) : SubSeq(q, m + 1, Len(q))[k] = q[k + m]
            BY <2>1
        <3> DEFINE a == SubSeq(q, 1, m - 1)
                   b == SubSeq(q, m + 1, Len(q))
        <3> HIDE DEF a, b
        <3>2. /\ a \in Seq(Ids) /\ Len(a) = m - 1 /\ b \in Seq(Ids) /\ Len(b) = Len(q) - m
              /\ \A k \in 1..(m - 1) : a[k] = q[k]
              /\ \A k \in 1..(Len(q) - m) : b[k] = q[k + m]
            BY <3>1 DEF a, b
        <3>3. t = a \o b
            BY <2>2 DEF a, b
        <3>4. t \in Seq(Ids) /\ Len(t) = Len(q) - 1
            BY <2>1, <3>2, <3>3, SMTT(60)
        <3>5. ASSUME NEW k \in 1..(Len(q) - 1) PROVE t[k] = IF k < m THEN q[k] ELSE q[k + 1]
            <4>1. CASE k < m
                <5>1. k \in 1..(m - 1)
                    BY <2>1, <4>1
                <5>2. t[k] = a[k]
                    BY <2>1, <3>2, <3>3, <5>1
                <5>3. QED
                    BY <3>2, <4>1, <5>1, <5>2
            <4>2. CASE ~(k < m)
                <5>1. k - (m - 1) \in 1..(Len(q) - m) /\ (k - (m - 1)) + m = k + 1
                    BY <2>1, <4>2
                <5>2. t[k] = b[k - (m - 1)]
                    BY <2>1, <3>2, <3>3, <4>2, <5>1, SMTT(60)
                <5>3. QED
                    BY <3>2, <4>2, <5>1, <5>2
            <4>3. QED
                BY <4>1, <4>2
        <3>6. QED
            BY <3>4, <3>5
    <2>4. DOMAIN t = 1..(Len(q) - 1) /\ DOMAIN q = 1..Len(q)
        BY <2>1, <2>3
    <2> DEFINE at(k) == IF k < m THEN k ELSE k + 1
    <2>5. \A k \in 1..(Len(q) - 1) : at(k) \in 1..Len(q) /\ at(k) # m /\ t[k] = q[at(k)]
        BY <2>1, <2>3
    <2>6. \A j, k \in 1..(Len(q) - 1) : at(j) = at(k) => j = k
        BY <2>1
    <2>7. \A k \in 1..Len(q) : k # m => \E j \in 1..(Len(q) - 1) : at(j) = k
        <3>1. SUFFICES ASSUME NEW k \in 1..Len(q), k # m
                       PROVE  \E j \in 1..(Len(q) - 1) : at(j) = k
            OBVIOUS
        <3>2. CASE k < m
            <4>1. k \in 1..(Len(q) - 1) /\ at(k) = k
                BY <2>1, <3>2
            <4>2. QED
                BY <4>1
        <3>3. CASE ~(k < m)
            <4>1. k - 1 \in 1..(Len(q) - 1) /\ ~(k - 1 < m) /\ (k - 1) + 1 = k
                BY <2>1, <3>1, <3>3
            <4>2. QED
                BY <4>1
        <3>4. QED
            BY <3>2, <3>3
    <2> HIDE DEF at
    <2>8. \A j, k \in 1..Len(q) : q[j] = q[k] => j = k
        BY <2>4 DEF IsInjective
    <2>9. IsInjective(t)
        BY <2>4, <2>5, <2>6, <2>8 DEF IsInjective
    <2>10. \A i : Seen(t, i) <=> Seen(q, i) /\ i # c
        BY <2>1, <2>4, <2>5, <2>7, <2>8, ZenonT(60) DEF Seen
    <2>11. QED
        BY <2>3, <2>9, <2>10 DEF t
<1>3. QED
    BY <1>1, <1>2

LEMMA AppendFacts ==
    ASSUME NEW q \in Seq(Ids), IsInjective(q), NEW c \in Ids, ~Seen(q, c)
    PROVE  /\ Append(q, c) \in Seq(Ids) /\ IsInjective(Append(q, c))
           /\ \A i : Seen(Append(q, c), i) <=> Seen(q, i) \/ i = c
<1> DEFINE t == Append(q, c)
<1>1. /\ t \in Seq(Ids) /\ Len(q) \in Nat
      /\ DOMAIN t = 1..(Len(q) + 1) /\ DOMAIN q = 1..Len(q)
      /\ t[Len(q) + 1] = c /\ \A k \in 1..Len(q) : t[k] = q[k]
    OBVIOUS
<1> HIDE DEF t
<1>2. \A k \in 1..Len(q) : q[k] # c
    BY <1>1 DEF Seen
<1>3. \A k \in 1..(Len(q) + 1) : k = Len(q) + 1 \/ k \in 1..Len(q)
    BY <1>1
<1>4. \A j, k \in 1..Len(q) : q[j] = q[k] => j = k
    BY <1>1 DEF IsInjective
<1>5. IsInjective(t)
    BY <1>1, <1>2, <1>3, <1>4 DEF IsInjective
<1>6. Len(q) + 1 \in DOMAIN t /\ \A k \in DOMAIN q : k \in DOMAIN t
    BY <1>1
<1>7. \A i : Seen(t, i) <=> Seen(q, i) \/ i = c
    BY <1>1, <1>3, <1>6 DEF Seen
<1>8. QED
    BY <1>1, <1>5, <1>7 DEF t

\* The sets of children.
LEMMA SetsOfLists ==
    ASSUME NEW f, DOMAIN f = Ids, \A p \in Ids : f[p] \in Seq(Ids)
    PROVE  LET sets == [p \in Ids |-> {f[p][k] : k \in DOMAIN f[p]}]
           IN  /\ sets \in [Ids -> SUBSET Ids]
               /\ \A p \in Ids : \A c : c \in sets[p] <=> Seen(f[p], c)
<1>1. \A p \in Ids : \A k \in DOMAIN f[p] : f[p][k] \in Ids
    OBVIOUS
<1>2. QED
    BY <1>1 DEF Seen

LEMMA ChildrenAreLists ==
    ASSUME ChildTypes
    PROVE  /\ ChildSets \in [Ids -> SUBSET Ids]
           /\ \A p \in Ids : \A c : c \in ChildSets[p] <=> Seen(parentToChildren[p], c)
<1>1. /\ DOMAIN parentToChildren = Ids
      /\ \A p \in Ids : parentToChildren[p] \in Seq(Ids)
    BY DEF ChildTypes
<1>2. QED
    BY <1>1, SetsOfLists, Zenon DEF ChildSets

LEMMA ChildrenAreListsNext ==
    ASSUME ChildTypes'
    PROVE  /\ ChildSets' \in [Ids -> SUBSET Ids]
           /\ \A p \in Ids : \A c : c \in ChildSets'[p] <=> Seen(parentToChildren'[p], c)
<1>1. /\ DOMAIN parentToChildren' = Ids
      /\ \A p \in Ids : parentToChildren'[p] \in Seq(Ids)
    BY DEF ChildTypes
<1>2. QED
    BY <1>1, SetsOfLists, Zenon DEF ChildSets

LEMMA GraphIds == Graph!Ids = Ids /\ \A i : Graph!Parents(i) = {d.parent : d \in entryDeps[i]}
BY DEF Graph!Ids, Ids, Graph!Parents

GraphTypes ==
    /\ entryIndex \subseteq Ids
    /\ entryDeps \in [Ids -> SUBSET [parent : Ids, condition : Conditions]]
    /\ ChildTypes

\* The two indexes after RemoveEdges, entry by entry.
LEMMA RemoveEdgesFacts ==
    ASSUME GraphTypes, NEW id \in Ids, RemoveEdges(id)
    PROVE  /\ entryDeps' \in [Ids -> SUBSET [parent : Ids, condition : Conditions]]
           /\ ChildTypes'
           /\ \A c \in Ids : entryDeps'[c] =
                  IF c = id THEN {}
                  ELSE IF Seen(parentToChildren[id], c) THEN {d \in entryDeps[c] : d.parent # id}
                  ELSE entryDeps[c]
           /\ \A p, c \in Ids : Seen(parentToChildren'[p], c) <=>
                  /\ p # id /\ Seen(parentToChildren[p], c)
                  /\ c = id => ~\E d \in entryDeps[id] : d.parent = p
<1>1. \A c \in Ids : entryDeps'[c] =
          IF c = id THEN {}
          ELSE IF Seen(parentToChildren[id], c) THEN {d \in entryDeps[c] : d.parent # id}
          ELSE entryDeps[c]
    BY DEF RemoveEdges
<1>2. entryDeps' \in [Ids -> SUBSET [parent : Ids, condition : Conditions]]
    BY DEF RemoveEdges, GraphTypes
<1>3. /\ DOMAIN parentToChildren' = Ids
      /\ \A p \in Ids : parentToChildren'[p] =
            IF p = id THEN <<>>
            ELSE IF \E d \in entryDeps[id] : d.parent = p THEN Without(parentToChildren[p], id)
            ELSE parentToChildren[p]
    BY DEF RemoveEdges
<1>4. ASSUME NEW p \in Ids
      PROVE  /\ parentToChildren'[p] \in Seq(Ids) /\ IsInjective(parentToChildren'[p])
             /\ \A c \in Ids : Seen(parentToChildren'[p], c) <=>
                    /\ p # id /\ Seen(parentToChildren[p], c)
                    /\ c = id => ~\E d \in entryDeps[id] : d.parent = p
    <2>1. parentToChildren[p] \in Seq(Ids) /\ IsInjective(parentToChildren[p])
        BY DEF GraphTypes, ChildTypes
    <2>2. CASE p = id
        <3>1. parentToChildren'[p] = <<>>
            BY <1>3, <2>2
        <3>2. IsInjective(<<>>) /\ \A c : ~Seen(<<>>, c)
            BY DEF IsInjective, Seen
        <3>3. QED
            BY <2>2, <3>1, <3>2
    <2>3. CASE p # id /\ \E d \in entryDeps[id] : d.parent = p
        <3>1. parentToChildren'[p] = Without(parentToChildren[p], id)
            BY <1>3, <2>3
        <3>2. QED
            BY <2>1, <2>3, <3>1, WithoutFacts
    <2>4. CASE p # id /\ ~\E d \in entryDeps[id] : d.parent = p
        <3>1. parentToChildren'[p] = parentToChildren[p]
            BY <1>3, <2>4
        <3>2. QED
            BY <2>1, <2>4, <3>1
    <2>5. QED
        BY <2>2, <2>3, <2>4
<1>5. ChildTypes'
    BY <1>3, <1>4 DEF ChildTypes
<1>6. QED
    BY <1>1, <1>2, <1>4, <1>5

LEMMA RemovalRefines ==
    ASSUME GraphTypes, NEW id \in entryIndex, entryIndex' = entryIndex \ {id}, RemoveEdges(id)
    PROVE  Graph!RemoveEntry(id)
<1>1. id \in Ids
    BY DEF GraphTypes
<1> DEFINE childless == [p \in Ids |-> IF p \in Graph!Parents(id)
                                       THEN ChildSets[p] \ {id} ELSE ChildSets[p]]
           orphaned  == [entryDeps EXCEPT ![id] = {}]
<1>2. /\ ChildSets \in [Ids -> SUBSET Ids] /\ ChildSets' \in [Ids -> SUBSET Ids]
      /\ \A p \in Ids : \A c : c \in ChildSets[p] <=> Seen(parentToChildren[p], c)
      /\ \A p \in Ids : \A c : c \in ChildSets'[p] <=> Seen(parentToChildren'[p], c)
    <2>1. ChildTypes /\ ChildTypes'
        BY <1>1, RemoveEdgesFacts DEF GraphTypes
    <2>2. QED
        BY <2>1, ChildrenAreLists, ChildrenAreListsNext
<1>3. entryDeps \in [Ids -> SUBSET [parent : Ids, condition : Conditions]]
    BY DEF GraphTypes
<1>4. entryDeps' = [c \in Ids |-> IF c \in childless[id]
                                  THEN Graph!Without(orphaned[c], id) ELSE orphaned[c]]
    <2>1. ASSUME NEW c \in Ids
          PROVE  entryDeps'[c] = IF c \in childless[id]
                                 THEN Graph!Without(orphaned[c], id) ELSE orphaned[c]
        <3>1. orphaned[c] = IF c = id THEN {} ELSE entryDeps[c]
            BY <1>3
        <3>2. Graph!Without(orphaned[c], id) = {d \in orphaned[c] : d.parent # id}
            BY DEF Graph!Without
        <3>3. c # id => (c \in childless[id] <=> Seen(parentToChildren[id], c))
            BY <1>1, <1>2
        <3> HIDE DEF childless, orphaned
        <3>4. QED
            BY <1>1, <3>1, <3>2, <3>3, RemoveEdgesFacts, ZenonT(60)
    <2>2. entryDeps' \in [Ids -> SUBSET [parent : Ids, condition : Conditions]]
        BY <1>1, RemoveEdgesFacts
    <2> HIDE DEF childless, orphaned
    <2>3. QED
        BY <2>1, <2>2
<1>5. ChildSets' = [childless EXCEPT ![id] = {}]
    <2>1. ASSUME NEW p \in Ids
          PROVE  ChildSets'[p] = IF p = id THEN {} ELSE childless[p]
        <3>1. ASSUME NEW c \in Ids
              PROVE  c \in ChildSets'[p] <=> p # id /\ c \in childless[p]
            <4>1. p \in Graph!Parents(id) <=> \E d \in entryDeps[id] : d.parent = p
                BY GraphIds
            <4>2. c \in childless[p] <=> /\ Seen(parentToChildren[p], c)
                                         /\ c = id => ~\E d \in entryDeps[id] : d.parent = p
                BY <1>2, <4>1
            <4>3. QED
                BY <1>1, <1>2, <4>2, RemoveEdgesFacts
        <3>2. childless[p] \in SUBSET Ids /\ ChildSets'[p] \in SUBSET Ids
            BY <1>2
        <3> HIDE DEF childless
        <3>3. QED
            BY <3>1, <3>2
    <2>2. DOMAIN childless = Ids
        OBVIOUS
    <2> HIDE DEF childless
    <2>3. QED
        BY <1>2, <2>1, <2>2
<1>6. Graph!RemoveEdges(id)
    BY <1>4, <1>5, GraphIds DEF Graph!RemoveEdges
<1>7. QED
    BY <1>6 DEF Graph!RemoveEntry

LEMMA RemoveDependencyFacts ==
    ASSUME GraphTypes, NEW child \in Ids, NEW parent \in Ids, RemoveDependency(child, parent)
    PROVE  /\ entryDeps' \in [Ids -> SUBSET [parent : Ids, condition : Conditions]]
           /\ ChildTypes'
           /\ Graph!RemoveDependency(child, parent)
<1>1. /\ entryDeps \in [Ids -> SUBSET [parent : Ids, condition : Conditions]]
      /\ DOMAIN parentToChildren = Ids
      /\ \A p \in Ids : parentToChildren[p] \in Seq(Ids) /\ IsInjective(parentToChildren[p])
    BY DEF GraphTypes, ChildTypes
<1>2. /\ entryDeps' = [entryDeps EXCEPT ![child] = {d \in @ : d.parent # parent}]
      /\ parentToChildren' = [parentToChildren EXCEPT ![parent] = Without(@, child)]
      /\ entryIndex' = entryIndex
    BY DEF RemoveDependency
<1>3. /\ DOMAIN parentToChildren' = Ids
      /\ \A p \in Ids : parentToChildren'[p] =
             IF p = parent THEN Without(parentToChildren[p], child) ELSE parentToChildren[p]
    BY <1>1, <1>2
<1>4. ChildTypes'
    BY <1>1, <1>3, WithoutFacts DEF ChildTypes
<1>5. /\ ChildSets \in [Ids -> SUBSET Ids] /\ ChildSets' \in [Ids -> SUBSET Ids]
      /\ \A p \in Ids : \A c : c \in ChildSets[p] <=> Seen(parentToChildren[p], c)
      /\ \A p \in Ids : \A c : c \in ChildSets'[p] <=> Seen(parentToChildren'[p], c)
    BY <1>4, ChildrenAreLists, ChildrenAreListsNext DEF GraphTypes
<1>6. ASSUME NEW p \in Ids
      PROVE  ChildSets'[p] = IF p = parent THEN ChildSets[p] \ {child} ELSE ChildSets[p]
    <2>1. CASE p = parent
        <3>1. \A c : Seen(parentToChildren'[p], c) <=> Seen(parentToChildren[p], c) /\ c # child
            BY <1>1, <1>3, <2>1, WithoutFacts
        <3>2. QED
            BY <1>5, <2>1, <3>1
    <2>2. CASE p # parent
        <3>1. parentToChildren'[p] = parentToChildren[p]
            BY <1>3, <2>2
        <3>2. QED
            BY <1>5, <2>2, <3>1
    <2>3. QED
        BY <2>1, <2>2
<1>7. ChildSets' = [ChildSets EXCEPT ![parent] = @ \ {child}]
    BY <1>5, <1>6
<1>8. QED
    BY <1>1, <1>2, <1>4, <1>7 DEF Graph!RemoveDependency, Graph!Without

LEMMA AddDependencyFacts ==
    ASSUME GraphTypes, NEW e \in Edge, AddDependency(e)
    PROVE  /\ entryDeps' \in [Ids -> SUBSET [parent : Ids, condition : Conditions]]
           /\ ChildTypes'
           /\ Graph!AddDependency(e.child, e.parent, e.condition)
<1>1. /\ entryDeps \in [Ids -> SUBSET [parent : Ids, condition : Conditions]]
      /\ DOMAIN parentToChildren = Ids
      /\ \A p \in Ids : parentToChildren[p] \in Seq(Ids) /\ IsInjective(parentToChildren[p])
      /\ e.child \in Ids /\ e.parent \in Ids /\ e.condition \in Conditions
    BY DEF GraphTypes, ChildTypes, Edge
<1> DEFINE d == [parent |-> e.parent, condition |-> e.condition]
<1>2. /\ entryDeps' = [entryDeps EXCEPT ![e.child] = @ \union {d}]
      /\ parentToChildren' = [parentToChildren EXCEPT ![e.parent] =
                                 IF Seen(@, e.child) THEN @ ELSE Append(@, e.child)]
      /\ entryIndex' = entryIndex /\ {e.child, e.parent} \subseteq entryIndex
      /\ ~Graph!HasCycle(e.child, e.parent)
    BY DEF AddDependency, Connect
<1>3. d \in [parent : Ids, condition : Conditions]
    BY <1>1
<1>4. entryDeps' \in [Ids -> SUBSET [parent : Ids, condition : Conditions]]
    <2> HIDE DEF d
    <2>1. QED
        BY <1>1, <1>2, <1>3
<1>5. /\ DOMAIN parentToChildren' = Ids
      /\ \A p \in Ids : parentToChildren'[p] =
             IF p = e.parent /\ ~Seen(parentToChildren[p], e.child)
             THEN Append(parentToChildren[p], e.child) ELSE parentToChildren[p]
    BY <1>1, <1>2
<1>6. ChildTypes'
    <2>1. ASSUME NEW p \in Ids
          PROVE  parentToChildren'[p] \in Seq(Ids) /\ IsInjective(parentToChildren'[p])
        <3> DEFINE q == parentToChildren[p]
        <3>1. q \in Seq(Ids) /\ IsInjective(q)
            BY <1>1
        <3>2. \/ parentToChildren'[p] = q
              \/ ~Seen(q, e.child) /\ parentToChildren'[p] = Append(q, e.child)
            BY <1>5
        <3> HIDE DEF q
        <3>3. CASE ~Seen(q, e.child) /\ parentToChildren'[p] = Append(q, e.child)
            <4>1. Append(q, e.child) \in Seq(Ids) /\ IsInjective(Append(q, e.child))
                BY <1>1, <3>1, <3>3, AppendFacts
            <4>2. QED
                BY <3>3, <4>1
        <3>4. CASE parentToChildren'[p] = q
            BY <3>1, <3>4
        <3>5. QED
            BY <3>2, <3>3, <3>4
    <2>2. QED
        BY <1>5, <2>1 DEF ChildTypes
<1>7. /\ ChildSets \in [Ids -> SUBSET Ids] /\ ChildSets' \in [Ids -> SUBSET Ids]
      /\ \A p \in Ids : \A c : c \in ChildSets[p] <=> Seen(parentToChildren[p], c)
      /\ \A p \in Ids : \A c : c \in ChildSets'[p] <=> Seen(parentToChildren'[p], c)
    BY <1>6, ChildrenAreLists, ChildrenAreListsNext DEF GraphTypes
<1>8. ASSUME NEW p \in Ids
      PROVE  ChildSets'[p] = IF p = e.parent THEN ChildSets[p] \union {e.child} ELSE ChildSets[p]
    <2>1. CASE p = e.parent /\ ~Seen(parentToChildren[p], e.child)
        <3>1. \A c : Seen(parentToChildren'[p], c) <=> Seen(parentToChildren[p], c) \/ c = e.child
            <4> DEFINE q == parentToChildren[p]
            <4>1. q \in Seq(Ids) /\ IsInjective(q) /\ ~Seen(q, e.child)
                BY <1>1, <2>1
            <4>2. parentToChildren'[p] = Append(q, e.child)
                BY <1>5, <2>1
            <4> HIDE DEF q
            <4>3. \A c : Seen(parentToChildren'[p], c) <=> Seen(q, c) \/ c = e.child
                BY <1>1, <4>1, <4>2, AppendFacts
            <4>4. QED
                BY <4>3 DEF q
        <3>2. QED
            BY <1>7, <2>1, <3>1
    <2>2. CASE ~(p = e.parent /\ ~Seen(parentToChildren[p], e.child))
        <3>1. parentToChildren'[p] = parentToChildren[p]
            BY <1>5, <2>2
        <3>2. QED
            BY <1>7, <2>2, <3>1
    <2>3. QED
        BY <2>1, <2>2
<1>9. ChildSets' = [ChildSets EXCEPT ![e.parent] = @ \union {e.child}]
    BY <1>1, <1>7, <1>8
<1>10. QED
    BY <1>2, <1>4, <1>6, <1>9 DEF Graph!AddDependency

UnchangedGraph == UNCHANGED <<entryIndex, entryDeps, parentToChildren>>

\* Every step is a step of DependencyGraph or leaves the graph alone.
LEMMA StepRefines ==
    ASSUME GraphTypes, [WNext]_wvars
    PROVE  GraphTypes' /\ [Graph!GNext]_(Graph!gvars)
<1>1. ASSUME UnchangedGraph
      PROVE  GraphTypes' /\ UNCHANGED Graph!gvars
    BY <1>1 DEF UnchangedGraph, GraphTypes, ChildTypes, Graph!gvars, ChildSets
<1>2. ASSUME NEW id \in entryIndex, entryIndex' = entryIndex \ {id}, RemoveEdges(id)
      PROVE  GraphTypes' /\ Graph!GNext
    <2>1. id \in Ids
        BY DEF GraphTypes
    <2>2. GraphTypes'
        BY <1>2, <2>1, RemoveEdgesFacts DEF GraphTypes
    <2>3. Graph!RemoveEntry(id)
        BY <1>2, RemovalRefines
    <2>4. QED
        BY <2>1, <2>2, <2>3, GraphIds DEF Graph!GNext
<1>3. ASSUME NEW id \in Ids, Fire(id)
      PROVE  GraphTypes' /\ [Graph!GNext]_(Graph!gvars)
    <2>1. CASE id \in RunOnce
        <3>1. id \in entryIndex /\ entryIndex' = entryIndex \ {id} /\ RemoveEdges(id)
            BY <1>3, <2>1 DEF Fire
        <3>2. QED
            BY <1>2, <3>1
    <2>2. CASE id \notin RunOnce
        <3>1. UnchangedGraph
            BY <1>3, <2>2 DEF Fire, graph, UnchangedGraph
        <3>2. QED
            BY <1>1, <3>1
    <2>3. QED
        BY <2>1, <2>2
<1>4. CASE JobEnds
    <2>1. UnchangedGraph
        BY <1>4 DEF JobEnds, Abandon, Report, graph, UnchangedGraph
    <2>2. QED
        BY <1>1, <2>1
<1>5. CASE JobDone
    <2>1. UnchangedGraph
        BY <1>5 DEF JobDone, graph, UnchangedGraph
    <2>2. QED
        BY <1>1, <2>1
<1>6. CASE \E id \in Pausable : SetPaused(id)
    <2>1. UnchangedGraph
        BY <1>6 DEF SetPaused, graph, UnchangedGraph
    <2>2. QED
        BY <1>1, <2>1
<1>7. ASSUME NEW id \in Ids, RemoveEntry(id)
      PROVE  GraphTypes' /\ Graph!GNext
    BY <1>2, <1>7 DEF RemoveEntry
<1>8. ASSUME NEW id \in Ids, UpdateEntry(id)
      PROVE  GraphTypes' /\ UNCHANGED Graph!gvars
    <2>1. UnchangedGraph
        BY <1>8 DEF UpdateEntry, graph, UnchangedGraph
    <2>2. QED
        BY <1>1, <2>1
<1>9. ASSUME NEW e \in Edge, AddDependency(e)
      PROVE  GraphTypes' /\ Graph!GNext
    <2>1. GraphTypes' /\ Graph!AddDependency(e.child, e.parent, e.condition)
        BY <1>9, AddDependencyFacts DEF GraphTypes, AddDependency
    <2>2. e.child \in Ids /\ e.parent \in Ids /\ e.condition \in Conditions
        BY DEF Edge
    <2>3. QED
        BY <2>1, <2>2, GraphIds DEF Graph!GNext
<1>10. ASSUME NEW child \in Ids, NEW parent \in Ids, RemoveDependency(child, parent)
       PROVE  GraphTypes' /\ Graph!GNext
    <2>1. GraphTypes' /\ Graph!RemoveDependency(child, parent)
        BY <1>10, RemoveDependencyFacts DEF GraphTypes, RemoveDependency
    <2>2. QED
        BY <2>1, GraphIds DEF Graph!GNext
<1>11. CASE Stop \/ Start
    <2>1. UnchangedGraph
        BY <1>11 DEF Stop, Start, graph, UnchangedGraph
    <2>2. QED
        BY <1>1, <2>1
<1>12. CASE UNCHANGED wvars
    <2>1. UnchangedGraph
        BY <1>12 DEF wvars, graph, UnchangedGraph
    <2>2. QED
        BY <1>1, <2>1
<1>13. QED
    BY <1>3, <1>4, <1>5, <1>6, <1>7, <1>8, <1>9, <1>10, <1>11, <1>12 DEF WNext

LEMMA GraphInitially == WInit => GraphTypes /\ Graph!GraphInv
<1> SUFFICES ASSUME WInit PROVE GraphTypes /\ Graph!GraphInv
    OBVIOUS
<1>1. PICK g \in Graphs : entryDeps = g.deps /\ parentToChildren = g.children
    BY DEF WInit
<1>2. Sound(g) /\ entryIndex = Ids /\ MaxEntryID \in Nat
    BY WorkflowAssumption DEF WInit
<1>3. GraphTypes
    BY <1>1, <1>2 DEF GraphTypes, ChildTypes, Sound
<1>4. /\ ChildSets \in [Ids -> SUBSET Ids]
      /\ \A p \in Ids : \A c : c \in ChildSets[p] <=> Seen(parentToChildren[p], c)
    BY <1>3, ChildrenAreLists DEF GraphTypes
<1>5. Graph!GTypeOK
    BY <1>2, <1>3, <1>4 DEF Graph!GTypeOK, Graph!Ids, Ids, Graph!Dependency, GraphTypes
<1>6. Graph!IndexesMirror
    BY <1>1, <1>2, <1>4, GraphIds DEF Graph!IndexesMirror, Sound
<1>7. Graph!NoDanglingEdge
    BY <1>2, <1>3, GraphIds DEF Graph!NoDanglingEdge, GraphTypes
<1>8. Graph!Acyclic
    <2>1. SUFFICES ASSUME NEW S \in SUBSET Ids, S # {}
                   PROVE  \E i \in S : Graph!Parents(i) \intersect S = {}
        BY GraphIds DEF Graph!Acyclic
    <2>2. PICK i \in S : \A d \in g.deps[i] : d.parent \notin S
        BY <1>2, <2>1 DEF Sound
    <2>3. QED
        BY <1>1, <2>2, GraphIds
<1>9. QED
    BY <1>3, <1>5, <1>6, <1>7, <1>8 DEF Graph!GraphInv

\* The two instances are the same module.
LEMMA SameSteps == [Graph!GNext]_(Graph!gvars) => [Proved!GNext]_(Proved!gvars)
<1>1. \A c, p : Graph!HasCycle(c, p) <=> Proved!HasCycle(c, p)
    BY DEF Proved!HasCycle, Graph!HasCycle, Proved!Closed, Graph!Closed, Proved!Ids, Graph!Ids,
           Proved!Parents, Graph!Parents
<1>2. \A c, p, k : Graph!AddDependency(c, p, k) => Proved!AddDependency(c, p, k)
    BY <1>1 DEF Graph!AddDependency, Proved!AddDependency
<1>3. \A c, p : Graph!RemoveDependency(c, p) => Proved!RemoveDependency(c, p)
    BY DEF Graph!RemoveDependency, Proved!RemoveDependency, Graph!Without, Proved!Without
<1>4. \A i : Graph!RemoveEntry(i) => Proved!RemoveEntry(i)
    BY DEF Graph!RemoveEntry, Proved!RemoveEntry, Graph!RemoveEdges, Proved!RemoveEdges,
           Graph!Without, Proved!Without, Graph!Ids, Proved!Ids, Graph!Parents, Proved!Parents
<1>5. Graph!AddEntry => Proved!AddEntry
    BY DEF Graph!AddEntry, Proved!AddEntry
<1>6. Graph!Ids = Proved!Ids /\ Graph!gvars = Proved!gvars /\ Graph!gvars' = Proved!gvars'
    BY DEF Graph!Ids, Proved!Ids, Graph!gvars, Proved!gvars
<1>7. QED
    BY <1>2, <1>3, <1>4, <1>5, <1>6 DEF Graph!GNext, Proved!GNext

LEMMA SameInvariantNext == Proved!GraphInv' <=> Graph!GraphInv'
BY DEF Proved!GraphInv, Graph!GraphInv, Proved!GTypeOK, Graph!GTypeOK, Proved!IndexesMirror,
       Graph!IndexesMirror, Proved!NoDanglingEdge, Graph!NoDanglingEdge, Proved!Acyclic,
       Graph!Acyclic, Proved!Ids, Graph!Ids, Proved!Parents, Graph!Parents,
       Proved!Dependency, Graph!Dependency

LEMMA GraphSound ==
    ASSUME Graph!GraphInv, [Graph!GNext]_(Graph!gvars)
    PROVE  Graph!GraphInv'
<1>1. Proved!GraphInv /\ [Proved!GNext]_(Proved!gvars)
    BY SameInvariant, SameSteps
<1>2. Proved!GraphAssumption
    BY WorkflowAssumption DEF Proved!GraphAssumption
<1>3. Proved!GraphInv'
    BY <1>1, <1>2, Proved!GraphStep
<1>4. QED
    BY <1>3, SameInvariantNext

\* The graph operations, slices and all, implement those of DependencyGraph:
\* adding and removing dependencies, and removing an entry by hand or because
\* it has run once (cron.go:2566-2702).  So the invariants proved of that
\* module hold of the slices the scheduler works on.
THEOREM ImplementsDependencyGraph == WSpec => ImplementsGraph
<1>1. WInit => GraphTypes /\ Graph!GraphInv
    BY GraphInitially
<1>2. GraphTypes /\ [WNext]_wvars => GraphTypes' /\ [Graph!GNext]_(Graph!gvars)
    BY StepRefines
<1>3. QED
    BY <1>1, <1>2, PTL DEF WSpec, ImplementsGraph

-----------------------------------------------------------------------------
(* The operations keep the invariant *)

\* Goroutines started for the entries of a sequence, in addition to those
\* there are.
LEMMA StartJobsFacts ==
    ASSUME WTypes, NEW x \in Execs, NEW ids \in Seq(Ids), StartJobs(x, ids)
    PROVE  /\ jobs \subseteq jobs' /\ jobs' \subseteq Job
           /\ dispatched' \in [Execs -> [Ids -> Nat]]
           /\ \A j \in jobs' \ jobs : j.exec = x /\ Seen(ids, j.id) /\ j.live = ~baseCancelled
           /\ \A i \in Ids : Seen(ids, i) => \E j \in jobs' : j.exec = x /\ j.id = i
<1> DEFINE times(i)   == Cardinality({k \in DOMAIN ids : ids[k] = i})
           started(i) == {[exec |-> x, id |-> i, nr |-> dispatched[x][i] + m, live |-> ~baseCancelled] :
                             m \in 1..times(i)}
<1>1. ASSUME NEW i
      PROVE  times(i) \in Nat /\ (times(i) = 0 <=> ~Seen(ids, i))
    <2> DEFINE S == {k \in DOMAIN ids : ids[k] = i}
    <2>1. DOMAIN ids = 1..Len(ids) /\ Len(ids) \in Int
        OBVIOUS
    <2>2. IsFiniteSet(DOMAIN ids)
        BY <2>1, FS_Interval
    <2>3. S \in SUBSET (DOMAIN ids)
        OBVIOUS
    <2>4. S = {} <=> ~Seen(ids, i)
        BY DEF Seen
    <2> HIDE DEF S
    <2>5. IsFiniteSet(S)
        BY <2>2, <2>3, FS_Subset
    <2>6. Cardinality(S) \in Nat /\ (Cardinality(S) = 0 <=> S = {})
        BY <2>5, FS_CardinalityType, FS_EmptySet
    <2>7. QED
        BY <2>4, <2>6 DEF S
<1>2. /\ jobs' = jobs \union UNION {started(i) : i \in Ids}
      /\ dispatched' = [dispatched EXCEPT ![x] = [i \in Ids |-> @[i] + times(i)]]
    BY DEF StartJobs
<1> HIDE DEF times
<1>3. dispatched \in [Execs -> [Ids -> Nat]] /\ dispatched[x] \in [Ids -> Nat]
    BY DEF WTypes
<1>4. dispatched' \in [Execs -> [Ids -> Nat]]
    <2>1. [i \in Ids |-> dispatched[x][i] + times(i)] \in [Ids -> Nat]
        BY <1>1, <1>3
    <2>2. QED
        BY <1>2, <1>3, <2>1
<1>5. ASSUME NEW i \in Ids, NEW j \in started(i)
      PROVE  j \in Job /\ j.exec = x /\ j.id = i /\ Seen(ids, i) /\ j.live = ~baseCancelled
    <2>1. PICK m \in 1..times(i) :
              j = [exec |-> x, id |-> i, nr |-> dispatched[x][i] + m, live |-> ~baseCancelled]
        OBVIOUS
    <2>2. times(i) # 0 /\ m \in Nat /\ dispatched[x][i] \in Nat
        BY <1>1, <1>3, <2>1
    <2>3. baseCancelled \in BOOLEAN
        BY DEF WTypes
    <2>4. QED
        BY <1>1, <2>1, <2>2, <2>3 DEF Job
<1>6. ASSUME NEW i \in Ids, Seen(ids, i)
      PROVE  \E j \in jobs' : j.exec = x /\ j.id = i
    <2> DEFINE j == [exec |-> x, id |-> i, nr |-> dispatched[x][i] + 1, live |-> ~baseCancelled]
    <2>1. 1 \in 1..times(i)
        BY <1>1, <1>6
    <2>2. j \in started(i) /\ j.exec = x /\ j.id = i
        BY <2>1
    <2> HIDE DEF j, started
    <2>3. QED
        BY <1>2, <2>2
<1>7. jobs \subseteq Job
    BY DEF WTypes
<1> HIDE DEF started
<1>8. QED
    BY <1>2, <1>4, <1>5, <1>6, <1>7

LEMMA TakenEvent ==
    ASSUME NEW q \in Seq(Event), q # <<>>
    PROVE  /\ Head(q) \in Event /\ Tail(q) \in Seq(Event) /\ Len(Tail(q)) = Len(q) - 1
           /\ \A e : (\E k \in DOMAIN q : q[k] = e) <=> e = Head(q) \/ \E k \in DOMAIN Tail(q) : Tail(q)[k] = e
<1>1. /\ Len(q) \in Nat /\ Len(q) > 0 /\ DOMAIN q = 1..Len(q) /\ Head(q) = q[1] /\ Head(q) \in Event
      /\ Tail(q) \in Seq(Event) /\ Len(Tail(q)) = Len(q) - 1
      /\ DOMAIN Tail(q) = 1..(Len(q) - 1)
      /\ \A k \in 1..(Len(q) - 1) : Tail(q)[k] = q[k + 1]
    OBVIOUS
<1> DEFINE t == Tail(q)
           h == Head(q)
<1> HIDE DEF t, h
<1>2. /\ Len(q) \in Nat /\ Len(q) > 0 /\ DOMAIN q = 1..Len(q) /\ h = q[1] /\ DOMAIN t = 1..(Len(q) - 1)
      /\ \A k \in 1..(Len(q) - 1) : t[k] = q[k + 1]
    BY <1>1 DEF t, h
<1>3. ASSUME NEW k \in 1..Len(q), k # 1
      PROVE  k - 1 \in 1..(Len(q) - 1) /\ t[k - 1] = q[k]
    <2>1. k - 1 \in 1..(Len(q) - 1) /\ (k - 1) + 1 = k
        BY <1>2, <1>3
    <2>2. QED
        BY <1>2, <2>1
<1>4. \A k \in 1..(Len(q) - 1) : k + 1 \in 1..Len(q)
    BY <1>2
<1>5. 1 \in 1..Len(q)
    BY <1>2
<1>6. \A e : (\E k \in DOMAIN q : q[k] = e) <=> e = h \/ \E k \in DOMAIN t : t[k] = e
    BY <1>2, <1>3, <1>4, <1>5
<1>7. QED
    BY <1>1, <1>6 DEF t, h

LEMMA SentEvent ==
    ASSUME NEW q \in Seq(Event), NEW a \in Event
    PROVE  /\ Append(q, a) \in Seq(Event) /\ Len(Append(q, a)) = Len(q) + 1
           /\ \A e : (\E k \in DOMAIN Append(q, a) : Append(q, a)[k] = e) <=>
                  e = a \/ \E k \in DOMAIN q : q[k] = e
<1> DEFINE t == Append(q, a)
<1>1. /\ t \in Seq(Event) /\ Len(q) \in Nat /\ Len(t) = Len(q) + 1
      /\ DOMAIN t = 1..(Len(q) + 1) /\ DOMAIN q = 1..Len(q)
      /\ t[Len(q) + 1] = a /\ \A k \in 1..Len(q) : t[k] = q[k]
    OBVIOUS
<1> HIDE DEF t
<1>2. /\ \A k \in 1..(Len(q) + 1) : k = Len(q) + 1 \/ k \in 1..Len(q)
      /\ \A k \in 1..Len(q) : k \in 1..(Len(q) + 1)
      /\ Len(q) + 1 \in 1..(Len(q) + 1)
    BY <1>1
<1>3. \A e : (\E k \in DOMAIN t : t[k] = e) <=> e = a \/ \E k \in DOMAIN q : q[k] = e
    BY <1>1, <1>2
<1>4. QED
    BY <1>1, <1>3 DEF t

\* The parts of WInv besides the graph.
ExecInv ==
    /\ WTypes
    /\ StepsKnown /\ NoneComplete /\ CancelledDisturbed /\ PendingExplained /\ LiveJobsBelong

\* Every participant but the root is a child of another.
LEMMA ParticipantsHaveParents ==
    ASSUME GraphTypes, Graph!GraphInv, NEW id \in Ids, NEW i \in Participants(id), i # id
    PROVE  entryDeps[i] # {}
<1> DEFINE S == Ids \ {i}
<1>1. i \in Ids /\ id \in S /\ i \notin S /\ S \in SUBSET Ids
    BY DEF Participants
<1>2. PICK p \in S : ~(ChildSets[p] \subseteq S)
    BY <1>1 DEF Participants
<1>3. ChildSets \in [Ids -> SUBSET Ids]
    BY ChildrenAreLists DEF GraphTypes
<1>4. p \in Ids /\ i \in ChildSets[p]
    BY <1>2, <1>3
<1>5. p \in Graph!Parents(i)
    BY <1>1, <1>4, GraphIds DEF Graph!GraphInv, Graph!IndexesMirror
<1>6. QED
    BY <1>5, GraphIds

LEMMA FireKeeps ==
    ASSUME ExecInv, Graph!GraphInv, NEW id \in Ids, Fire(id), GraphTypes'
    PROVE  ExecInv'
<1> USE DEF ExecInv
<1> DEFINE x   == nextExec
           new == [root |-> id, results |-> [i \in Participants(id) |-> "Pending"]]
<1>1. /\ running /\ x \in Execs /\ x \notin DOMAIN active /\ MaxExecs \in Nat
      /\ nextExec' = x + 1 /\ x \in Nat
      /\ id \in entryIndex /\ StartJobs(x, <<id>>)
      /\ UNCHANGED <<running, baseCancelled, paused, completed, jobDone, edits>>
    BY WorkflowAssumption DEF Fire, WTypes, Execs
<1>2. /\ jobs \subseteq jobs' /\ jobs' \subseteq Job
      /\ dispatched' \in [Execs -> [Ids -> Nat]]
      /\ \A j \in jobs' \ jobs : j.exec = x /\ j.id = id /\ j.live = ~baseCancelled
      /\ \E j \in jobs' : j.exec = x /\ j.id = id
    <2> DEFINE ids == <<id>>
    <2>1. ids \in Seq(Ids) /\ \A i : Seen(ids, i) <=> i = id
        BY DEF Seen
    <2> HIDE DEF ids
    <2>2. StartJobs(x, ids)
        BY <1>1 DEF ids
    <2>3. QED
        BY <1>1, <2>1, <2>2, StartJobsFacts
<1>3. Participants(id) \in SUBSET Ids /\ id \in Participants(id)
    BY DEF Participants
<1>4. new \in [root : Ids, results : ResultMaps]
    BY <1>3 DEF ResultMaps, Results
<1>5. /\ DOMAIN active' = DOMAIN active \union {x}
      /\ active' \in [DOMAIN active' -> [root : Ids, results : ResultMaps]]
      /\ active'[x] = new
      /\ \A y \in DOMAIN active : active'[y] = active[y] /\ y # x
    <2>1. active' = [y \in DOMAIN active \union {x} |-> IF y = x THEN new ELSE active[y]]
        BY DEF Fire
    <2> HIDE DEF new
    <2>2. QED
        BY <1>1, <1>4, <2>1 DEF WTypes
<1>6. WTypes'
    <2>1. DOMAIN active' \subseteq 1..(nextExec' - 1) /\ nextExec' \in 1..(MaxExecs + 1)
        BY <1>1, <1>5 DEF WTypes, Execs
    <2>2. disturbed' \subseteq Execs
        BY <1>1 DEF Fire, WTypes, Execs
    <2>3. QED
        BY <1>1, <1>2, <1>5, <2>1, <2>2 DEF WTypes, GraphTypes
<1>7. StepsKnown'
    <2>1. SUFFICES ASSUME NEW y \in Execs, NEW i \in Ids, UnderWay(y, i)'
                   PROVE  y < nextExec' /\ (y \in DOMAIN active' => i \in DOMAIN active'[y].results)
        BY DEF StepsKnown
    <2>2. UnderWay(y, i) \/ (y = x /\ i = id)
        BY <1>1, <1>2, <2>1 DEF UnderWay
    <2>3. CASE UnderWay(y, i)
        <3>1. y < x /\ (y \in DOMAIN active => i \in DOMAIN active[y].results)
            BY <2>3 DEF StepsKnown
        <3>2. y \in Nat
            BY <1>1 DEF Execs
        <3>3. QED
            BY <1>1, <1>5, <3>1, <3>2
    <2>4. CASE y = x /\ i = id
        BY <1>1, <1>3, <1>5, <2>4
    <2>5. QED
        BY <2>2, <2>3, <2>4
<1>8. NoneComplete'
    BY <1>3, <1>5 DEF NoneComplete
<1>9. /\ baseCancelled => x \in disturbed'
      /\ id \in RunOnce => DOMAIN active' \subseteq disturbed'
      /\ disturbed \subseteq disturbed'
    <2>1. disturbed' = IF baseCancelled THEN disturbed \union {x}
                       ELSE IF id \in RunOnce THEN disturbed \union DOMAIN active \union {x}
                       ELSE disturbed
        BY DEF Fire
    <2>2. baseCancelled => DOMAIN active \subseteq disturbed
        BY DEF CancelledDisturbed
    <2>3. CASE baseCancelled
        BY <1>5, <2>1, <2>2, <2>3
    <2>4. CASE ~baseCancelled
        BY <1>5, <2>1, <2>4
    <2>5. QED
        BY <2>3, <2>4
<1>10. CancelledDisturbed'
    <2>1. ASSUME NEW j \in jobs', ~j.live, j.exec \in DOMAIN active'
          PROVE  j.exec \in disturbed'
        <3>1. CASE j \in jobs
            <4>1. j.exec \in Execs /\ j.id \in Ids /\ UnderWay(j.exec, j.id)
                BY <3>1 DEF WTypes, Job, UnderWay
            <4>2. j.exec < x
                BY <4>1 DEF StepsKnown
            <4>3. j.exec \in DOMAIN active
                BY <1>1, <1>5, <2>1, <4>2
            <4>4. j.exec \in disturbed
                BY <2>1, <3>1, <4>3 DEF CancelledDisturbed
            <4>5. QED
                BY <1>9, <4>4
        <3>2. CASE j \notin jobs
            <4>1. j.exec = x /\ baseCancelled
                BY <1>2, <2>1, <3>2
            <4>2. QED
                BY <1>9, <4>1
        <3>3. QED
            BY <3>1, <3>2
    <2>2. baseCancelled' => DOMAIN active' \subseteq disturbed'
        BY <1>1, <1>5, <1>9 DEF CancelledDisturbed
    <2>3. QED
        BY <2>1, <2>2 DEF CancelledDisturbed
<1>11. PendingExplained'
    <2>1. SUFFICES ASSUME NEW y \in DOMAIN active' \ disturbed', NEW i \in DOMAIN active'[y].results,
                          active'[y].results[i] = "Pending"
                   PROVE  \/ UnderWay(y, i)'
                          \/ /\ i # active'[y].root
                             /\ \E d \in entryDeps'[i] : ~Resolved(active'[y].results, d.parent)
        BY Zenon DEF PendingExplained
    <2>2. id \notin RunOnce
        BY <1>9, <2>1
    <2>3. entryDeps' = entryDeps
        BY <2>2 DEF Fire, graph
    <2>4. CASE y = x
        <3>1. CASE i = id
            BY <1>2, <2>4, <3>1 DEF UnderWay
        <3>2. CASE i # id
            <4>1. active'[y].results = new.results /\ active'[y].root = id /\ i \in Participants(id)
                BY <1>5, <2>1, <2>4
            <4>2. PICK d \in entryDeps[i] : TRUE
                <5>1. GraphTypes
                    BY DEF WTypes, GraphTypes
                <5>2. entryDeps[i] # {}
                    BY <3>2, <4>1, <5>1, ParticipantsHaveParents
                <5>3. QED
                    BY <5>2
            <4>3. /\ DOMAIN new.results = Participants(id)
                  /\ \A k \in Participants(id) : new.results[k] = "Pending"
                OBVIOUS
            <4> HIDE DEF new
            <4>4. ~Resolved(new.results, d.parent)
                BY <4>3 DEF Resolved, IsTerminal
            <4>5. QED
                BY <2>3, <3>2, <4>1, <4>2, <4>4
        <3>3. QED
            BY <3>1, <3>2
    <2>5. CASE y # x
        <3>1. y \in DOMAIN active \ disturbed /\ active'[y] = active[y]
            BY <1>5, <1>9, <2>1, <2>5
        <3>2. UnderWay(y, i) => UnderWay(y, i)'
            BY <1>1, <1>2 DEF UnderWay
        <3>3. QED
            BY <2>1, <2>3, <3>1, <3>2 DEF PendingExplained
    <2>6. QED
        BY <2>4, <2>5
<1>12. LiveJobsBelong'
    <2>1. entryIndex \subseteq entryIndex' \union RunOnce
        BY DEF Fire, graph
    <2>2. QED
        BY <1>1, <1>2, <2>1 DEF LiveJobsBelong
<1>13. QED
    BY <1>6, <1>7, <1>8, <1>10, <1>11, <1>12

\* A job that ends and reports is under way as an event.
LEMMA ReportKeeps ==
    ASSUME ExecInv, NEW j \in jobs, NEW r \in Results \ {"Pending"}, Report(j, r)
    PROVE  ExecInv'
<1> USE DEF ExecInv
<1> DEFINE event == [exec |-> j.exec, id |-> j.id, result |-> r]
<1>1. /\ j.exec \in Execs /\ j.id \in Ids /\ event \in Event /\ jobDone \in Seq(Event)
      /\ DoneCapacity \in Nat /\ Len(jobDone) \in Nat
    BY WorkflowAssumption DEF WTypes, Job, Event
<1>2. /\ Len(jobDone) < DoneCapacity /\ jobs' = jobs \ {j} /\ jobDone' = Append(jobDone, event)
      /\ UNCHANGED <<running, baseCancelled, entryIndex, entryDeps, parentToChildren, paused,
                     active, completed, nextExec, dispatched, edits, disturbed>>
    BY DEF Report, graph, execs
<1>3. event.exec = j.exec /\ event.id = j.id
    OBVIOUS
<1> HIDE DEF event
<1>4. /\ jobDone' \in Seq(Event) /\ Len(jobDone') = Len(jobDone) + 1
      /\ \A e : (\E k \in DOMAIN jobDone' : jobDone'[k] = e) <=>
             e = event \/ \E k \in DOMAIN jobDone : jobDone[k] = e
    BY <1>1, <1>2, SentEvent
<1>5. ASSUME NEW y, NEW i
      PROVE  UnderWay(y, i)' <=> UnderWay(y, i)
    <2>1. (\E k \in DOMAIN jobDone' : jobDone'[k].exec = y /\ jobDone'[k].id = i) <=>
              \/ event.exec = y /\ event.id = i
              \/ \E k \in DOMAIN jobDone : jobDone[k].exec = y /\ jobDone[k].id = i
        BY <1>4, ZenonT(60)
    <2>2. QED
        BY <1>2, <1>3, <2>1 DEF UnderWay
<1>6. WTypes'
    <2>1. Len(jobDone') <= DoneCapacity
        BY <1>1, <1>2, <1>4
    <2>2. QED
        BY <1>2, <1>4, <2>1 DEF WTypes, ChildTypes
<1>7. StepsKnown'
    BY <1>2, <1>5 DEF StepsKnown
<1>8. PendingExplained'
    BY <1>2, <1>5, Zenon DEF PendingExplained
<1>9. NoneComplete' /\ CancelledDisturbed' /\ LiveJobsBelong'
    BY <1>2 DEF NoneComplete, CancelledDisturbed, LiveJobsBelong
<1>10. QED
    BY <1>6, <1>7, <1>8, <1>9

\* Only a cancelled run ends without an event, and its execution is disturbed.
LEMMA AbandonKeeps ==
    ASSUME ExecInv, NEW j \in jobs, Abandon(j)
    PROVE  ExecInv'
<1> USE DEF ExecInv
<1>1. /\ ~j.live /\ jobs' = jobs \ {j}
      /\ UNCHANGED <<running, baseCancelled, entryIndex, entryDeps, parentToChildren, paused,
                     active, completed, nextExec, dispatched, jobDone, edits, disturbed>>
    BY DEF Abandon, graph, execs
<1>2. \A y, i : UnderWay(y, i)' => UnderWay(y, i)
    BY <1>1 DEF UnderWay
<1>3. \A y, i : UnderWay(y, i) => UnderWay(y, i)' \/ y = j.exec
    BY <1>1 DEF UnderWay
<1>4. WTypes'
    BY <1>1 DEF WTypes, ChildTypes
<1>5. StepsKnown'
    BY <1>1, <1>2 DEF StepsKnown
<1>6. PendingExplained'
    <2>1. j.exec \in DOMAIN active => j.exec \in disturbed
        BY <1>1 DEF CancelledDisturbed
    <2>2. SUFFICES ASSUME NEW y \in DOMAIN active \ disturbed, NEW i \in DOMAIN active[y].results,
                          active[y].results[i] = "Pending"
                   PROVE  \/ UnderWay(y, i)'
                          \/ /\ i # active[y].root
                             /\ \E d \in entryDeps[i] : ~Resolved(active[y].results, d.parent)
        BY <1>1, Zenon DEF PendingExplained
    <2>3. y # j.exec
        BY <2>1, <2>2
    <2>4. QED
        BY <1>3, <2>2, <2>3 DEF PendingExplained
<1>7. NoneComplete' /\ CancelledDisturbed' /\ LiveJobsBelong'
    BY <1>1 DEF NoneComplete, CancelledDisturbed, LiveJobsBelong
<1>8. QED
    BY <1>4, <1>5, <1>6, <1>7

\* What changes from outside: an edit disturbs every active execution, and it
\* may cancel runs.
LEMMA OutsideKeeps ==
    ASSUME ExecInv, GraphTypes',
           running' \in BOOLEAN, baseCancelled' \in BOOLEAN, paused' \subseteq Ids, edits' \in Nat,
           UNCHANGED <<active, completed, nextExec, dispatched, jobDone>>,
           jobs' \subseteq Job,
           \A j \in jobs' : \E o \in jobs :
               o.exec = j.exec /\ o.id = j.id /\ (j.live => j = o),
           \A o \in jobs : \E j \in jobs' : o.exec = j.exec /\ o.id = j.id,
           \/ disturbed' = disturbed \union DOMAIN active
           \/ UNCHANGED <<disturbed, entryDeps, jobs, baseCancelled>>,
           LiveJobsBelong'
    PROVE  ExecInv'
<1> USE DEF ExecInv
<1>1. \A y, i : UnderWay(y, i)' <=> UnderWay(y, i)
    BY DEF UnderWay
<1>2. DOMAIN active \subseteq Execs
    BY WorkflowAssumption DEF WTypes, Execs
<1>3. WTypes'
    BY <1>2 DEF WTypes, GraphTypes
<1>4. StepsKnown' /\ NoneComplete'
    BY <1>1 DEF StepsKnown, NoneComplete
<1>5. CancelledDisturbed' /\ PendingExplained'
    <2>1. CASE disturbed' = disturbed \union DOMAIN active
        BY <2>1 DEF CancelledDisturbed, PendingExplained
    <2>2. CASE UNCHANGED <<disturbed, entryDeps, jobs, baseCancelled>>
        <3>1. CancelledDisturbed'
            BY <2>2 DEF CancelledDisturbed
        <3>2. PendingExplained'
            BY <1>1, <2>2, Zenon DEF PendingExplained
        <3>3. QED
            BY <3>1, <3>2
    <2>3. QED
        BY <2>1, <2>2
<1>6. QED
    BY <1>3, <1>4, <1>5

\* Runs of which some are cancelled.
LEMMA CancelFacts ==
    ASSUME WTypes, NEW I,
           jobs' = {IF j.id \in I THEN [j EXCEPT !.live = FALSE] ELSE j : j \in jobs}
    PROVE  /\ jobs' \subseteq Job
           /\ \A j \in jobs' : j.live => j.id \notin I
           /\ \A j \in jobs' : \E o \in jobs :
                  o.exec = j.exec /\ o.id = j.id /\ (j.live => j = o)
           /\ \A o \in jobs : \E j \in jobs' : o.exec = j.exec /\ o.id = j.id
<1> DEFINE f(o) == IF o.id \in I THEN [o EXCEPT !.live = FALSE] ELSE o
<1>1. ASSUME NEW o \in jobs
      PROVE  /\ f(o) \in Job /\ f(o).exec = o.exec /\ f(o).id = o.id
             /\ f(o).live => o = f(o) /\ o.id \notin I
    BY DEF WTypes, Job
<1>2. jobs' = {f(o) : o \in jobs}
    OBVIOUS
<1> HIDE DEF f
<1>3. QED
    BY <1>1, <1>2

\* Pauses, edits, stopping and starting.
LEMMA ChangesKeep ==
    ASSUME ExecInv, GraphTypes',
           \/ \E id \in Pausable : SetPaused(id)
           \/ \E id \in Ids : RemoveEntry(id) \/ UpdateEntry(id)
           \/ \E e \in Edge : AddDependency(e)
           \/ \E child, parent \in Ids : RemoveDependency(child, parent)
           \/ Stop \/ Start
           \/ UNCHANGED wvars
    PROVE  ExecInv'
<1>1. /\ running \in BOOLEAN /\ baseCancelled \in BOOLEAN /\ paused \subseteq Ids /\ edits \in Nat
      /\ jobs \subseteq Job /\ WTypes /\ LiveJobsBelong
    BY DEF ExecInv, WTypes
<1>2. ASSUME UNCHANGED jobs
      PROVE  /\ jobs' \subseteq Job
             /\ \A j \in jobs' : \E o \in jobs :
                    o.exec = j.exec /\ o.id = j.id /\ (j.live => j = o)
             /\ \A o \in jobs : \E j \in jobs' : o.exec = j.exec /\ o.id = j.id
    BY <1>1, <1>2
<1>3. ASSUME NEW id \in Pausable, SetPaused(id)
      PROVE  ExecInv'
    <2>1. /\ UNCHANGED <<active, completed, nextExec, dispatched, jobDone, running, baseCancelled,
                         jobs, edits, entryIndex, disturbed, entryDeps>>
          /\ paused' = IF id \in paused THEN paused \ {id} ELSE paused \union {id}
        BY <1>3 DEF SetPaused, graph, execs
    <2>2. paused' \subseteq Ids
        BY <1>1, <2>1, WorkflowAssumption
    <2>3. LiveJobsBelong'
        BY <1>1, <2>1 DEF LiveJobsBelong
    <2>4. QED
        BY <1>1, <1>2, <2>1, <2>2, <2>3, OutsideKeeps
<1>4. ASSUME NEW id \in Ids, Cancel(id), Edit, \/ UNCHANGED entryIndex
                                               \/ entryIndex' = entryIndex \ {id},
             UNCHANGED <<active, completed, nextExec, dispatched, jobDone, running, baseCancelled, paused>>
      PROVE  ExecInv'
    <2> DEFINE I == {id}
    <2>1. jobs' = {IF j.id \in I THEN [j EXCEPT !.live = FALSE] ELSE j : j \in jobs}
        BY <1>4 DEF Cancel
    <2> HIDE DEF I
    <2>2. /\ jobs' \subseteq Job
          /\ \A j \in jobs' : j.live => j.id \notin I
          /\ \A j \in jobs' : \E o \in jobs :
                 o.exec = j.exec /\ o.id = j.id /\ (j.live => j = o)
          /\ \A o \in jobs : \E j \in jobs' : o.exec = j.exec /\ o.id = j.id
        BY <1>1, <2>1, CancelFacts
    <2>3. LiveJobsBelong'
        BY <1>1, <1>4, <2>2 DEF LiveJobsBelong, I
    <2>4. edits' \in Nat /\ disturbed' = disturbed \union DOMAIN active
        BY <1>1, <1>4 DEF Edit
    <2>5. QED
        BY <1>1, <1>4, <2>2, <2>3, <2>4, OutsideKeeps
<1>5. ASSUME NEW id \in Ids, RemoveEntry(id) \/ UpdateEntry(id)
      PROVE  ExecInv'
    BY <1>4, <1>5 DEF RemoveEntry, UpdateEntry, graph, execs
<1>6. ASSUME Edit, UNCHANGED <<active, completed, nextExec, dispatched, jobDone, running,
                               baseCancelled, paused, jobs, entryIndex>>
      PROVE  ExecInv'
    <2>1. LiveJobsBelong'
        BY <1>1, <1>6 DEF LiveJobsBelong
    <2>2. edits' \in Nat /\ disturbed' = disturbed \union DOMAIN active
        BY <1>1, <1>6 DEF Edit
    <2>3. QED
        BY <1>1, <1>2, <1>6, <2>1, <2>2, OutsideKeeps
<1>7. ASSUME \/ \E e \in Edge : AddDependency(e)
             \/ \E child, parent \in Ids : RemoveDependency(child, parent)
      PROVE  ExecInv'
    BY <1>6, <1>7 DEF AddDependency, RemoveDependency, execs
<1>8. ASSUME Stop
      PROVE  ExecInv'
    <2>1. /\ jobs' = {[j EXCEPT !.live = FALSE] : j \in jobs}
          /\ UNCHANGED <<active, completed, nextExec, dispatched, jobDone, entryIndex, paused>>
          /\ running' = FALSE /\ baseCancelled' = TRUE /\ Edit
        BY <1>8 DEF Stop, graph, execs
    <2>2. jobs' = {IF j.id \in Ids THEN [j EXCEPT !.live = FALSE] ELSE j : j \in jobs}
        BY <1>1, <2>1 DEF Job
    <2>3. /\ jobs' \subseteq Job
          /\ \A j \in jobs' : j.live => j.id \notin Ids
          /\ \A j \in jobs' : \E o \in jobs :
                 o.exec = j.exec /\ o.id = j.id /\ (j.live => j = o)
          /\ \A o \in jobs : \E j \in jobs' : o.exec = j.exec /\ o.id = j.id
        BY <1>1, <2>2, CancelFacts
    <2>4. LiveJobsBelong'
        BY <2>3 DEF LiveJobsBelong, Job
    <2>5. edits' \in Nat /\ disturbed' = disturbed \union DOMAIN active
        BY <1>1, <2>1 DEF Edit
    <2>6. QED
        BY <1>1, <2>1, <2>3, <2>4, <2>5, OutsideKeeps
<1>9. ASSUME Start \/ UNCHANGED wvars
      PROVE  ExecInv'
    <2>1. /\ UNCHANGED <<active, completed, nextExec, dispatched, jobDone, baseCancelled,
                         jobs, edits, entryIndex, disturbed, entryDeps, paused>>
          /\ running' \in BOOLEAN
        BY <1>1, <1>9 DEF Start, wvars, graph, execs
    <2>2. LiveJobsBelong'
        BY <1>1, <2>1 DEF LiveJobsBelong
    <2>3. QED
        BY <1>1, <1>2, <2>1, <2>2, OutsideKeeps
<1>10. QED
    BY <1>3, <1>5, <1>7, <1>8, <1>9

LEMMA IndexesInstance == WTypes /\ Graph!GraphInv => Mirrored /\ Anchored
<1> SUFFICES ASSUME WTypes, Graph!GraphInv PROVE Mirrored /\ Anchored
    OBVIOUS
<1>1. \A p \in Ids : \A c : c \in ChildSets[p] <=> Seen(parentToChildren[p], c)
    BY ChildrenAreLists DEF WTypes
<1>2. Mirrored
    <2>1. \A c, p \in Ids : c \in ChildSets[p] <=> p \in Graph!Parents(c)
        BY GraphIds DEF Graph!GraphInv, Graph!IndexesMirror
    <2>2. QED
        BY <1>1, <2>1, GraphIds DEF Mirrored
<1>3. Anchored
    <2>1. \A c \in Ids \ entryIndex : entryDeps[c] = {}
        BY GraphIds DEF Graph!GraphInv, Graph!NoDanglingEdge
    <2>2. QED
        BY <2>1 DEF Anchored
<1>4. QED
    BY <1>2, <1>3

\* The completed executions after one more.
LEMMA RetainedFacts ==
    ASSUME WTypes, NEW c \in [exec : Execs, results : ResultMaps]
    PROVE  /\ Retained(Append(completed, c)) \in Seq([exec : Execs, results : ResultMaps])
           /\ Retention > 0 => Len(Retained(Append(completed, c))) <= Retention
<1> DEFINE q == Append(completed, c)
           T == [exec : Execs, results : ResultMaps]
<1>1. completed \in Seq(T) /\ (Retention > 0 => Len(completed) <= Retention) /\ Retention \in Nat
    BY WorkflowAssumption DEF WTypes
<1> HIDE DEF T
<1>2. /\ q \in Seq(T) /\ Len(q) = Len(completed) + 1 /\ Len(completed) \in Nat /\ q # <<>>
      /\ Tail(q) \in Seq(T) /\ Len(Tail(q)) = Len(q) - 1
    BY <1>1 DEF T
<1> HIDE DEF q
<1>3. Retained(q) \in Seq(T) /\ (Retention > 0 => Len(Retained(q)) <= Retention)
    BY <1>1, <1>2 DEF Retained
<1>4. QED
    BY <1>3 DEF q, T

\* The run loop takes an event: the evaluation accounts for every entry that
\* is still pending.
LEMMA JobDoneKeeps ==
    ASSUME ExecInv, Graph!GraphInv, JobDone
    PROVE  ExecInv'
<1> USE DEF ExecInv
<1> DEFINE e == Head(jobDone)
           x == e.exec
<1>1. /\ e \in Event /\ jobDone' \in Seq(Event) /\ Len(jobDone') = Len(jobDone) - 1 /\ Len(jobDone) \in Nat
      /\ \A f : (\E k \in DOMAIN jobDone : jobDone[k] = f) <=>
             f = e \/ \E k \in DOMAIN jobDone' : jobDone'[k] = f
    <2>1. jobDone \in Seq(Event) /\ jobDone # <<>> /\ jobDone' = Tail(jobDone) /\ Len(jobDone) \in Nat
        BY DEF JobDone, WTypes
    <2>2. QED
        BY <2>1, TakenEvent, ZenonT(60)
<1>2. /\ UNCHANGED <<running, baseCancelled, entryIndex, entryDeps, parentToChildren, paused,
                     nextExec, edits, disturbed>>
      /\ IF x \in DOMAIN active THEN Process(e) ELSE UNCHANGED <<active, completed, dispatched, jobs>>
    BY DEF JobDone, graph
<1>3. x \in Execs /\ e.id \in Ids /\ e.result \in Results \ {"Pending"}
    BY <1>1 DEF Event
<1>4. UnderWay(x, e.id)
    BY <1>1 DEF UnderWay
<1> HIDE DEF e
<1>5. ASSUME NEW y, NEW i
      PROVE  (\E k \in DOMAIN jobDone : jobDone[k].exec = y /\ jobDone[k].id = i) <=>
                 \/ x = y /\ e.id = i
                 \/ \E k \in DOMAIN jobDone' : jobDone'[k].exec = y /\ jobDone'[k].id = i
    BY <1>1, ZenonT(60)
<1>6. Len(jobDone') <= DoneCapacity
    BY <1>1, WorkflowAssumption DEF WTypes
<1>7. CASE x \notin DOMAIN active
    <2>1. UNCHANGED <<active, completed, dispatched, jobs>>
        BY <1>2, <1>7
    <2>2. \A y, i : UnderWay(y, i)' => UnderWay(y, i)
        BY <1>5, <2>1 DEF UnderWay
    <2>3. \A y, i : UnderWay(y, i) => UnderWay(y, i)' \/ y = x
        BY <1>5, <2>1 DEF UnderWay
    <2>4. WTypes'
        BY <1>1, <1>2, <1>6, <2>1 DEF WTypes, ChildTypes
    <2>5. StepsKnown'
        BY <1>2, <2>1, <2>2 DEF StepsKnown
    <2>6. PendingExplained'
        BY <1>2, <1>7, <2>1, <2>3, Zenon DEF PendingExplained
    <2>7. NoneComplete' /\ CancelledDisturbed' /\ LiveJobsBelong'
        BY <1>2, <2>1 DEF NoneComplete, CancelledDisturbed, LiveJobsBelong
    <2>8. QED
        BY <2>4, <2>5, <2>6, <2>7
<1>8. CASE x \in DOMAIN active
    <2> DEFINE R  == active[x].results
               P  == DOMAIN R
               R0 == [R EXCEPT ![e.id] = e.result]
               s  == EvaluateChildren(R0, e.id)
    <2>1. P \in SUBSET Ids /\ R \in [P -> Results]
        <3>1. active[x].results \in ResultMaps
            BY <1>8 DEF WTypes
        <3>2. QED
            BY <3>1 DEF ResultMaps
    <2>2. e.id \in P /\ x < nextExec
        BY <1>3, <1>4, <1>8 DEF StepsKnown
    <2>3. R0 \in [P -> Results] /\ R0[e.id] # "Pending" /\ \A i \in P \ {e.id} : R0[i] = R[i]
        BY <1>3, <2>1, <2>2
    <2>4. Process(e)
        BY <1>2, <1>8
    <2>5. /\ StartJobs(x, s.started)
          /\ IF IsComplete(s.results)
             THEN /\ active' = WithoutExec(x)
                  /\ completed' = Retained(Append(completed, [exec |-> x, results |-> s.results]))
             ELSE /\ active' = [active EXCEPT ![x] = [active[x] EXCEPT !.results = s.results]]
                  /\ UNCHANGED completed
        BY <2>4 DEF Process
    <2> HIDE DEF R0
    <2>6. /\ s.results \in [P -> Results] /\ s.started \in Seq(Ids)
          /\ \A i \in P : s.results[i] # R0[i] => R0[i] = "Pending"
          /\ \A k \in DOMAIN s.started : s.started[k] \in entryIndex \intersect P
          /\ \A i \in P : s.results[i] = "Pending" /\ AllParentsResolved(s.results, i)
                 => \/ Seen(s.started, i)
                    \/ AllParentsResolved(R0, i) /\ ~Seen(parentToChildren[e.id], i)
        <3>1. ChildTypes /\ Mirrored /\ Anchored
            BY IndexesInstance DEF WTypes
        <3> HIDE DEF P
        <3>2. QED
            BY <1>3, <2>1, <2>3, <3>1, EvaluateFacts
    <2> HIDE DEF s
    <2>7. /\ jobs \subseteq jobs' /\ jobs' \subseteq Job
          /\ dispatched' \in [Execs -> [Ids -> Nat]]
          /\ \A j \in jobs' \ jobs : j.exec = x /\ Seen(s.started, j.id) /\ j.live = ~baseCancelled
          /\ \A i \in Ids : Seen(s.started, i) => \E j \in jobs' : j.exec = x /\ j.id = i
        BY <1>3, <2>5, <2>6, StartJobsFacts, SMTT(60)
    <2>8. s.results \in ResultMaps
        BY <2>1, <2>6 DEF ResultMaps
    <2>9. /\ DOMAIN active' \subseteq DOMAIN active
          /\ \A y \in DOMAIN active' : y # x => active'[y] = active[y]
          /\ x \in DOMAIN active' => /\ ~IsComplete(s.results)
                                     /\ active'[x].results = s.results
                                     /\ active'[x].root = active[x].root
          /\ active' \in [DOMAIN active' -> [root : Ids, results : ResultMaps]]
        <3>1. active \in [DOMAIN active -> [root : Ids, results : ResultMaps]]
            BY DEF WTypes
        <3> HIDE DEF R, P
        <3>2. CASE IsComplete(s.results)
            <4>1. active' = [y \in DOMAIN active \ {x} |-> active[y]]
                BY <2>5, <3>2 DEF WithoutExec
            <4>2. QED
                BY <3>1, <4>1
        <3>3. CASE ~IsComplete(s.results)
            <4> DEFINE new == [active[x] EXCEPT !.results = s.results]
            <4>1. active' = [active EXCEPT ![x] = new]
                BY <2>5, <3>3
            <4>2. new \in [root : Ids, results : ResultMaps] /\ new.results = s.results /\ new.root = active[x].root
                BY <1>8, <2>8, <3>1
            <4> HIDE DEF new
            <4>3. QED
                BY <1>8, <3>1, <3>3, <4>1, <4>2
        <3>4. QED
            BY <3>2, <3>3
    <2>10. /\ completed' \in Seq([exec : Execs, results : ResultMaps])
           /\ Retention > 0 => Len(completed') <= Retention
        <3>1. [exec |-> x, results |-> s.results] \in [exec : Execs, results : ResultMaps]
            BY <1>3, <2>8
        <3>2. CASE IsComplete(s.results)
            BY <2>5, <3>1, <3>2, RetainedFacts
        <3>3. CASE ~IsComplete(s.results)
            BY <2>5, <3>3 DEF WTypes
        <3>4. QED
            BY <3>2, <3>3
    <2> HIDE DEF R, P
    <2>11. ASSUME NEW y, NEW i, UnderWay(y, i)'
           PROVE  UnderWay(y, i) \/ (y = x /\ Seen(s.started, i))
        <3>1. CASE \E j \in jobs' : j.exec = y /\ j.id = i
            BY <2>7, <3>1 DEF UnderWay
        <3>2. CASE \E k \in DOMAIN jobDone' : jobDone'[k].exec = y /\ jobDone'[k].id = i
            BY <1>5, <3>2 DEF UnderWay
        <3>3. QED
            BY <2>11, <3>1, <3>2 DEF UnderWay
    <2>12. ASSUME NEW y, NEW i, UnderWay(y, i)
           PROVE  UnderWay(y, i)' \/ (y = x /\ i = e.id)
        <3>1. CASE \E j \in jobs : j.exec = y /\ j.id = i
            BY <2>7, <3>1 DEF UnderWay
        <3>2. CASE \E k \in DOMAIN jobDone : jobDone[k].exec = y /\ jobDone[k].id = i
            <4>1. \/ x = y /\ e.id = i
                  \/ \E k \in DOMAIN jobDone' : jobDone'[k].exec = y /\ jobDone'[k].id = i
                BY <1>5, <3>2, Zenon
            <4>2. CASE x = y /\ e.id = i
                BY <4>2, Zenon
            <4>3. CASE \E k \in DOMAIN jobDone' : jobDone'[k].exec = y /\ jobDone'[k].id = i
                BY <4>3, Zenon DEF UnderWay
            <4>4. QED
                BY <4>1, <4>2, <4>3, Zenon
        <3>3. QED
            BY <2>12, <3>1, <3>2 DEF UnderWay
    <2>13. WTypes'
        BY <1>1, <1>2, <1>6, <2>7, <2>9, <2>10 DEF WTypes, ChildTypes
    <2>14. StepsKnown'
        <3>1. SUFFICES ASSUME NEW y \in Execs, NEW i \in Ids, UnderWay(y, i)'
                       PROVE  y < nextExec /\ (y \in DOMAIN active' => i \in DOMAIN active'[y].results)
            BY <1>2 DEF StepsKnown
        <3>2. CASE UnderWay(y, i)
            BY <2>1, <2>6, <2>9, <3>2 DEF StepsKnown, P, R
        <3>3. CASE y = x /\ Seen(s.started, i)
            BY <2>2, <2>6, <2>9, <3>3 DEF Seen
        <3>4. QED
            BY <2>11, <3>1, <3>2, <3>3
    <2>15. NoneComplete'
        <3>1. SUFFICES ASSUME NEW y \in DOMAIN active'
                       PROVE  \E i \in DOMAIN active'[y].results : active'[y].results[i] = "Pending"
            BY DEF NoneComplete
        <3>2. CASE y = x
            <4>1. PICK i \in DOMAIN s.results : ~IsTerminal(s.results[i])
                BY <2>9, <3>2 DEF IsComplete
            <4>2. s.results[i] = "Pending"
                BY <2>6, <4>1 DEF IsTerminal, Results
            <4>3. QED
                BY <2>9, <3>2, <4>1, <4>2
        <3>3. CASE y # x
            BY <2>9, <3>3 DEF NoneComplete
        <3>4. QED
            BY <3>2, <3>3
    <2>16. CancelledDisturbed'
        BY <1>2, <1>8, <2>7, <2>9 DEF CancelledDisturbed
    <2>17. PendingExplained'
        <3>1. SUFFICES ASSUME NEW y \in DOMAIN active' \ disturbed, NEW i \in DOMAIN active'[y].results,
                              active'[y].results[i] = "Pending"
                       PROVE  \/ UnderWay(y, i)'
                              \/ /\ i # active'[y].root
                                 /\ \E d \in entryDeps[i] : ~Resolved(active'[y].results, d.parent)
            BY <1>2, Zenon DEF PendingExplained
        <3>2. CASE y # x
            BY <2>9, <2>12, <3>1, <3>2 DEF PendingExplained
        <3>3. CASE y = x
            <4>1. /\ i \in Ids /\ i \in P /\ s.results[i] = "Pending"
                  /\ R0[i] = "Pending" /\ i # e.id /\ R[i] = "Pending"
                BY <2>1, <2>3, <2>6, <2>9, <3>1, <3>3
            <4>2. UnderWay(x, i) => UnderWay(y, i)'
                BY <2>12, <3>3, <4>1
            <4>3. UnderWay(x, i) \/ (i # active[x].root /\ \E d \in entryDeps[i] : ~Resolved(R, d.parent))
                BY <1>8, <3>1, <3>3, <4>1 DEF PendingExplained, P, R
            <4>4. SUFFICES ASSUME AllParentsResolved(s.results, i), ~UnderWay(x, i)
                           PROVE  UnderWay(y, i)'
                BY <2>9, <3>1, <3>3, <4>2, <4>3 DEF AllParentsResolved
            <4>5. CASE Seen(s.started, i)
                BY <2>7, <3>3, <4>1, <4>5 DEF UnderWay
            <4>6. CASE AllParentsResolved(R0, i) /\ ~Seen(parentToChildren[e.id], i)
                <5>1. \A d \in entryDeps[i] : d.parent # e.id
                    BY <1>3, <4>1, <4>6, IndexesInstance DEF Mirrored
                <5>2. \A d \in entryDeps[i] : Resolved(R, d.parent)
                    BY <2>1, <2>3, <4>6, <5>1 DEF AllParentsResolved, Resolved
                <5>3. QED
                    BY <4>3, <4>4, <5>2
            <4>7. QED
                BY <2>6, <4>1, <4>4, <4>5, <4>6
        <3>4. QED
            BY <3>2, <3>3
    <2>18. LiveJobsBelong'
        <3>1. \A j \in jobs' \ jobs : j.live => ~baseCancelled /\ j.id \in entryIndex
            BY <2>6, <2>7 DEF Seen
        <3>2. QED
            BY <1>2, <3>1 DEF LiveJobsBelong
    <2>19. QED
        BY <2>13, <2>14, <2>15, <2>16, <2>17, <2>18
<1>9. QED
    BY <1>7, <1>8

-----------------------------------------------------------------------------
(* Theorems *)

LEMMA WInvInit == WInit => WInv
<1> SUFFICES ASSUME WInit PROVE WInv
    OBVIOUS
<1>1. GraphTypes /\ Graph!GraphInv
    BY GraphInitially
<1>2. /\ running = TRUE /\ baseCancelled = FALSE /\ paused = {}
      /\ active = [x \in {} |-> {}] /\ completed = <<>> /\ jobs = {} /\ jobDone = <<>>
      /\ nextExec = 1 /\ edits = 0 /\ disturbed = {}
      /\ dispatched = [x \in Execs |-> [i \in Ids |-> 0]]
    BY DEF WInit
<1>3. WTypes
    <2>1. DOMAIN active = {} /\ active \in [DOMAIN active -> [root : Ids, results : ResultMaps]]
        BY <1>2
    <2>2. MaxExecs \in Nat /\ DoneCapacity \in Nat /\ Len(completed) = 0 /\ Len(jobDone) = 0
        BY <1>2, WorkflowAssumption
    <2>3. dispatched \in [Execs -> [Ids -> Nat]]
        BY <1>2
    <2>4. \A T : <<>> \in Seq(T)
        OBVIOUS
    <2>5. jobDone \in Seq(Event) /\ completed \in Seq([exec : Execs, results : ResultMaps])
        BY <1>2, <2>4, Zenon
    <2>6. Retention > 0 => Len(completed) <= Retention
        BY <2>2, WorkflowAssumption
    <2>7. nextExec \in 1..(MaxExecs + 1) /\ Len(jobDone) <= DoneCapacity
        BY <1>2, <2>2
    <2>8. QED
        BY <1>1, <1>2, <2>1, <2>3, <2>5, <2>6, <2>7 DEF WTypes, GraphTypes
<1>4. \A x, i : ~UnderWay(x, i)
    BY <1>2 DEF UnderWay
<1>5. DOMAIN active = {}
    BY <1>2
<1>6. QED
    BY <1>1, <1>2, <1>3, <1>4, <1>5
    DEF WInv, StepsKnown, NoneComplete, CancelledDisturbed, PendingExplained, LiveJobsBelong

LEMMA WInvStep == WInv /\ [WNext]_wvars => WInv'
<1> SUFFICES ASSUME WInv, [WNext]_wvars PROVE WInv'
    OBVIOUS
<1>1. ExecInv /\ Graph!GraphInv /\ GraphTypes
    BY DEF WInv, ExecInv, WTypes, GraphTypes
<1>2. GraphTypes' /\ [Graph!GNext]_(Graph!gvars)
    BY <1>1, StepRefines
<1>3. Graph!GraphInv'
    BY <1>1, <1>2, GraphSound
<1>4. ExecInv'
    <2>1. CASE \E id \in Ids : Fire(id)
        BY <1>1, <1>2, <2>1, FireKeeps
    <2>2. CASE JobEnds
        BY <1>1, <2>2, AbandonKeeps, ReportKeeps DEF JobEnds
    <2>3. CASE JobDone
        BY <1>1, <2>3, JobDoneKeeps
    <2>4. CASE \/ \E id \in Pausable : SetPaused(id)
               \/ \E id \in Ids : RemoveEntry(id) \/ UpdateEntry(id)
               \/ \E e \in Edge : AddDependency(e)
               \/ \E child, parent \in Ids : RemoveDependency(child, parent)
               \/ Stop \/ Start
               \/ UNCHANGED wvars
        BY <1>1, <1>2, <2>4, ChangesKeep
    <2>5. QED
        BY <2>1, <2>2, <2>3, <2>4 DEF WNext
<1>5. QED
    BY <1>3, <1>4 DEF WInv, ExecInv

LEMMA WInvAlways == WSpec => []WInv
<1>1. QED
    BY WInvInit, WInvStep, PTL DEF WSpec

\* Every variable of the workflow state keeps its type, the slices of children
\* hold no child twice, and the completed executions kept for WorkflowStatus
\* never exceed the retention (cron.go:1800-1808).
THEOREM WorkflowTypesCorrect == WSpec => []WTypeOK
<1>1. WInv => WTypeOK
    <2> SUFFICES ASSUME WInv PROVE WTypeOK
        OBVIOUS
    <2>1. WTypes
        BY DEF WInv
    <2>2. \A x \in DOMAIN active : x \in Execs /\ active[x].results \in [DOMAIN active[x].results -> Results]
        <3>1. ASSUME NEW x \in DOMAIN active
              PROVE  x \in Execs /\ active[x].results \in ResultMaps
            BY <2>1, WorkflowAssumption DEF WTypes, Execs
        <3>2. QED
            BY <3>1 DEF ResultMaps
    <2>3. QED
        BY <2>1, <2>2 DEF WTypes, ChildTypes, Job, WTypeOK
<1>2. QED
    BY <1>1, WInvAlways, PTL

\* Removing an entry cancels the runs of its jobs, also those an execution has
\* started, and stopping cancels every run and every later one: no workflow job
\* runs with a live context after the scheduler was stopped or, unless it is a
\* run-once entry, after its entry is gone (cron.go:2531-2564, 2404-2424).
THEOREM WorkflowJobsBelong == WSpec => []LiveJobsBelong
<1>1. WInv => LiveJobsBelong
    BY DEF WInv
<1>2. QED
    BY <1>1, WInvAlways, PTL

\* An execution that nobody edited or stopped, and whose entries have all their
\* parents in it, always has a job or an event under way while it is active: the
\* recursion over the children leaves none behind that waits for a report that
\* was already taken (cron.go:1737-1797).
THEOREM ExecutionsNeverStuck == WSpec => []NoStuckExecution
<1>1. WInv => NoStuckExecution
    <2> SUFFICES ASSUME WInv, NEW x \in DOMAIN active \ disturbed, SelfContained(x)
                 PROVE  \/ \E j \in jobs : j.exec = x
                        \/ \E k \in DOMAIN jobDone : jobDone[k].exec = x
        BY DEF NoStuckExecution
    <2> DEFINE R == active[x].results
               S == {i \in DOMAIN R : R[i] = "Pending"}
    <2>1. SUFFICES ASSUME \A i : ~UnderWay(x, i)
                   PROVE  FALSE
        BY DEF UnderWay
    <2>2. DOMAIN R \in SUBSET Ids /\ R \in [DOMAIN R -> Results] /\ active[x].root \in Ids
        <3>1. active[x] \in [root : Ids, results : ResultMaps]
            BY DEF WInv, WTypes
        <3>2. QED
            BY <3>1 DEF ResultMaps
    <2>3. S \in SUBSET Ids /\ S # {}
        BY <2>2 DEF WInv, NoneComplete
    <2>4. PICK i \in S : Graph!Parents(i) \intersect S = {}
        BY <2>3, GraphIds DEF WInv, Graph!GraphInv, Graph!Acyclic
    <2>5. PICK d \in entryDeps[i] : i # active[x].root /\ ~Resolved(R, d.parent)
        BY <2>1, <2>4 DEF WInv, PendingExplained
    <2>6. d.parent \notin S
        BY <2>4, <2>5, GraphIds
    <2>7. d.parent \in DOMAIN R
        BY <2>4, <2>5 DEF SelfContained
    <2>8. QED
        BY <2>2, <2>5, <2>6, <2>7 DEF Resolved, IsTerminal, Results
<1>2. QED
    BY <1>1, WInvAlways, PTL
=============================================================================
