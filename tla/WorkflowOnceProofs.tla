-------------------------- MODULE WorkflowOnceProofs --------------------------
(***************************************************************************)
(* For graphs in which no edge skips over a longer path, an execution      *)
(* starts each entry at most once, is quiet when it is complete, and its   *)
(* results explain what ran; for every number of entries, conditions and   *)
(* executions, and every order of reports, pauses and edits.               *)
(*                                                                         *)
(* Where an edge does skip, the code starts a child twice: the graph is a  *)
(* hypothesis of the theorems, about every state of the behavior, since    *)
(* edits change it.                                                        *)
(***************************************************************************)
EXTENDS WorkflowProofs

\* No child of an entry is below another child of it.
NoShortcut ==
    \A p, a, c \in Ids :
        Seen(parentToChildren[p], a) /\ Seen(parentToChildren[p], c) /\ a # c
            => c \notin Participants(a)

-----------------------------------------------------------------------------
(* Below an entry *)

LEMMA Below ==
    ASSUME ChildTypes, NEW a \in Ids
    PROVE  /\ a \in Participants(a)
           /\ \A p \in Participants(a) : \A c \in Ids :
                  Seen(parentToChildren[p], c) => c \in Participants(a)
<1>1. \A p \in Ids : ChildSets[p] = {parentToChildren[p][k] : k \in DOMAIN parentToChildren[p]}
    BY DEF ChildSets
<1>2. a \in Participants(a)
    BY DEF Participants
<1>3. ASSUME NEW p \in Participants(a), NEW c \in Ids, Seen(parentToChildren[p], c),
             NEW S \in SUBSET Ids, a \in S, \A i \in S : ChildSets[i] \subseteq S
      PROVE  c \in S
    <2>1. p \in S /\ p \in Ids
        BY <1>3 DEF Participants
    <2>2. c \in ChildSets[p]
        BY <1>1, <1>3, <2>1 DEF Seen
    <2>3. QED
        BY <1>3, <2>1, <2>2
<1>4. QED
    BY <1>2, <1>3 DEF Participants

\* The reason why u and v are different entries: u is at or below a sibling of v.
Apart(u, v) ==
    \E p, a \in Ids : /\ Seen(parentToChildren[p], a) /\ Seen(parentToChildren[p], v)
                      /\ a # v /\ u \in Participants(a)

LEMMA ApartFacts ==
    ASSUME ChildTypes, NoShortcut, NEW v \in Ids
    PROVE  /\ \A u \in Ids : Apart(u, v) => u # v
           /\ \A u, c \in Ids : Apart(u, v) /\ Seen(parentToChildren[u], c) => Apart(c, v)
           /\ \A p, u \in Ids : Seen(parentToChildren[p], u) /\ Seen(parentToChildren[p], v) /\ u # v
                  => Apart(u, v)
<1>1. \A u \in Ids : Apart(u, v) => u # v
    BY DEF Apart, NoShortcut
<1>2. \A u, c \in Ids : Apart(u, v) /\ Seen(parentToChildren[u], c) => Apart(c, v)
    BY Below DEF Apart
<1>3. \A p, u \in Ids : Seen(parentToChildren[p], u) /\ Seen(parentToChildren[p], v) /\ u # v
          => Apart(u, v)
    BY Below DEF Apart
<1>4. QED
    BY <1>1, <1>2, <1>3

LEMMA HeadTail ==
    ASSUME NEW q \in Seq(Ids), q # <<>>
    PROVE  /\ Head(q) \in Ids /\ Tail(q) \in Seq(Ids) /\ q[1] = Head(q)
           /\ Len(q) \in Nat \ {0} /\ DOMAIN q = 1..Len(q) /\ DOMAIN Tail(q) = 1..(Len(q) - 1)
           /\ \A k \in 1..(Len(q) - 1) : Tail(q)[k] = q[k + 1]
OBVIOUS

LEMMA Concatenated ==
    ASSUME NEW q \in Seq(Ids), NEW r \in Seq(Ids)
    PROVE  /\ Len(q) \in Nat /\ Len(r) \in Nat
           /\ DOMAIN q = 1..Len(q) /\ DOMAIN r = 1..Len(r)
           /\ DOMAIN (q \o r) = 1..(Len(q) + Len(r))
           /\ \A k \in 1..Len(q) : (q \o r)[k] = q[k]
           /\ \A k \in 1..Len(r) : (q \o r)[k + Len(q)] = r[k]
           /\ \A k \in 1..(Len(q) + Len(r)) :
                  k \in 1..Len(q) \/ (k - Len(q) \in 1..Len(r) /\ (q \o r)[k] = r[k - Len(q)])
OBVIOUS

\* The rest of an evaluation: what is further back is apart from what is before it.
Ordered(rest) == \A k, l \in DOMAIN rest : k < l => Apart(rest[k], rest[l])

LEMMA OrderedTail ==
    ASSUME ChildTypes, NoShortcut, NEW q \in Seq(Ids), q # <<>>, Ordered(q)
    PROVE  Ordered(Tail(q)) /\ ~Seen(Tail(q), Head(q))
<1> DEFINE t == Tail(q)
           h == Head(q)
<1>1. /\ h \in Ids /\ t \in Seq(Ids) /\ q[1] = h
      /\ Len(q) \in Nat \ {0} /\ DOMAIN q = 1..Len(q) /\ DOMAIN t = 1..(Len(q) - 1)
      /\ \A k \in 1..(Len(q) - 1) : t[k] = q[k + 1]
    BY HeadTail
<1> HIDE DEF t, h
<1>2. \A k \in DOMAIN t : k + 1 \in DOMAIN q /\ t[k] = q[k + 1] /\ k \in Nat
    BY <1>1
<1>3. Ordered(t)
    <2>1. SUFFICES ASSUME NEW k \in DOMAIN t, NEW l \in DOMAIN t, k < l
                   PROVE  Apart(t[k], t[l])
        BY DEF Ordered
    <2>2. k + 1 < l + 1
        BY <1>2, <2>1
    <2>3. QED
        BY <1>2, <2>2 DEF Ordered
<1>4. ASSUME NEW l \in DOMAIN t PROVE t[l] # h
    <2>1. 1 < l + 1 /\ 1 \in DOMAIN q
        BY <1>1
    <2>2. Apart(h, t[l])
        BY <1>1, <1>2, <2>1 DEF Ordered
    <2>3. t[l] \in Ids
        BY <1>1
    <2>4. QED
        BY <1>1, <2>2, <2>3, ApartFacts
<1>5. QED
    BY <1>3, <1>4 DEF t, h, Seen

LEMMA OrderedChildren ==
    ASSUME ChildTypes, NoShortcut, NEW p \in Ids
    PROVE  Ordered(parentToChildren[p])
<1>1. parentToChildren[p] \in Seq(Ids) /\ IsInjective(parentToChildren[p])
    BY DEF ChildTypes
<1> DEFINE q == parentToChildren[p]
<1>2. \A k \in DOMAIN q : q[k] \in Ids /\ Seen(parentToChildren[p], q[k]) /\ k \in Nat
    BY <1>1 DEF Seen
<1>3. \A k, l \in DOMAIN q : k # l => q[k] # q[l]
    BY <1>1 DEF IsInjective
<1> HIDE DEF q
<1>4. \A k, l \in DOMAIN q : k < l => k # l
    BY <1>2
<1>5. Ordered(q)
    BY <1>2, <1>3, <1>4, ApartFacts DEF Ordered
<1>6. QED
    BY <1>5 DEF q

LEMMA OrderedDeeper ==
    ASSUME ChildTypes, NoShortcut, NEW q \in Seq(Ids), q # <<>>, Ordered(q)
    PROVE  Ordered(parentToChildren[Head(q)] \o Tail(q))
<1> DEFINE t == Tail(q)
           h == Head(q)
           c == parentToChildren[h]
           n == c \o t
<1>1. /\ h \in Ids /\ t \in Seq(Ids) /\ q[1] = h
      /\ Len(q) \in Nat \ {0} /\ DOMAIN q = 1..Len(q) /\ DOMAIN t = 1..(Len(q) - 1)
      /\ \A k \in 1..(Len(q) - 1) : t[k] = q[k + 1]
    BY HeadTail
<1>2. Ordered(t)
    BY OrderedTail
<1> HIDE DEF t, h
<1>3. c \in Seq(Ids) /\ Ordered(c)
    BY <1>1, OrderedChildren DEF ChildTypes
<1>4. \A k \in DOMAIN t : Apart(h, t[k]) /\ t[k] \in Ids
    <2>1. ASSUME NEW k \in DOMAIN t PROVE Apart(h, t[k])
        <3>1. 1 \in DOMAIN q /\ k + 1 \in DOMAIN q /\ 1 < k + 1 /\ t[k] = q[k + 1]
            BY <1>1
        <3>2. QED
            BY <1>1, <3>1 DEF Ordered
    <2>2. QED
        BY <1>1, <2>1
<1>5. \A k \in DOMAIN c : Seen(parentToChildren[h], c[k]) /\ c[k] \in Ids
    BY <1>3 DEF Seen
<1>6. \A k \in DOMAIN c, l \in DOMAIN t : Apart(c[k], t[l])
    BY <1>1, <1>4, <1>5, ApartFacts, SMTT(60)
<1> HIDE DEF c
<1>7. /\ Len(c) \in Nat /\ Len(t) \in Nat
      /\ DOMAIN c = 1..Len(c) /\ DOMAIN t = 1..Len(t) /\ DOMAIN n = 1..(Len(c) + Len(t))
      /\ \A k \in 1..Len(c) : n[k] = c[k]
      /\ \A k \in 1..(Len(c) + Len(t)) :
             k \in 1..Len(c) \/ (k - Len(c) \in 1..Len(t) /\ n[k] = t[k - Len(c)])
    BY <1>1, <1>3, Concatenated
<1> HIDE DEF n
<1>8. ASSUME NEW k \in DOMAIN n, NEW l \in DOMAIN n, k < l
      PROVE  Apart(n[k], n[l])
    <2>1. CASE k \in 1..Len(c) /\ l \in 1..Len(c)
        BY <1>3, <1>7, <1>8, <2>1 DEF Ordered
    <2>2. CASE k \in 1..Len(c) /\ l \notin 1..Len(c)
        BY <1>6, <1>7, <2>2
    <2>3. CASE k \notin 1..Len(c)
        <3>1. l \notin 1..Len(c) /\ k - Len(c) < l - Len(c)
            BY <1>7, <1>8, <2>3
        <3>2. /\ k - Len(c) \in DOMAIN t /\ n[k] = t[k - Len(c)]
              /\ l - Len(c) \in DOMAIN t /\ n[l] = t[l - Len(c)]
            BY <1>7, <2>3, <3>1
        <3>3. QED
            BY <1>2, <3>1, <3>2 DEF Ordered
    <2>4. QED
        BY <2>1, <2>2, <2>3
<1>9. QED
    BY <1>8 DEF Ordered, n, c, t, h

-----------------------------------------------------------------------------
(* One evaluation *)

\* Every parent's result is one on which the edges to i fire.
Fires(r, i) == \A d \in entryDeps[i] : r[d.parent] \in FiresOn[d.condition]

DepTypes ==
    /\ entryDeps \in [Ids -> SUBSET [parent : Ids, condition : Conditions]]
    /\ Conditions \subseteq {"OnSuccess", "OnFailure", "OnSkipped", "OnComplete"}

LEMMA TriggerFires ==
    ASSUME DepTypes, NEW P \in SUBSET Ids, NEW r \in [P -> Results], NEW i \in Ids
    PROVE  /\ ShouldTrigger(r, i) => AllParentsResolved(r, i) /\ Fires(r, i)
           /\ AllParentsResolved(r, i) /\ entryDeps[i] # {} /\ ~ShouldTrigger(r, i) => ~Fires(r, i)
<1>1. ASSUME NEW d \in entryDeps[i]
      PROVE  Matches(d.condition, r[d.parent]) <=> r[d.parent] \in FiresOn[d.condition]
    <2>1. d.condition \in {"OnSuccess", "OnFailure", "OnSkipped", "OnComplete"}
        <3>1. entryDeps[i] \in SUBSET [parent : Ids, condition : Conditions]
            BY DEF DepTypes
        <3>2. d \in [parent : Ids, condition : Conditions]
            BY <3>1
        <3>3. d.condition \in Conditions
            BY <3>2
        <3>4. QED
            BY <3>3 DEF DepTypes
    <2>2. /\ FiresOn["OnSuccess"] = {"Success"} /\ FiresOn["OnFailure"] = {"Failure"}
          /\ FiresOn["OnSkipped"] = {"Skipped"}
          /\ FiresOn["OnComplete"] = {"Success", "Failure", "Skipped"}
        BY DEF FiresOn
    <2>3. CASE d.condition = "OnSuccess"
        BY <2>2, <2>3 DEF Matches
    <2>4. CASE d.condition = "OnFailure"
        BY <2>2, <2>4 DEF Matches
    <2>5. CASE d.condition = "OnSkipped"
        BY <2>2, <2>5 DEF Matches
    <2>6. CASE d.condition = "OnComplete"
        BY <2>2, <2>6 DEF Matches, IsTerminal
    <2>7. QED
        BY <2>1, <2>3, <2>4, <2>5, <2>6
<1>2. QED
    BY <1>1 DEF ShouldTrigger, AllParentsResolved, Fires

\* Skipping a pending entry changes nothing for those whose parents are resolved.
LEMMA SkipKeeps ==
    ASSUME DepTypes, NEW P \in SUBSET Ids, NEW r \in [P -> Results], NEW c \in P, r[c] = "Pending",
           NEW i \in Ids, AllParentsResolved(r, i)
    PROVE  /\ AllParentsResolved([r EXCEPT ![c] = "Skipped"], i)
           /\ Fires([r EXCEPT ![c] = "Skipped"], i) <=> Fires(r, i)
           /\ \A d \in entryDeps[i] : d.parent # c
<1> DEFINE n == [r EXCEPT ![c] = "Skipped"]
<1>1. \A d \in entryDeps[i] : d.parent \in P /\ d.parent # c /\ IsTerminal(r[d.parent])
    BY DEF AllParentsResolved, Resolved, IsTerminal
<1>2. DOMAIN n = P /\ \A p \in P : p # c => n[p] = r[p]
    OBVIOUS
<1> HIDE DEF n
<1>3. AllParentsResolved(n, i)
    BY <1>1, <1>2 DEF AllParentsResolved, Resolved
<1>4. Fires(n, i) <=> Fires(r, i)
    BY <1>1, <1>2 DEF Fires
<1>5. QED
    BY <1>1, <1>3, <1>4 DEF n

\* An entry that a parent resolved meanwhile has left pending until now.
Fresh(old, i) == ~AllParentsResolved(old, i)

SkippedFor(old, r, i) ==
    /\ r[i] = "Skipped" /\ Fresh(old, i)
    /\ AllParentsResolved(r, i) /\ (i \in paused \/ ~Fires(r, i))

StartedFor(old, r, i) ==
    /\ i \in DOMAIN r /\ r[i] = "Pending" /\ Fresh(old, i)
    /\ AllParentsResolved(r, i) /\ Fires(r, i)

\* What one visit makes of the head of the rest.
LEMMA VisitWhy ==
    ASSUME DepTypes, Anchored, NEW s \in Evaluation, s.rest # <<>>,
           NEW P \in SUBSET Ids, s.results \in [P -> Results],
           NEW c \in Ids, c = Head(s.rest), NEW others, others = Tail(s.rest), entryDeps[c] # {}
    PROVE  \/ Visit(s) = [results |-> s.results, started |-> s.started, rest |-> others]
           \/ /\ c \in P /\ s.results[c] = "Pending"
              /\ AllParentsResolved(s.results, c) /\ Fires(s.results, c)
              /\ Visit(s) = [results |-> s.results, started |-> Append(s.started, c), rest |-> others]
           \/ /\ c \in P /\ s.results[c] = "Pending"
              /\ AllParentsResolved(s.results, c) /\ (c \in paused \/ ~Fires(s.results, c))
              /\ Visit(s) = [results |-> [s.results EXCEPT ![c] = "Skipped"], started |-> s.started,
                             rest |-> parentToChildren[c] \o others]
<1> DEFINE pending == c \in DOMAIN s.results /\ s.results[c] = "Pending"
           due     == pending /\ ShouldTrigger(s.results, c)
<1>1. c \in entryIndex
    BY DEF Anchored
<1>2. pending => c \in P /\ s.results[c] = "Pending"
    OBVIOUS
<1>3. due => AllParentsResolved(s.results, c) /\ Fires(s.results, c) /\ pending
    BY TriggerFires
<1>4. pending /\ ~due /\ AllParentsResolved(s.results, c) => ~Fires(s.results, c)
    BY TriggerFires
<1> HIDE DEF pending
<1>5. CASE due /\ c \notin paused
    BY <1>1, <1>2, <1>3, <1>5 DEF Visit, pending
<1>6. CASE \/ due /\ c \in paused
           \/ pending /\ ~due /\ AllParentsResolved(s.results, c)
    BY <1>1, <1>2, <1>3, <1>4, <1>6 DEF Visit, pending
<1>7. CASE ~due /\ ~(pending /\ ~due /\ AllParentsResolved(s.results, c))
    BY <1>7 DEF Visit, pending
<1>8. QED
    BY <1>5, <1>6, <1>7

LEMMA Appended ==
    ASSUME NEW q \in Seq(Ids), IsInjective(q), NEW c \in Ids, ~Seen(q, c)
    PROVE  /\ Append(q, c) \in Seq(Ids) /\ IsInjective(Append(q, c))
           /\ \A i : Seen(Append(q, c), i) => i = c \/ Seen(q, i)
<1> DEFINE n == Append(q, c)
<1>1. /\ n \in Seq(Ids) /\ Len(q) \in Nat /\ DOMAIN q = 1..Len(q) /\ DOMAIN n = 1..(Len(q) + 1)
      /\ \A k \in 1..Len(q) : n[k] = q[k]
      /\ n[Len(q) + 1] = c
    OBVIOUS
<1>2. \A k, l \in 1..Len(q) : k # l => q[k] # q[l]
    BY <1>1 DEF IsInjective
<1>3. \A k \in 1..Len(q) : q[k] # c
    BY <1>1 DEF Seen
<1> HIDE DEF n
<1>4. \A k \in DOMAIN n : k \in 1..Len(q) \/ k = Len(q) + 1
    BY <1>1
<1>5. IsInjective(n)
    BY <1>1, <1>2, <1>3, <1>4 DEF IsInjective
<1>6. QED
    BY <1>1, <1>4, <1>5 DEF n, Seen

\* The results once parent has reported.
After(old, parent, result) == [old EXCEPT ![parent] = result]

\* What becomes of the results r0 of the entries P, which were old before.
OnceOutcome(P, old, r0, t) ==
    /\ t.results \in [P -> Results] /\ t.started \in Seq(Ids) /\ IsInjective(t.started)
    /\ \A i \in P : t.results[i] # r0[i] => r0[i] = "Pending" /\ SkippedFor(old, t.results, i)
    /\ \A i : Seen(t.started, i) => StartedFor(old, t.results, i)

\* An evaluation visits no entry twice once its parents are resolved: it starts
\* an entry at most once, and only one that had an unresolved parent before.
LEMMA EvaluateOnce ==
    ASSUME ChildTypes, Mirrored, Anchored, NoShortcut, DepTypes,
           NEW P \in SUBSET Ids, NEW old \in [P -> Results],
           NEW parent \in P, old[parent] = "Pending", NEW result \in Results \ {"Pending"},
           NEW r0, r0 = After(old, parent, result)
    PROVE  OnceOutcome(P, old, r0, EvaluateChildren(r0, parent))
<1> DEFINE Stays(s) == \A i \in P : s.results[i] # r0[i] =>
                          r0[i] = "Pending" /\ SkippedFor(old, s.results, i)
           Begun(s) == \A i : Seen(s.started, i) => StartedFor(old, s.results, i) /\ ~Seen(s.rest, i)
           Next(s)  == \A i : Seen(s.rest, i) => Fresh(old, i)
           J     == {s \in Evaluation : /\ s.results \in [P -> Results] /\ Stays(s)
                                        /\ IsInjective(s.started) /\ Begun(s)
                                        /\ Ordered(s.rest) /\ Next(s)}
           first == [results |-> r0, started |-> <<>>, rest |-> parentToChildren[parent]]
<1>1. /\ r0 \in [P -> Results] /\ r0[parent] # "Pending"
      /\ \A i \in P : r0[i] = "Pending" => old[i] = "Pending"
    BY DEF After
\* A child of an entry that was pending before the event is fresh.
<1>2. \A p \in P, c \in Ids : old[p] = "Pending" /\ Seen(parentToChildren[p], c) => Fresh(old, c)
    <2>1. SUFFICES ASSUME NEW p \in P, NEW c \in Ids, old[p] = "Pending",
                          Seen(parentToChildren[p], c), AllParentsResolved(old, c)
                   PROVE  FALSE
        BY DEF Fresh
    <2>2. PICK d \in entryDeps[c] : d.parent = p
        BY <2>1 DEF Mirrored
    <2>3. QED
        BY <2>1, <2>2 DEF AllParentsResolved, Resolved, IsTerminal
<1>3. \A i : Fresh(old, i) => entryDeps[i] # {}
    BY DEF Fresh, AllParentsResolved
<1>4. first \in J
    <2>1. parentToChildren[parent] \in Seq(Ids) /\ Ordered(parentToChildren[parent])
        BY OrderedChildren DEF ChildTypes
    <2>2. first \in Evaluation
        BY <1>1, <2>1 DEF Evaluation
    <2>3. Stays(first) /\ Begun(first) /\ IsInjective(first.started)
        BY DEF Seen, IsInjective
    <2>4. \A i : Seen(parentToChildren[parent], i) => i \in Ids
        BY <2>1 DEF Seen
    <2>5. Next(first)
        BY <1>2, <2>4
    <2>6. QED
        BY <1>1, <2>1, <2>2, <2>3, <2>5
<1>5. ASSUME NEW s \in J, s.rest # <<>>
      PROVE  Visit(s) \in J
    <2> DEFINE c      == Head(s.rest)
               others == Tail(s.rest)
               below  == parentToChildren[c]
               v      == Visit(s)
    <2>1. /\ s \in Evaluation /\ s.results \in [P -> Results]
          /\ s.rest \in Seq(Ids) /\ s.started \in Seq(Ids)
        BY DEF Evaluation
    <2>2. Stays(s) /\ Begun(s) /\ Next(s) /\ Ordered(s.rest) /\ IsInjective(s.started)
        OBVIOUS
    <2> HIDE DEF J
    <2>3. /\ c \in Ids /\ others \in Seq(Ids) /\ Seen(s.rest, c)
          /\ \A i : Seen(others, i) => Seen(s.rest, i)
        <3>1. /\ s.rest[1] = c /\ c \in Ids /\ others \in Seq(Ids)
              /\ Len(s.rest) \in Nat \ {0} /\ DOMAIN s.rest = 1..Len(s.rest)
              /\ DOMAIN others = 1..(Len(s.rest) - 1)
              /\ \A k \in 1..(Len(s.rest) - 1) : others[k] = s.rest[k + 1]
            BY <1>5, <2>1, HeadTail
        <3> HIDE DEF c, others
        <3>2. 1 \in DOMAIN s.rest /\ \A k \in DOMAIN others : k + 1 \in DOMAIN s.rest
            BY <3>1
        <3>3. QED
            BY <3>1, <3>2 DEF Seen
    <2>4. Ordered(others) /\ ~Seen(others, c) /\ Ordered(below \o others)
        BY <1>5, <2>1, <2>2, OrderedTail, OrderedDeeper
    <2>5. v \in Evaluation
        BY <1>5, <2>1, VisitType
    <2>6. Fresh(old, c) /\ entryDeps[c] # {}
        BY <1>3, <2>2, <2>3
    <2>7. \/ v = [results |-> s.results, started |-> s.started, rest |-> others]
          \/ /\ c \in P /\ s.results[c] = "Pending"
             /\ AllParentsResolved(s.results, c) /\ Fires(s.results, c)
             /\ v = [results |-> s.results, started |-> Append(s.started, c), rest |-> others]
          \/ /\ c \in P /\ s.results[c] = "Pending"
             /\ AllParentsResolved(s.results, c) /\ (c \in paused \/ ~Fires(s.results, c))
             /\ v = [results |-> [s.results EXCEPT ![c] = "Skipped"], started |-> s.started,
                     rest |-> below \o others]
        BY <1>5, <2>1, <2>3, <2>6, VisitWhy
    <2> HIDE DEF v, c, others
    <2>8. CASE v = [results |-> s.results, started |-> s.started, rest |-> others]
        <3>1. v.results = s.results /\ v.started = s.started /\ v.rest = others
            BY <2>8
        <3>2. Stays(v) /\ Begun(v) /\ Next(v)
            BY <2>2, <2>3, <3>1
        <3>3. QED
            BY <2>1, <2>2, <2>4, <2>5, <3>1, <3>2 DEF J, v
    <2>9. CASE /\ c \in P /\ s.results[c] = "Pending"
               /\ AllParentsResolved(s.results, c) /\ Fires(s.results, c)
               /\ v = [results |-> s.results, started |-> Append(s.started, c), rest |-> others]
        <3>1. v.results = s.results /\ v.started = Append(s.started, c) /\ v.rest = others
            BY <2>9
        <3>2. /\ IsInjective(v.started)
              /\ \A i : Seen(v.started, i) => i = c \/ Seen(s.started, i)
            BY <2>1, <2>2, <2>3, <3>1, Appended
        <3>3. StartedFor(old, s.results, c)
            BY <2>1, <2>6, <2>9 DEF StartedFor
        <3>4. Begun(v)
            BY <2>2, <2>3, <2>4, <3>1, <3>2, <3>3
        <3>5. Stays(v) /\ Next(v)
            BY <2>2, <2>3, <3>1
        <3>6. QED
            BY <2>1, <2>4, <2>5, <3>1, <3>2, <3>4, <3>5 DEF J, v
    <2>10. CASE /\ c \in P /\ s.results[c] = "Pending"
                /\ AllParentsResolved(s.results, c) /\ (c \in paused \/ ~Fires(s.results, c))
                /\ v = [results |-> [s.results EXCEPT ![c] = "Skipped"], started |-> s.started,
                        rest |-> below \o others]
        <3> DEFINE n == [s.results EXCEPT ![c] = "Skipped"]
        <3>1. v.results = n /\ v.started = s.started /\ v.rest = below \o others
            BY <2>10
        <3>2. /\ n \in [P -> Results] /\ n[c] = "Skipped"
              /\ \A i \in P : i # c => n[i] = s.results[i]
            BY <2>1, <2>10 DEF Results
        <3>3. \A i \in Ids : AllParentsResolved(s.results, i) =>
                 /\ AllParentsResolved(n, i) /\ (Fires(n, i) <=> Fires(s.results, i))
                 /\ \A d \in entryDeps[i] : d.parent # c
            BY <2>1, <2>10, SkipKeeps
        <3>4. r0[c] = "Pending" /\ old[c] = "Pending"
            BY <1>1, <2>2, <2>10 DEF SkippedFor
        <3>5. below \in Seq(Ids) /\ \A i : Seen(below, i) => i \in Ids
            BY <2>3 DEF ChildTypes, Seen
        <3>6. \A i : Seen(below \o others, i) => Seen(below, i) \/ Seen(others, i)
            BY <2>3, <3>5, Concatenated DEF Seen
        <3>7. \A i \in Ids : Seen(below, i) => Fresh(old, i) /\ ~AllParentsResolved(s.results, i)
            <4>1. \A i \in Ids : Seen(below, i) => Fresh(old, i)
                BY <1>2, <2>10, <3>4
            <4>2. \A i \in Ids : Seen(below, i) => \E d \in entryDeps[i] : d.parent = c
                BY <2>3 DEF Mirrored
            <4>3. QED
                BY <3>3, <4>1, <4>2
        <3> HIDE DEF n, below
        <3>8. Next(v)
            BY <2>2, <2>3, <3>1, <3>5, <3>6, <3>7
        <3>9. ASSUME NEW i, Seen(v.started, i)
              PROVE  StartedFor(old, v.results, i) /\ ~Seen(v.rest, i)
            <4>1. StartedFor(old, s.results, i) /\ ~Seen(s.rest, i)
                BY <2>2, <3>1, <3>9
            <4>2. i \in P /\ i # c
                BY <2>1, <2>3, <4>1 DEF StartedFor
            <4>3. StartedFor(old, n, i)
                BY <3>2, <3>3, <4>1, <4>2 DEF StartedFor
            <4>4. ~Seen(below, i)
                BY <3>5, <3>7, <4>1 DEF StartedFor
            <4>5. QED
                BY <2>3, <3>1, <3>6, <4>1, <4>3, <4>4
        <3>10. ASSUME NEW i \in P, v.results[i] # r0[i]
               PROVE  r0[i] = "Pending" /\ SkippedFor(old, v.results, i)
            <4>1. CASE i = c
                BY <2>6, <2>10, <3>1, <3>2, <3>3, <3>4, <4>1 DEF SkippedFor
            <4>2. CASE i # c
                <5>1. r0[i] = "Pending" /\ SkippedFor(old, s.results, i)
                    BY <2>2, <3>1, <3>2, <3>10, <4>2
                <5>2. QED
                    BY <3>1, <3>2, <3>3, <4>2, <5>1 DEF SkippedFor
            <4>3. QED
                BY <4>1, <4>2
        <3>11. Ordered(v.rest) /\ IsInjective(v.started) /\ v.results \in [P -> Results]
            BY <2>2, <2>4, <3>1, <3>2 DEF below
        <3>12. QED
            BY <2>5, <3>8, <3>9, <3>10, <3>11 DEF J, v
    <2>11. QED
        BY <2>7, <2>8, <2>9, <2>10
<1> DEFINE t == Visits[MaxVisits][first]
<1>6. t \in J
    <2>1. J \in SUBSET Evaluation
        OBVIOUS
    <2>2. MaxVisits \in Nat
        BY IdsFinite DEF MaxVisits
    <2> HIDE DEF J, first
    <2>3. QED
        BY <1>4, <1>5, <2>1, <2>2, VisitsKeep
<1>7. t = EvaluateChildren(r0, parent)
    BY DEF EvaluateChildren
<1>8. t.started \in Seq(Ids)
    BY <1>6 DEF Evaluation
<1>9. QED
    <2> HIDE DEF first, t
    <2>1. t.results \in [P -> Results] /\ Stays(t) /\ IsInjective(t.started) /\ Begun(t)
        BY <1>6
    <2>2. QED
        BY <1>7, <1>8, <2>1 DEF OnceOutcome

-----------------------------------------------------------------------------
(* The inductive invariant *)

\* No two goroutines or events are for the same entry of execution x.
Single(x) ==
    /\ \A j, o \in jobs : j.exec = x /\ o.exec = x /\ j.id = o.id => j = o
    /\ \A j \in jobs, k \in DOMAIN jobDone :
          j.exec = x /\ jobDone[k].exec = x => j.id # jobDone[k].id
    /\ \A k, l \in DOMAIN jobDone :
          jobDone[k].exec = x /\ jobDone[l].exec = x /\ jobDone[k].id = jobDone[l].id => k = l

\* What was started, as n counts it, and what was left out follow from the
\* results of the parents, which are all there by then.
Settled(root, r, n) ==
    /\ n[root] = 1
    /\ r[root] = "Pending" => \A i \in DOMAIN r \ {root} : n[i] = 0
    /\ \A i \in DOMAIN r \ {root} :
          /\ n[i] > 0 \/ IsTerminal(r[i]) => AllParentsResolved(r, i)
          /\ n[i] > 0 => Fires(r, i)
          /\ n[i] = 0 /\ IsTerminal(r[i]) => r[i] = "Skipped" /\ (i \in Pausable \/ ~Fires(r, i))

OnceAt(x) ==
    /\ Single(x)
    /\ active[x].root \in DOMAIN active[x].results
    /\ \A i \in Ids : UnderWay(x, i) =>
          /\ i \in DOMAIN active[x].results
          /\ active[x].results[i] = "Pending" /\ dispatched[x][i] > 0
    /\ Settled(active[x].root, active[x].results, dispatched[x])

Unstarted == \A x \in Execs : x >= nextExec => \A i \in Ids : dispatched[x][i] = 0

OnceInv ==
    /\ paused \subseteq Pausable
    /\ DispatchedOnce /\ Unstarted /\ QuietWhenComplete
    /\ \A x \in DOMAIN active \ disturbed : OnceAt(x)

-----------------------------------------------------------------------------
(* The operations keep it *)

\* After an event of parent: results r and counts m, from results old and counts n.
Counted(n, m, started) == \A i \in Ids : m[i] = IF Seen(started, i) THEN n[i] + 1 ELSE n[i]

SettledAfter(P, root, old, n, t, m, parent) ==
    /\ Settled(root, t.results, m)
    /\ \A i : Seen(t.started, i) =>
           i \in P /\ i # root /\ n[i] = 0 /\ m[i] = 1 /\ t.results[i] = "Pending"
    /\ \A i \in P \ {parent} : old[i] = "Pending" /\ n[i] > 0 => t.results[i] = "Pending"

LEMMA SettledNext ==
    ASSUME DepTypes, paused \subseteq Pausable,
           NEW P \in SUBSET Ids, NEW old \in [P -> Results],
           NEW root \in P, NEW parent \in P, NEW result \in Results \ {"Pending"},
           NEW n \in [Ids -> Nat], NEW m \in [Ids -> Nat],
           old[parent] = "Pending", n[parent] > 0, Settled(root, old, n),
           NEW r0, r0 = After(old, parent, result),
           NEW t, OnceOutcome(P, old, r0, t),
           Counted(n, m, t.started)
    PROVE  SettledAfter(P, root, old, n, t, m, parent)
<1> DEFINE r       == t.results
           started == t.started
<1>0. /\ r \in [P -> Results]
      /\ \A i \in P : r[i] # r0[i] => r0[i] = "Pending" /\ SkippedFor(old, r, i)
      /\ \A i : Seen(started, i) => StartedFor(old, r, i)
      /\ \A i \in Ids : m[i] = IF Seen(started, i) THEN n[i] + 1 ELSE n[i]
    BY DEF OnceOutcome, Counted
<1> HIDE DEF r, started
<1>1. /\ r[parent] = result
      /\ \A i \in P \ {parent} : r[i] # old[i] => old[i] = "Pending" /\ SkippedFor(old, r, i)
    BY <1>0 DEF After
\* The first event is that of the root.
<1>2. r[root] # "Pending" /\ ~Seen(started, root) /\ (root # parent => r[root] = old[root])
    <2>1. root = parent \/ old[root] # "Pending"
        BY DEF Settled
    <2>2. r[root] # "Pending" /\ (root # parent => r[root] = old[root])
        BY <1>1, <2>1
    <2>3. QED
        BY <1>0, <2>2 DEF StartedFor
<1>3. ASSUME NEW i \in Ids, AllParentsResolved(old, i)
      PROVE  AllParentsResolved(r, i) /\ (Fires(r, i) <=> Fires(old, i))
    <2>1. \A d \in entryDeps[i] : d.parent \in P /\ d.parent # parent /\ r[d.parent] = old[d.parent]
        BY <1>1, <1>3 DEF AllParentsResolved, Resolved, IsTerminal
    <2>2. QED
        BY <1>0, <1>3, <2>1 DEF AllParentsResolved, Resolved, Fires
<1>4. ASSUME NEW i, Seen(started, i)
      PROVE  i \in P /\ i # root /\ n[i] = 0 /\ m[i] = 1 /\ r[i] = "Pending"
    <2>1. i \in P /\ i # root /\ r[i] = "Pending" /\ ~AllParentsResolved(old, i)
        BY <1>0, <1>2, <1>4 DEF StartedFor, Fresh
    <2>2. n[i] = 0
        BY <2>1 DEF Settled
    <2>3. QED
        BY <1>0, <1>4, <2>1, <2>2
<1>5. ASSUME NEW i \in P \ {root}
      PROVE  /\ m[i] > 0 \/ IsTerminal(r[i]) => AllParentsResolved(r, i)
             /\ m[i] > 0 => Fires(r, i)
             /\ m[i] = 0 /\ IsTerminal(r[i]) => r[i] = "Skipped" /\ (i \in Pausable \/ ~Fires(r, i))
    <2>1. /\ n[i] > 0 \/ IsTerminal(old[i]) => AllParentsResolved(old, i)
          /\ n[i] > 0 => Fires(old, i)
          /\ n[i] = 0 /\ IsTerminal(old[i]) => old[i] = "Skipped" /\ (i \in Pausable \/ ~Fires(old, i))
        BY DEF Settled
    <2>2. CASE Seen(started, i)
        <3>1. AllParentsResolved(r, i) /\ Fires(r, i) /\ m[i] = 1
            BY <1>0, <1>4, <2>2 DEF StartedFor
        <3>2. QED
            BY <3>1
    <2>3. CASE ~Seen(started, i) /\ i = parent
        <3>1. m[i] = n[i] /\ n[i] > 0
            BY <1>0, <2>3
        <3>2. QED
            BY <1>3, <2>1, <3>1
    <2>4. CASE ~Seen(started, i) /\ i # parent /\ r[i] = old[i]
        <3>1. m[i] = n[i]
            BY <1>0, <2>4
        <3>2. QED
            BY <1>3, <2>1, <2>4, <3>1
    <2>5. CASE ~Seen(started, i) /\ i # parent /\ r[i] # old[i]
        <3>1. SkippedFor(old, r, i) /\ m[i] = n[i] /\ n[i] \in Nat
            BY <1>0, <1>1, <2>5
        <3>2. m[i] = 0
            BY <2>1, <3>1 DEF SkippedFor, Fresh
        <3>3. QED
            BY <3>1, <3>2 DEF SkippedFor
    <2>6. QED
        BY <2>2, <2>3, <2>4, <2>5
<1>6. ASSUME NEW i \in P \ {parent}, old[i] = "Pending", n[i] > 0
      PROVE  r[i] = "Pending"
    <2>1. i # root
        BY <1>2, <1>6
    <2>2. AllParentsResolved(old, i)
        BY <1>6, <2>1 DEF Settled
    <2>3. QED
        BY <1>1, <1>6, <2>2 DEF SkippedFor, Fresh
<1>7. m[root] = 1
    BY <1>0, <1>2 DEF Settled
<1>8. Settled(root, r, m)
    BY <1>0, <1>2, <1>5, <1>7 DEF Settled
<1>9. QED
    BY <1>4, <1>6, <1>8 DEF SettledAfter, r, started

\* One run more for each of ids in execution x, as the counts have it.
StartedOnce(x, ids) ==
    /\ \A y \in Execs, i \in Ids : dispatched'[y][i] =
           IF y = x /\ Seen(ids, i) THEN dispatched[y][i] + 1 ELSE dispatched[y][i]
    /\ \A j, o \in jobs' \ jobs : j.id = o.id => j = o

\* Goroutines started for the entries of a sequence without repetitions.
LEMMA StartJobsOnce ==
    ASSUME WTypes, NEW x \in Execs, NEW ids \in Seq(Ids), IsInjective(ids), StartJobs(x, ids)
    PROVE  StartedOnce(x, ids)
<1> DEFINE times(i)   == Cardinality({k \in DOMAIN ids : ids[k] = i})
           started(i) == {[exec |-> x, id |-> i, nr |-> dispatched[x][i] + m, live |-> ~baseCancelled] :
                             m \in 1..times(i)}
<1>1. ASSUME NEW i
      PROVE  times(i) = IF Seen(ids, i) THEN 1 ELSE 0
    <2>1. CASE Seen(ids, i)
        <3>1. PICK k \in DOMAIN ids : ids[k] = i
            BY <2>1 DEF Seen
        <3>2. {l \in DOMAIN ids : ids[l] = i} = {k}
            BY <3>1 DEF IsInjective
        <3>3. QED
            BY <2>1, <3>2, FS_Singleton
    <2>2. CASE ~Seen(ids, i)
        <3>1. {l \in DOMAIN ids : ids[l] = i} = {}
            BY <2>2 DEF Seen
        <3>2. QED
            BY <2>2, <3>1, FS_EmptySet
    <2>3. QED
        BY <2>1, <2>2
<1>2. /\ jobs' = jobs \union UNION {started(i) : i \in Ids}
      /\ dispatched' = [dispatched EXCEPT ![x] = [i \in Ids |-> @[i] + times(i)]]
    BY DEF StartJobs
<1> HIDE DEF times
<1>3. dispatched \in [Execs -> [Ids -> Nat]]
    BY DEF WTypes
<1>4. \A y \in Execs, i \in Ids : dispatched'[y][i] =
          IF y = x THEN dispatched[y][i] + times(i) ELSE dispatched[y][i]
    BY <1>2, <1>3
<1>5. ASSUME NEW i \in Ids, NEW j \in started(i)
      PROVE  j = [exec |-> x, id |-> i, nr |-> dispatched[x][i] + 1, live |-> ~baseCancelled]
    <2>1. PICK m \in 1..times(i) :
              j = [exec |-> x, id |-> i, nr |-> dispatched[x][i] + m, live |-> ~baseCancelled]
        OBVIOUS
    <2>2. m = 1
        BY <1>1
    <2>3. QED
        BY <2>1, <2>2
<1> HIDE DEF started
<1>6. \A j \in jobs' \ jobs : \E i \in Ids :
          j = [exec |-> x, id |-> i, nr |-> dispatched[x][i] + 1, live |-> ~baseCancelled]
    BY <1>2, <1>5
<1>7. ASSUME NEW j \in jobs' \ jobs, NEW o \in jobs' \ jobs, j.id = o.id
      PROVE  j = o
    <2>1. PICK i \in Ids :
              j = [exec |-> x, id |-> i, nr |-> dispatched[x][i] + 1, live |-> ~baseCancelled]
        BY <1>6
    <2>2. PICK k \in Ids :
              o = [exec |-> x, id |-> k, nr |-> dispatched[x][k] + 1, live |-> ~baseCancelled]
        BY <1>6
    <2>3. QED
        BY <1>7, <2>1, <2>2
<1>8. \A y \in Execs, i \in Ids : dispatched'[y][i] =
          IF y = x /\ Seen(ids, i) THEN dispatched[y][i] + 1 ELSE dispatched[y][i]
    BY <1>1, <1>3, <1>4
<1>9. QED
    BY <1>7, <1>8, Zenon DEF StartedOnce

\* What leaves the executions and their counts alone, starts nothing, and
\* disturbs the active executions if it changes the graph.
LEMMA OthersKeepOnce ==
    ASSUME WInv, OnceInv, UNCHANGED <<active, dispatched, nextExec>>,
           paused' \subseteq Pausable, disturbed \subseteq disturbed',
           \A y, i : UnderWay(y, i)' => UnderWay(y, i),
           \/ DOMAIN active \subseteq disturbed'
           \/ UNCHANGED entryDeps /\ \A y \in DOMAIN active \ disturbed' : Single(y)'
    PROVE  OnceInv'
<1>1. DispatchedOnce' /\ Unstarted'
    BY DEF OnceInv, DispatchedOnce, Unstarted
<1>2. QuietWhenComplete'
    <2>1. ASSUME NEW y \in 1..(nextExec - 1) \ (DOMAIN active \union disturbed), \A i : ~UnderWay(y, i)
          PROVE  /\ \A j \in jobs' : j.exec # y
                 /\ \A k \in DOMAIN jobDone' : jobDone'[k].exec # y
        <3>1. \A i : ~UnderWay(y, i)'
            BY <2>1
        <3>2. /\ \A i : \A j \in jobs' : ~(j.exec = y /\ j.id = i)
              /\ \A i : \A k \in DOMAIN jobDone' : ~(jobDone'[k].exec = y /\ jobDone'[k].id = i)
            BY <3>1 DEF UnderWay
        <3>3. QED
            BY <3>2
    <2>2. \A y \in 1..(nextExec - 1) \ (DOMAIN active \union disturbed) : \A i : ~UnderWay(y, i)
        BY DEF OnceInv, QuietWhenComplete, UnderWay
    <2>3. QED
        BY <2>1, <2>2 DEF QuietWhenComplete
<1>3. ASSUME NEW y \in DOMAIN active' \ disturbed'
      PROVE  OnceAt(y)'
    <2>1. y \in DOMAIN active \ disturbed /\ OnceAt(y) /\ UNCHANGED entryDeps /\ Single(y)'
        BY <1>3 DEF OnceInv
    <2>2. Settled(active[y].root, active[y].results, dispatched[y])'
        BY <2>1 DEF OnceAt, Settled, AllParentsResolved, Fires
    <2>3. QED
        BY <2>1, <2>2 DEF OnceAt
<1>4. QED
    BY <1>1, <1>2, <1>3 DEF OnceInv

LEMMA AbandonKeepsOnce ==
    ASSUME WInv, OnceInv, NEW j \in jobs, Abandon(j)
    PROVE  OnceInv'
<1>1. /\ jobs' = jobs \ {j}
      /\ UNCHANGED <<entryDeps, paused, active, nextExec, dispatched, jobDone, disturbed>>
    BY DEF Abandon, graph, execs
<1>2. \A y, i : UnderWay(y, i)' => UnderWay(y, i)
    BY <1>1 DEF UnderWay
<1>3. \A y \in DOMAIN active \ disturbed : Single(y)'
    BY <1>1 DEF OnceInv, OnceAt, Single
<1>4. QED
    BY <1>1, <1>2, <1>3, OthersKeepOnce DEF OnceInv

LEMMA ReportKeepsOnce ==
    ASSUME WInv, OnceInv, NEW j \in jobs, NEW r \in Results \ {"Pending"}, Report(j, r)
    PROVE  OnceInv'
<1> DEFINE event == [exec |-> j.exec, id |-> j.id, result |-> r]
<1>1. /\ jobs' = jobs \ {j} /\ jobDone' = Append(jobDone, event)
      /\ UNCHANGED <<entryDeps, paused, active, nextExec, dispatched, disturbed>>
    BY DEF Report, graph, execs
<1>2. event.exec = j.exec /\ event.id = j.id /\ event \in Event /\ jobDone \in Seq(Event)
    BY DEF WInv, WTypes, Job, Event
<1> DEFINE q == jobDone
           t == jobDone'
<1> HIDE DEF event
<1>3. /\ Len(q) \in Nat /\ DOMAIN q = 1..Len(q) /\ DOMAIN t = 1..(Len(q) + 1)
      /\ t[Len(q) + 1] = event /\ \A k \in 1..Len(q) : t[k] = q[k]
    BY <1>1, <1>2
<1>4. \A k \in DOMAIN t : (k \in DOMAIN q /\ t[k] = q[k]) \/ (k = Len(q) + 1 /\ t[k] = event)
    BY <1>3
<1> HIDE DEF q, t
<1>5. \A y, i : UnderWay(y, i)' => UnderWay(y, i)
    BY <1>1, <1>2, <1>4 DEF UnderWay, q, t
<1>6. ASSUME NEW y \in DOMAIN active \ disturbed
      PROVE  Single(y)'
    <2>1. Single(y)
        BY DEF OnceInv, OnceAt
    <2>2. \A i, o \in jobs' : i.exec = y /\ o.exec = y /\ i.id = o.id => i = o
        BY <1>1, <2>1 DEF Single
    <2>3. \A i \in jobs', k \in DOMAIN t : i.exec = y /\ t[k].exec = y => i.id # t[k].id
        BY <1>1, <1>2, <1>4, <2>1 DEF Single, q
    <2>4. \A k, l \in DOMAIN t : t[k].exec = y /\ t[l].exec = y /\ t[k].id = t[l].id => k = l
        BY <1>2, <1>4, <2>1 DEF Single, q
    <2>5. QED
        BY <2>2, <2>3, <2>4 DEF Single, t
<1>7. QED
    BY <1>1, <1>5, <1>6, OthersKeepOnce DEF OnceInv

\* Pauses, edits, stopping and starting.
LEMMA ChangesKeepOnce ==
    ASSUME WInv, OnceInv,
           \/ \E id \in Pausable : SetPaused(id)
           \/ \E id \in Ids : RemoveEntry(id) \/ UpdateEntry(id)
           \/ \E e \in Edge : AddDependency(e)
           \/ \E child, parent \in Ids : RemoveDependency(child, parent)
           \/ Stop \/ Start
           \/ UNCHANGED wvars
    PROVE  OnceInv'
<1>1. ASSUME UNCHANGED <<active, dispatched, nextExec, jobs, jobDone, entryDeps, disturbed>>,
             paused' \subseteq Pausable
      PROVE  OnceInv'
    <2>1. \A y, i : UnderWay(y, i)' => UnderWay(y, i)
        BY <1>1 DEF UnderWay
    <2>2. \A y \in DOMAIN active \ disturbed : Single(y)'
        BY <1>1 DEF OnceInv, OnceAt, Single
    <2>3. QED
        BY <1>1, <2>1, <2>2, OthersKeepOnce
<1>2. ASSUME Edit, UNCHANGED <<active, dispatched, nextExec, jobDone, paused>>,
             \A j \in jobs' : \E o \in jobs : o.exec = j.exec /\ o.id = j.id
      PROVE  OnceInv'
    <2>1. \A y, i : UnderWay(y, i)' => UnderWay(y, i)
        BY <1>2 DEF UnderWay
    <2>2. DOMAIN active \subseteq disturbed' /\ disturbed \subseteq disturbed'
        BY <1>2 DEF Edit
    <2>3. QED
        BY <1>2, <2>1, <2>2, OthersKeepOnce DEF OnceInv
<1>3. CASE \E id \in Pausable : SetPaused(id)
    BY <1>1, <1>3 DEF SetPaused, graph, execs, OnceInv
<1>4. ASSUME NEW id \in Ids, Edit, Cancel(id), UNCHANGED <<active, dispatched, nextExec, jobDone, paused>>
      PROVE  OnceInv'
    <2> DEFINE I == {id}
    <2>1. jobs' = {IF j.id \in I THEN [j EXCEPT !.live = FALSE] ELSE j : j \in jobs}
        BY <1>4 DEF Cancel
    <2>2. WTypes
        BY DEF WInv
    <2> HIDE DEF I
    <2>3. \A j \in jobs' : \E o \in jobs : o.exec = j.exec /\ o.id = j.id
        BY <2>1, <2>2, CancelFacts
    <2>4. QED
        BY <1>2, <1>4, <2>3
<1>5. CASE \E id \in Ids : RemoveEntry(id) \/ UpdateEntry(id)
    BY <1>4, <1>5 DEF RemoveEntry, UpdateEntry, execs
<1>6. CASE \/ \E e \in Edge : AddDependency(e)
           \/ \E child, parent \in Ids : RemoveDependency(child, parent)
    BY <1>2, <1>6 DEF AddDependency, RemoveDependency, execs
<1>7. CASE Stop
    <2>1. /\ jobs' = {[j EXCEPT !.live = FALSE] : j \in jobs} /\ jobs \subseteq Job
          /\ UNCHANGED <<active, dispatched, nextExec, jobDone, paused>> /\ Edit
        BY <1>7 DEF Stop, execs, WInv, WTypes
    <2>2. \A j \in jobs' : \E o \in jobs : o.exec = j.exec /\ o.id = j.id
        BY <2>1 DEF Job
    <2>3. QED
        BY <1>2, <2>1, <2>2
<1>8. CASE Start \/ UNCHANGED wvars
    BY <1>1, <1>8 DEF Start, wvars, graph, execs, OnceInv
<1>9. QED
    BY <1>3, <1>5, <1>6, <1>7, <1>8

LEMMA OnceNext ==
    ASSUME UNCHANGED entryDeps, NEW y, Single(y)', active'[y].root \in DOMAIN active'[y].results,
           \A i \in Ids : UnderWay(y, i)' =>
               /\ i \in DOMAIN active'[y].results
               /\ active'[y].results[i] = "Pending" /\ dispatched'[y][i] > 0,
           Settled(active'[y].root, active'[y].results, dispatched'[y])
    PROVE  OnceAt(y)'
<1>1. Settled(active[y].root, active[y].results, dispatched[y])'
    BY DEF Settled, AllParentsResolved, Fires
<1>2. QED
    BY <1>1 DEF OnceAt

\* An execution that a step leaves alone.
LEMMA OnceStays ==
    ASSUME WTypes, UNCHANGED entryDeps, NEW y \in DOMAIN active, OnceAt(y), active'[y] = active[y],
           \A i \in Ids : dispatched'[y][i] = dispatched[y][i],
           \A i \in Ids : UnderWay(y, i)' => UnderWay(y, i), Single(y)'
    PROVE  OnceAt(y)'
<1>1. DOMAIN active[y].results \subseteq Ids
    <2>1. active[y].results \in ResultMaps
        BY DEF WTypes
    <2>2. QED
        BY <2>1 DEF ResultMaps
<1>2. Settled(active'[y].root, active'[y].results, dispatched'[y])
    BY <1>1 DEF OnceAt, Settled
<1>3. QED
    BY <1>2, OnceNext DEF OnceAt

LEMMA FireKeepsOnce ==
    ASSUME WInv, OnceInv, NEW id \in Ids, Fire(id)
    PROVE  OnceInv'
<1> DEFINE x   == nextExec
           new == [root |-> id, results |-> [i \in Participants(id) |-> "Pending"]]
           ids == <<id>>
<1>1. /\ x \in Execs /\ x \in Nat /\ x \notin DOMAIN active /\ nextExec' = x + 1
      /\ DOMAIN active \subseteq 1..(x - 1)
      /\ StartJobs(x, ids) /\ UNCHANGED <<paused, jobDone>>
      /\ dispatched \in [Execs -> [Ids -> Nat]] /\ Execs \subseteq Nat
    BY WorkflowAssumption DEF Fire, WInv, WTypes, Execs
<1>2. ids \in Seq(Ids) /\ IsInjective(ids) /\ \A i : Seen(ids, i) <=> i = id
    BY DEF Seen, IsInjective
<1> HIDE DEF ids
<1>3. /\ \A y \in Execs, i \in Ids : dispatched'[y][i] =
             IF y = x /\ i = id THEN dispatched[y][i] + 1 ELSE dispatched[y][i]
      /\ \A j, o \in jobs' \ jobs : j.id = o.id => j = o
      /\ jobs \subseteq jobs' /\ \A j \in jobs' \ jobs : j.exec = x /\ j.id = id
    <2>1. WTypes
        BY DEF WInv
    <2>2. /\ \A y \in Execs, i \in Ids : dispatched'[y][i] =
                 IF y = x /\ Seen(ids, i) THEN dispatched[y][i] + 1 ELSE dispatched[y][i]
          /\ \A j, o \in jobs' \ jobs : j.id = o.id => j = o
        BY <1>1, <1>2, <2>1, StartJobsOnce DEF StartedOnce
    <2>3. jobs \subseteq jobs' /\ \A j \in jobs' \ jobs : j.exec = x /\ Seen(ids, j.id)
        BY <1>1, <1>2, <2>1, StartJobsFacts
    <2>4. QED
        BY <1>2, <2>2, <2>3
<1>4. /\ DOMAIN active' = DOMAIN active \union {x} /\ active'[x] = new
      /\ \A y \in DOMAIN active : active'[y] = active[y] /\ y # x
    <2>1. active' = [y \in DOMAIN active \union {x} |-> IF y = x THEN new ELSE active[y]]
        BY DEF Fire
    <2> HIDE DEF new
    <2>2. QED
        BY <1>1, <2>1
\* Nothing was there of the new execution.
<1>5. /\ \A j \in jobs : j.exec # x
      /\ \A k \in DOMAIN jobDone : jobDone[k].exec # x
    <2>1. \A i \in Ids : ~UnderWay(x, i)
        BY <1>1 DEF WInv, StepsKnown
    <2>2. jobs \subseteq Job /\ \A k \in DOMAIN jobDone : jobDone[k] \in Event
        BY DEF WInv, WTypes
    <2>3. QED
        BY <2>1, <2>2 DEF UnderWay, Job, Event
<1>6. /\ disturbed \subseteq disturbed'
      /\ \/ DOMAIN active' \subseteq disturbed'
         \/ UNCHANGED entryDeps
    <2>1. disturbed' = IF baseCancelled THEN disturbed \union {x}
                       ELSE IF id \in RunOnce THEN disturbed \union DOMAIN active \union {x}
                       ELSE disturbed
        BY DEF Fire
    <2>2. id \notin RunOnce => UNCHANGED entryDeps
        BY DEF Fire, graph
    <2>3. baseCancelled => DOMAIN active \subseteq disturbed
        BY DEF WInv, CancelledDisturbed
    <2>4. CASE baseCancelled
        BY <1>4, <2>1, <2>3, <2>4
    <2>5. CASE ~baseCancelled /\ id \in RunOnce
        BY <1>4, <2>1, <2>5
    <2>6. CASE ~baseCancelled /\ id \notin RunOnce
        BY <2>1, <2>2, <2>6
    <2>7. QED
        BY <2>4, <2>5, <2>6
<1> HIDE DEF new
<1>7. \A i \in Ids : dispatched'[x][i] = IF i = id THEN 1 ELSE 0
    <2>1. \A i \in Ids : dispatched[x][i] = 0
        BY <1>1 DEF OnceInv, Unstarted
    <2>2. QED
        BY <1>1, <1>3, <2>1
<1>8. DispatchedOnce' /\ Unstarted'
    <2>1. ASSUME NEW y \in Execs, y # x
          PROVE  \A i \in Ids : dispatched'[y][i] = dispatched[y][i]
        BY <1>3, <2>1
    <2>2. \A y \in Execs \ disturbed', i \in Ids : dispatched'[y][i] <= 1
        <3>1. ASSUME NEW y \in Execs \ disturbed', NEW i \in Ids PROVE dispatched'[y][i] <= 1
            <4>1. CASE y = x
                BY <1>7, <4>1
            <4>2. CASE y # x
                BY <1>6, <2>1, <4>2 DEF OnceInv, DispatchedOnce
            <4>3. QED
                BY <4>1, <4>2
        <3>2. QED
            BY <3>1
    <2>3. \A y \in Execs : y >= nextExec' => \A i \in Ids : dispatched'[y][i] = 0
        <3>1. ASSUME NEW y \in Execs, y >= x + 1 PROVE y >= x /\ y # x
            BY <1>1, <3>1
        <3>2. QED
            BY <1>1, <2>1, <3>1 DEF OnceInv, Unstarted
    <2>4. QED
        BY <2>2, <2>3 DEF DispatchedOnce, Unstarted
<1>9. QuietWhenComplete'
    <2>1. ASSUME NEW y \in 1..(nextExec' - 1) \ (DOMAIN active' \union disturbed')
          PROVE  /\ \A j \in jobs' : j.exec # y
                 /\ \A k \in DOMAIN jobDone' : jobDone'[k].exec # y
        <3>1. y # x /\ y \in 1..(x - 1) \ (DOMAIN active \union disturbed)
            BY <1>1, <1>4, <1>6
        <3>2. /\ \A j \in jobs : j.exec # y
              /\ \A k \in DOMAIN jobDone : jobDone[k].exec # y
            BY <3>1 DEF OnceInv, QuietWhenComplete
        <3>3. QED
            BY <1>1, <1>3, <3>1, <3>2
    <2>2. QED
        BY <2>1, Zenon DEF QuietWhenComplete
<1>10. ASSUME NEW y \in DOMAIN active' \ disturbed'
       PROVE  OnceAt(y)'
    <2>1. UNCHANGED entryDeps
        BY <1>6, <1>10
    <2>2. CASE y = x
        <3>1. /\ DOMAIN new.results = Participants(id) /\ new.root = id /\ id \in Participants(id)
              /\ \A i \in Participants(id) : new.results[i] = "Pending"
              /\ Participants(id) \subseteq Ids
            BY DEF new, Participants
        <3>2. Single(y)'
            <4>1. \A j, o \in jobs' : j.exec = y /\ o.exec = y /\ j.id = o.id => j = o
                BY <1>3, <1>5, <2>2
            <4>2. \A k \in DOMAIN jobDone' : jobDone'[k].exec # y
                BY <1>1, <1>5, <2>2
            <4>3. QED
                BY <4>1, <4>2 DEF Single
        <3>3. \A i \in Ids : UnderWay(y, i)' => i = id
            BY <1>1, <1>3, <1>5, <2>2 DEF UnderWay
        <3>4. \A i \in Participants(id) \ {id} : dispatched'[x][i] = 0
            BY <1>7, <3>1
        <3>5. Settled(id, new.results, dispatched'[x])
            <4>1. dispatched'[x][id] = 1
                BY <1>7
            <4>2. \A i \in Participants(id) : ~IsTerminal(new.results[i])
                BY <3>1 DEF IsTerminal
            <4>3. QED
                BY <3>1, <3>4, <4>1, <4>2 DEF Settled
        <3>6. /\ active'[y].root = id /\ active'[y].results = new.results
              /\ dispatched'[y] = dispatched'[x] /\ dispatched'[y][id] > 0
            BY <1>4, <1>7, <2>2, <3>1
        <3>7. Settled(active'[y].root, active'[y].results, dispatched'[y])
            BY <3>5, <3>6
        <3>8. /\ active'[y].root \in DOMAIN active'[y].results
              /\ \A i \in Ids : UnderWay(y, i)' =>
                     /\ i \in DOMAIN active'[y].results
                     /\ active'[y].results[i] = "Pending" /\ dispatched'[y][i] > 0
            BY <3>1, <3>3, <3>6
        <3>9. QED
            BY <2>1, <3>2, <3>7, <3>8, OnceNext
    <2>3. CASE y # x
        <3>1. y \in DOMAIN active \ disturbed /\ active'[y] = active[y] /\ OnceAt(y) /\ y \in Execs
            <4>1. y \in DOMAIN active \ disturbed /\ active'[y] = active[y]
                BY <1>4, <1>6, <1>10, <2>3
            <4>2. y \in Execs
                BY <1>1, <4>1, WorkflowAssumption DEF Execs
            <4>3. QED
                BY <4>1, <4>2 DEF OnceInv
        <3>2. \A i \in Ids : dispatched'[y][i] = dispatched[y][i]
            BY <1>3, <2>3, <3>1
        <3>3. \A i \in Ids : UnderWay(y, i)' => UnderWay(y, i)
            BY <1>1, <1>3, <2>3 DEF UnderWay
        <3>4. Single(y)'
            <4>1. \A j \in jobs' : j.exec = y => j \in jobs
                BY <1>3, <2>3
            <4>2. QED
                BY <1>1, <3>1, <4>1 DEF OnceAt, Single
        <3>5. QED
            BY <2>1, <3>1, <3>2, <3>3, <3>4, OnceStays DEF WInv
    <2>4. QED
        BY <2>2, <2>3
<1>11. QED
    BY <1>1, <1>8, <1>9, <1>10 DEF OnceInv

\* The events that remain.
LEMMA RemainingEvents ==
    ASSUME NEW q \in Seq(Event), q # <<>>
    PROVE  /\ Head(q) \in Event /\ 1 \in DOMAIN q /\ q[1] = Head(q)
           /\ \A k \in DOMAIN Tail(q) : k + 1 \in DOMAIN q /\ k + 1 # 1 /\ Tail(q)[k] = q[k + 1]
           /\ \A k, l \in DOMAIN Tail(q) : k + 1 = l + 1 => k = l
OBVIOUS

\* Execution y starts nothing while the run loop takes an event.
LEMMA TakenKeepsSingle ==
    ASSUME WTypes, JobDone, NEW y, Single(y), \A j \in jobs' : j.exec = y => j \in jobs
    PROVE  /\ Single(y)' /\ \A i : UnderWay(y, i)' => UnderWay(y, i)
           /\ \A i : UnderWay(y, i)' => ~(Head(jobDone).exec = y /\ Head(jobDone).id = i)
<1>1. jobDone \in Seq(Event) /\ jobDone # <<>> /\ jobDone' = Tail(jobDone)
    BY DEF JobDone, WTypes
<1> DEFINE q == jobDone
           t == jobDone'
           e == Head(jobDone)
<1>2. /\ 1 \in DOMAIN q /\ q[1] = e
      /\ \A k \in DOMAIN t : k + 1 \in DOMAIN q /\ k + 1 # 1 /\ t[k] = q[k + 1]
      /\ \A k, l \in DOMAIN t : k + 1 = l + 1 => k = l
    BY <1>1, RemainingEvents
<1> HIDE DEF e
<1>3. \A k, l \in DOMAIN t : t[k].exec = y /\ t[l].exec = y /\ t[k].id = t[l].id => k = l
    BY <1>2 DEF Single
<1>4. \A j \in jobs', k \in DOMAIN t : j.exec = y /\ t[k].exec = y => j.id # t[k].id
    BY <1>2 DEF Single
<1>5. Single(y)'
    BY <1>3, <1>4 DEF Single
<1>6. \A i : UnderWay(y, i)' => UnderWay(y, i)
    BY <1>2 DEF UnderWay
<1>7. ASSUME e.exec = y
      PROVE  /\ \A k \in DOMAIN t : t[k].exec = y => t[k].id # e.id
             /\ \A j \in jobs' : j.exec = y => j.id # e.id
    BY <1>2, <1>7 DEF Single
<1>8. \A i : UnderWay(y, i)' => ~(e.exec = y /\ e.id = i)
    BY <1>7 DEF UnderWay
<1>9. QED
    BY <1>5, <1>6, <1>8 DEF e

\* What an event leaves of its execution: r are its results after it.
KeptOnce(x, r) ==
    /\ r \in [DOMAIN active[x].results -> Results] /\ DOMAIN active[x].results \subseteq Ids
    /\ active[x].root \in DOMAIN active[x].results
    /\ Settled(active[x].root, r, dispatched'[x])
    /\ Single(x)'
    /\ \A i \in Ids : UnderWay(x, i)' =>
          i \in DOMAIN active[x].results /\ r[i] = "Pending" /\ dispatched'[x][i] > 0
    /\ \A i \in Ids : dispatched'[x][i] <= 1

\* What the event of an undisturbed execution makes of it.
LEMMA ProcessOnce ==
    ASSUME WInv, OnceInv, NoShortcut, JobDone, NEW e, e = Head(jobDone),
           NEW x, x = e.exec, x \in DOMAIN active \ disturbed,
           NEW R, R = active[x].results, NEW p, p = e.id,
           NEW result, result = e.result, NEW r0, r0 = After(R, p, result),
           NEW s, s = EvaluateChildren(r0, p)
    PROVE  KeptOnce(x, s.results)
<1> DEFINE P    == DOMAIN R
           root == active[x].root
           n    == dispatched[x]
           m    == dispatched'[x]
           r    == s.results
           st   == s.started
<1>1. /\ WTypes /\ OnceAt(x) /\ ChildTypes /\ DepTypes /\ Mirrored /\ Anchored
      /\ paused \subseteq Pausable /\ x \in Execs
    <2>1. WTypes /\ Graph!GraphInv /\ OnceAt(x) /\ paused \subseteq Pausable
        BY DEF WInv, OnceInv
    <2>2. x \in Execs
        BY <2>1, WorkflowAssumption DEF WTypes, Execs
    <2>3. DepTypes
        BY <2>1, WorkflowAssumption DEF DepTypes, WTypes
    <2>4. QED
        BY <2>1, <2>2, <2>3, IndexesInstance DEF WTypes
<1>2. e \in Event /\ p \in Ids /\ result \in Results \ {"Pending"} /\ UnderWay(x, p)
    <2>1. jobDone \in Seq(Event) /\ jobDone # <<>>
        BY <1>1 DEF JobDone, WTypes
    <2>2. e \in Event /\ 1 \in DOMAIN jobDone /\ jobDone[1] = e
        BY <2>1, RemainingEvents
    <2>3. QED
        BY <2>2 DEF Event, UnderWay
<1>3. /\ P \in SUBSET Ids /\ R \in [P -> Results] /\ root \in P
      /\ p \in P /\ R[p] = "Pending" /\ n[p] > 0
      /\ Settled(root, R, n)
    <2>1. R \in ResultMaps
        BY <1>1 DEF WTypes
    <2>2. P \in SUBSET Ids /\ R \in [P -> Results]
        BY <2>1 DEF ResultMaps
    <2>3. root \in P /\ Settled(root, R, n)
        BY <1>1 DEF OnceAt
    <2>4. p \in P /\ R[p] = "Pending" /\ n[p] > 0
        BY <1>1, <1>2 DEF OnceAt
    <2>5. QED
        BY <2>2, <2>3, <2>4
<1> HIDE DEF P, root, n, m, r, st
<1>4. OnceOutcome(P, R, r0, s)
    <2>1. ChildTypes /\ DepTypes /\ Mirrored /\ Anchored
        BY <1>1, Zenon
    <2>2. P \in SUBSET Ids /\ R \in [P -> Results] /\ p \in P /\ R[p] = "Pending"
          /\ result \in Results \ {"Pending"}
        BY <1>2, <1>3, Zenon
    <2>3. OnceOutcome(P, R, r0, EvaluateChildren(r0, p))
        BY <2>1, <2>2, EvaluateOnce, Zenon
    <2>4. QED
        BY <2>3, Zenon
<1>5. /\ r \in [P -> Results] /\ st \in Seq(Ids) /\ IsInjective(st)
      /\ r = s.results /\ st = s.started
    <2>1. s.results \in [P -> Results] /\ s.started \in Seq(Ids) /\ IsInjective(s.started)
        BY <1>4, Zenon DEF OnceOutcome
    <2>2. QED
        BY <2>1, Zenon DEF r, st
<1>6. StartJobs(x, st)
    <2>1. Process(e)
        BY DEF JobDone
    <2>2. QED
        BY <1>5, <2>1 DEF Process, After
<1>7. /\ \A i \in Ids : m[i] = IF Seen(st, i) THEN n[i] + 1 ELSE n[i]
      /\ \A j, o \in jobs' \ jobs : j.id = o.id => j = o
      /\ jobs \subseteq jobs' /\ jobs' \subseteq Job
      /\ \A j \in jobs' \ jobs : j.exec = x /\ Seen(st, j.id)
      /\ n \in [Ids -> Nat] /\ m \in [Ids -> Nat]
    <2>1. /\ \A y \in Execs, i \in Ids : dispatched'[y][i] =
                 IF y = x /\ Seen(st, i) THEN dispatched[y][i] + 1 ELSE dispatched[y][i]
          /\ \A j, o \in jobs' \ jobs : j.id = o.id => j = o
        <3>1. StartedOnce(x, st)
            BY <1>1, <1>5, <1>6, StartJobsOnce, Zenon
        <3>2. QED
            BY <3>1 DEF StartedOnce
    <2>2. /\ jobs \subseteq jobs' /\ jobs' \subseteq Job /\ dispatched' \in [Execs -> [Ids -> Nat]]
          /\ \A j \in jobs' \ jobs : j.exec = x /\ Seen(st, j.id)
        BY <1>1, <1>5, <1>6, StartJobsFacts, Zenon
    <2>3. dispatched \in [Execs -> [Ids -> Nat]]
        BY <1>1, Zenon DEF WTypes
    <2>4. \A i \in Ids : m[i] = IF Seen(st, i) THEN n[i] + 1 ELSE n[i]
        BY <1>1, <2>1, Zenon DEF n, m
    <2>5. n \in [Ids -> Nat] /\ m \in [Ids -> Nat]
        BY <1>1, <2>2, <2>3 DEF n, m
    <2>6. QED
        BY <2>1, <2>2, <2>4, <2>5, Zenon
<1>8. SettledAfter(P, root, R, n, s, m, p)
    <2>1. Counted(n, m, s.started)
        BY <1>5, <1>7, Zenon DEF Counted
    <2>2. /\ DepTypes /\ paused \subseteq Pausable /\ result \in Results \ {"Pending"}
          /\ P \in SUBSET Ids /\ R \in [P -> Results] /\ root \in P /\ p \in P
          /\ n \in [Ids -> Nat] /\ m \in [Ids -> Nat]
          /\ R[p] = "Pending" /\ n[p] > 0 /\ Settled(root, R, n)
        BY <1>1, <1>2, <1>3, <1>7, Zenon
    <2>3. QED
        BY <1>4, <2>1, <2>2, SettledNext, Zenon
<1>9. /\ Settled(root, r, m)
      /\ \A i : Seen(st, i) => i \in P /\ i # root /\ n[i] = 0 /\ m[i] = 1 /\ r[i] = "Pending"
      /\ \A i \in P \ {p} : R[i] = "Pending" /\ n[i] > 0 => r[i] = "Pending"
    BY <1>5, <1>8, ZenonT(60) DEF SettledAfter
<1>10. \A i \in Ids : UnderWay(x, i) => i \in P /\ R[i] = "Pending" /\ n[i] > 0
    BY <1>1 DEF OnceAt, P, n
\* What is still there of before, and what is new.
<1> DEFINE kept(i) == \/ \E j \in jobs : j.exec = x /\ j.id = i
                      \/ \E k \in DOMAIN jobDone' : jobDone'[k].exec = x /\ jobDone'[k].id = i
<1>11. /\ \A k, l \in DOMAIN jobDone' :
              jobDone'[k].exec = x /\ jobDone'[l].exec = x /\ jobDone'[k].id = jobDone'[l].id => k = l
       /\ \A j \in jobs, k \in DOMAIN jobDone' :
              j.exec = x /\ jobDone'[k].exec = x => j.id # jobDone'[k].id
       /\ \A i : kept(i) => UnderWay(x, i) /\ i # p
    <2>1. jobDone \in Seq(Event) /\ jobDone # <<>> /\ jobDone' = Tail(jobDone)
        BY <1>1 DEF JobDone, WTypes
    <2> DEFINE q == jobDone
               t == jobDone'
    <2>2. /\ 1 \in DOMAIN q /\ q[1] = e
          /\ \A k \in DOMAIN t : k + 1 \in DOMAIN q /\ k + 1 # 1 /\ t[k] = q[k + 1]
          /\ \A k, l \in DOMAIN t : k + 1 = l + 1 => k = l
        BY <2>1, RemainingEvents
    <2>3. /\ \A j \in jobs, k \in DOMAIN q : j.exec = x /\ q[k].exec = x => j.id # q[k].id
          /\ \A k, l \in DOMAIN q : q[k].exec = x /\ q[l].exec = x /\ q[k].id = q[l].id => k = l
        BY <1>1 DEF OnceAt, Single
    <2> HIDE DEF q, t
    <2>4. \A k, l \in DOMAIN t : t[k].exec = x /\ t[l].exec = x /\ t[k].id = t[l].id => k = l
        BY <2>2, <2>3
    <2>5. \A j \in jobs, k \in DOMAIN t : j.exec = x /\ t[k].exec = x => j.id # t[k].id
        BY <2>2, <2>3
    <2>6. /\ \A k \in DOMAIN t : t[k].exec = x => t[k].id # p
          /\ \A j \in jobs : j.exec = x => j.id # p
        BY <2>2, <2>3
    <2>7. \A i : kept(i) => UnderWay(x, i)
        BY <2>2 DEF UnderWay, q, t
    <2>8. QED
        BY <2>4, <2>5, <2>6, <2>7 DEF t
<1>12. \A i \in Ids : UnderWay(x, i)' => kept(i) \/ Seen(st, i)
    <2>1. \A j \in jobs' : j \in jobs \/ (j.exec = x /\ Seen(st, j.id))
        BY <1>7, Zenon
    <2>2. ASSUME NEW i \in Ids, UnderWay(x, i)'
          PROVE  kept(i) \/ Seen(st, i)
        <3>1. CASE \E j \in jobs' : j.exec = x /\ j.id = i
            BY <2>1, <3>1
        <3>2. CASE \E k \in DOMAIN jobDone' : jobDone'[k].exec = x /\ jobDone'[k].id = i
            BY <3>2
        <3>3. QED
            BY <2>2, <3>1, <3>2 DEF UnderWay
    <2>3. QED
        BY <2>2, Zenon
<1>13. \A i : Seen(st, i) => i \in Ids /\ ~kept(i)
    <2>1. ASSUME NEW i, Seen(st, i)
          PROVE  i \in Ids /\ ~UnderWay(x, i)
        <3>1. i \in Ids /\ n[i] = 0
            BY <1>3, <1>9, <2>1
        <3>2. ~(n[i] > 0)
            BY <3>1
        <3>3. QED
            BY <1>10, <3>1, <3>2, Zenon
    <2> HIDE DEF kept
    <2>2. QED
        BY <1>11, <2>1
<1>14. Single(x)'
    <2>1. \A j, o \in jobs : j.exec = x /\ o.exec = x /\ j.id = o.id => j = o
        BY <1>1 DEF OnceAt, Single
    <2>2. ASSUME NEW j \in jobs' \ jobs
          PROVE  /\ \A o \in jobs : o.exec = x => o.id # j.id
                 /\ \A k \in DOMAIN jobDone' : jobDone'[k].exec = x => j.id # jobDone'[k].id
        <3>1. ~kept(j.id)
            BY <1>7, <1>13
        <3>2. QED
            BY <3>1
    <2> HIDE DEF kept
    <2>3. \A j, o \in jobs' : j.exec = x /\ o.exec = x /\ j.id = o.id => j = o
        BY <1>7, <2>1, <2>2
    <2>4. \A j \in jobs', k \in DOMAIN jobDone' :
              j.exec = x /\ jobDone'[k].exec = x => j.id # jobDone'[k].id
        BY <1>11, <2>2
    <2>5. QED
        BY <1>11, <2>3, <2>4 DEF Single
<1> HIDE DEF kept
<1>15. ASSUME NEW i \in Ids, UnderWay(x, i)'
       PROVE  i \in P /\ r[i] = "Pending" /\ m[i] > 0
    <2>1. CASE Seen(st, i)
        BY <1>9, <2>1
    <2>2. CASE kept(i) /\ ~Seen(st, i)
        <3>1. i \in P \ {p} /\ R[i] = "Pending" /\ n[i] > 0 /\ m[i] = n[i]
            BY <1>7, <1>10, <1>11, <2>2
        <3>2. QED
            BY <1>9, <3>1
    <2>3. QED
        BY <1>12, <1>15, <2>1, <2>2
<1>16. \A i \in Ids : m[i] <= 1
    <2>1. \A i \in Ids : n[i] <= 1
        BY <1>1 DEF OnceInv, DispatchedOnce, n
    <2>2. QED
        BY <1>7, <1>9, <2>1
<1>17. /\ s.results \in [DOMAIN R -> Results] /\ DOMAIN R \subseteq Ids
       /\ active[x].root \in DOMAIN R
       /\ Settled(active[x].root, s.results, dispatched'[x])
       /\ Single(x)'
       /\ \A i \in Ids : UnderWay(x, i)' =>
             i \in DOMAIN R /\ s.results[i] = "Pending" /\ dispatched'[x][i] > 0
       /\ \A i \in Ids : dispatched'[x][i] <= 1
    BY <1>3, <1>5, <1>9, <1>14, <1>15, <1>16, Zenon DEF P, root, m
<1>18. QED
    BY <1>17, Zenon DEF KeptOnce

\* Results r of execution x, after the event it reported.
LEMMA EventFacts ==
    ASSUME WInv, OnceInv, NoShortcut, JobDone, NEW x \in DOMAIN active, x = Head(jobDone).exec
    PROVE  \E r :
        /\ \A y \in Execs : y # x => dispatched'[y] = dispatched[y]
        /\ \A j \in jobs' \ jobs : j.exec = x
        /\ DOMAIN active' \subseteq DOMAIN active
        /\ \A y \in DOMAIN active : y # x => y \in DOMAIN active' /\ active'[y] = active[y]
        /\ x \in DOMAIN active' => active'[x].results = r /\ active'[x].root = active[x].root
        /\ x \notin DOMAIN active' =>
               IsComplete(r) /\ completed' = Retained(Append(completed, [exec |-> x, results |-> r]))
        /\ x \notin disturbed =>
               /\ r \in [DOMAIN active[x].results -> Results] /\ DOMAIN active[x].results \subseteq Ids
               /\ active[x].root \in DOMAIN r
               /\ Settled(active[x].root, r, dispatched'[x])
               /\ Single(x)'
               /\ \A i \in Ids : UnderWay(x, i)' =>
                     i \in DOMAIN r /\ r[i] = "Pending" /\ dispatched'[x][i] > 0
               /\ \A i \in Ids : dispatched'[x][i] <= 1
<1>1. PICK e : e = Head(jobDone)
    OBVIOUS
<1>2. PICK R : R = active[x].results
    OBVIOUS
<1>3. PICK p : p = e.id
    OBVIOUS
<1>4. PICK result : result = e.result
    OBVIOUS
<1>5. PICK r0 : r0 = After(R, p, result)
    OBVIOUS
<1>6. PICK s : s = EvaluateChildren(r0, p)
    OBVIOUS
<1>7. /\ StartJobs(x, s.started)
      /\ IF IsComplete(s.results)
         THEN /\ active' = WithoutExec(x)
              /\ completed' = Retained(Append(completed, [exec |-> x, results |-> s.results]))
         ELSE active' = [active EXCEPT ![x] = [active[x] EXCEPT !.results = s.results]]
    <2>1. Process(e)
        BY <1>1 DEF JobDone
    <2>2. QED
        BY <1>1, <1>2, <1>3, <1>4, <1>5, <1>6, <2>1 DEF Process, After
<1>8. WTypes /\ x \in Execs
    BY WorkflowAssumption, SMTT(30) DEF WInv, WTypes, Execs
<1>9. \A y \in Execs : y # x => dispatched'[y] = dispatched[y]
    BY <1>7, <1>8 DEF StartJobs, WTypes
<1>10. \A j \in jobs' \ jobs : j.exec = x
    <2> DEFINE times(i)   == Cardinality({k \in DOMAIN s.started : s.started[k] = i})
               started(i) == {[exec |-> x, id |-> i, nr |-> dispatched[x][i] + m,
                               live |-> ~baseCancelled] : m \in 1..times(i)}
    <2>1. jobs' = jobs \union UNION {started(i) : i \in Ids}
        BY <1>7, Zenon DEF StartJobs
    <2> HIDE DEF times
    <2>2. ASSUME NEW i, NEW j \in started(i) PROVE j.exec = x
        OBVIOUS
    <2> HIDE DEF started
    <2>3. QED
        BY <2>1, <2>2
<1>11. /\ DOMAIN active' \subseteq DOMAIN active
       /\ \A y \in DOMAIN active : y # x => y \in DOMAIN active' /\ active'[y] = active[y]
       /\ x \in DOMAIN active' => active'[x].results = s.results /\ active'[x].root = active[x].root
       /\ x \notin DOMAIN active' =>
              /\ IsComplete(s.results)
              /\ completed' = Retained(Append(completed, [exec |-> x, results |-> s.results]))
    <2>1. active \in [DOMAIN active -> [root : Ids, results : ResultMaps]]
        BY <1>8 DEF WTypes
    <2>2. CASE IsComplete(s.results)
        BY <1>7, <2>1, <2>2 DEF WithoutExec
    <2>3. CASE ~IsComplete(s.results)
        <3> DEFINE new == [active[x] EXCEPT !.results = s.results]
        <3>1. active' = [active EXCEPT ![x] = new]
            BY <1>7, <2>3
        <3>2. active[x] \in [root : Ids, results : ResultMaps]
            BY <2>1
        <3>3. new.results = s.results /\ new.root = active[x].root
            BY <3>2
        <3> HIDE DEF new
        <3>4. QED
            BY <2>1, <3>1, <3>3
    <2>4. QED
        BY <2>2, <2>3
<1>12. ASSUME x \notin disturbed
       PROVE  KeptOnce(x, s.results)
    <2>1. x = e.exec /\ x \in DOMAIN active \ disturbed
        BY <1>1, <1>12
    <2>2. QED
        BY <1>1, <1>2, <1>3, <1>4, <1>5, <1>6, <2>1, ProcessOnce, Zenon
<1>13. x \notin disturbed => DOMAIN s.results = DOMAIN R
    BY <1>2, <1>12 DEF KeptOnce
<1>14. WITNESS s.results
<1>15. QED
    BY <1>2, <1>9, <1>10, <1>11, <1>12, <1>13 DEF KeptOnce

LEMMA JobDoneKeepsOnce ==
    ASSUME WInv, OnceInv, NoShortcut, JobDone
    PROVE  OnceInv'
<1>1. PICK x : x = Head(jobDone).exec
    OBVIOUS
<1>2. /\ UNCHANGED <<entryDeps, paused, nextExec, disturbed>>
      /\ x \notin DOMAIN active => UNCHANGED <<active, dispatched, jobs>>
    BY <1>1 DEF JobDone, graph
<1>3. WTypes /\ DOMAIN active \subseteq Execs /\ DOMAIN active \subseteq 1..(nextExec - 1)
    BY WorkflowAssumption, SMTT(30) DEF WInv, WTypes, Execs
<1>4. ASSUME NEW y, \A j \in jobs' : j.exec = y => j \in jobs
      PROVE  /\ Single(y) => Single(y)'
             /\ \A i : UnderWay(y, i)' => UnderWay(y, i)
    <2>1. \A i : UnderWay(y, i)' => UnderWay(y, i)
        <3>1. jobDone \in Seq(Event) /\ jobDone # <<>> /\ jobDone' = Tail(jobDone)
            BY <1>3 DEF JobDone, WTypes
        <3>2. \A k \in DOMAIN jobDone' : k + 1 \in DOMAIN jobDone /\ jobDone'[k] = jobDone[k + 1]
            BY <3>1, RemainingEvents
        <3>3. QED
            BY <1>4, <3>2 DEF UnderWay
    <2>2. QED
        BY <1>3, <1>4, <2>1, TakenKeepsSingle
<1>5. CASE x \notin DOMAIN active
    <2>1. UNCHANGED <<active, dispatched, jobs>>
        BY <1>2, <1>5
    <2>2. \A y, i : UnderWay(y, i)' => UnderWay(y, i)
        BY <1>4, <2>1
    <2>3. \A y \in DOMAIN active \ disturbed : Single(y)'
        BY <1>4, <2>1 DEF OnceInv, OnceAt
    <2>4. QED
        BY <1>2, <2>1, <2>2, <2>3, OthersKeepOnce DEF OnceInv
<1>6. CASE x \in DOMAIN active
    <2>1. PICK r :
        /\ \A y \in Execs : y # x => dispatched'[y] = dispatched[y]
        /\ \A j \in jobs' \ jobs : j.exec = x
        /\ DOMAIN active' \subseteq DOMAIN active
        /\ \A y \in DOMAIN active : y # x => y \in DOMAIN active' /\ active'[y] = active[y]
        /\ x \in DOMAIN active' => active'[x].results = r /\ active'[x].root = active[x].root
        /\ x \notin DOMAIN active' =>
               IsComplete(r) /\ completed' = Retained(Append(completed, [exec |-> x, results |-> r]))
        /\ x \notin disturbed =>
               /\ r \in [DOMAIN active[x].results -> Results] /\ DOMAIN active[x].results \subseteq Ids
               /\ active[x].root \in DOMAIN r
               /\ Settled(active[x].root, r, dispatched'[x])
               /\ Single(x)'
               /\ \A i \in Ids : UnderWay(x, i)' =>
                     i \in DOMAIN r /\ r[i] = "Pending" /\ dispatched'[x][i] > 0
               /\ \A i \in Ids : dispatched'[x][i] <= 1
        BY <1>1, <1>6, EventFacts
    <2>2. ASSUME NEW y, y # x
          PROVE  /\ Single(y) => Single(y)'
                 /\ \A i : UnderWay(y, i)' => UnderWay(y, i)
                 /\ \A j \in jobs' : j.exec = y => j \in jobs
        BY <1>4, <2>1, <2>2
    <2>3. DispatchedOnce'
        <3>1. SUFFICES ASSUME NEW y \in Execs \ disturbed, NEW i \in Ids
                       PROVE  dispatched'[y][i] <= 1
            BY <1>2 DEF DispatchedOnce
        <3>2. CASE y = x
            BY <2>1, <3>2
        <3>3. CASE y # x
            BY <2>1, <3>3 DEF OnceInv, DispatchedOnce
        <3>4. QED
            BY <3>2, <3>3
    <2>4. Unstarted'
        <3>1. x < nextExec /\ x \in Execs /\ nextExec \in Int
            BY <1>3, <1>6 DEF WTypes
        <3>2. \A y \in Execs : y >= nextExec => y # x
            BY <3>1 DEF Execs
        <3>3. QED
            BY <1>2, <2>1, <3>2 DEF OnceInv, Unstarted
    <2>5. QuietWhenComplete'
        <3>1. ASSUME NEW y \in 1..(nextExec - 1) \ (DOMAIN active' \union disturbed)
              PROVE  \A i \in Ids : ~UnderWay(y, i)'
            <4>1. CASE y # x
                <5>1. y \notin DOMAIN active
                    BY <2>1, <3>1, <4>1
                <5>2. \A i : ~UnderWay(y, i)
                    BY <3>1, <5>1 DEF OnceInv, QuietWhenComplete, UnderWay
                <5>3. QED
                    BY <2>2, <4>1, <5>2
            <4>2. CASE y = x
                BY <2>1, <3>1, <4>2 DEF IsComplete, IsTerminal
            <4>3. QED
                BY <4>1, <4>2
        <3>2. jobs' \subseteq Job /\ jobDone' \in Seq(Event)
            <4>1. WInv'
                BY WInvStep DEF WNext
            <4>2. QED
                BY <4>1 DEF WInv, WTypes
        <3>3. /\ \A j \in jobs' : j.id \in Ids
              /\ \A k \in DOMAIN jobDone' : jobDone'[k].id \in Ids
            <4> DEFINE t == jobDone'
            <4>1. \A k \in DOMAIN t : t[k] \in Event
                BY <3>2
            <4> HIDE DEF t
            <4>2. \A k \in DOMAIN t : t[k].id \in Ids
                BY <4>1 DEF Event
            <4>3. QED
                BY <3>2, <4>2 DEF Job, t
        <3>4. ASSUME NEW y \in 1..(nextExec - 1) \ (DOMAIN active' \union disturbed)
              PROVE  /\ \A j \in jobs' : j.exec # y
                     /\ \A k \in DOMAIN jobDone' : jobDone'[k].exec # y
            BY <3>1, <3>3 DEF UnderWay
        <3>5. QED
            BY <1>2, <3>4, Zenon DEF QuietWhenComplete
    <2>6. ASSUME NEW y \in DOMAIN active' \ disturbed
          PROVE  OnceAt(y)'
        <3>1. y \in DOMAIN active \ disturbed /\ OnceAt(y) /\ y \in Execs
            BY <1>3, <2>1, <2>6 DEF OnceInv
        <3>2. CASE y = x
            <4>1. /\ active'[y].results = r /\ active'[y].root = active[x].root
                  /\ DOMAIN r = DOMAIN active[x].results
                BY <2>1, <2>6, <3>2
            <4>2. /\ Settled(active'[y].root, active'[y].results, dispatched'[y])
                  /\ active'[y].root \in DOMAIN active'[y].results
                BY <2>1, <2>6, <3>2, <4>1
            <4>3. \A i \in Ids : UnderWay(y, i)' =>
                      /\ i \in DOMAIN active'[y].results
                      /\ active'[y].results[i] = "Pending" /\ dispatched'[y][i] > 0
                BY <2>1, <2>6, <3>2, <4>1
            <4>4. Single(y)'
                BY <2>1, <2>6, <3>2
            <4>5. QED
                BY <1>2, <4>2, <4>3, <4>4, OnceNext
        <3>3. CASE y # x
            <4>1. active'[y] = active[y] /\ Single(y)
                BY <2>1, <3>1, <3>3 DEF OnceAt
            <4>2. \A i \in Ids : dispatched'[y][i] = dispatched[y][i]
                BY <2>1, <3>1, <3>3
            <4>3. Single(y)' /\ \A i \in Ids : UnderWay(y, i)' => UnderWay(y, i)
                BY <2>2, <3>3, <4>1
            <4>4. QED
                BY <1>2, <1>3, <3>1, <4>1, <4>2, <4>3, OnceStays
        <3>4. QED
            BY <3>2, <3>3
    <2>7. QED
        BY <1>2, <2>3, <2>4, <2>5, <2>6 DEF OnceInv
<1>7. QED
    BY <1>5, <1>6

-----------------------------------------------------------------------------
(* Theorems *)

LEMMA OnceInvInit == WInit => OnceInv
<1> SUFFICES ASSUME WInit PROVE OnceInv
    OBVIOUS
<1>1. /\ paused = {} /\ active = [x \in {} |-> {}] /\ nextExec = 1
      /\ dispatched = [x \in Execs |-> [i \in Ids |-> 0]]
    BY DEF WInit
<1>2. \A x \in Execs, i \in Ids : dispatched[x][i] = 0
    BY <1>1
<1>3. DOMAIN active = {} /\ 1..(nextExec - 1) = {}
    BY <1>1
<1>4. QED
    BY <1>1, <1>2, <1>3 DEF OnceInv, DispatchedOnce, Unstarted, QuietWhenComplete

LEMMA OnceInvStep == WInv /\ OnceInv /\ NoShortcut /\ [WNext]_wvars => OnceInv'
<1> SUFFICES ASSUME WInv, OnceInv, NoShortcut, [WNext]_wvars PROVE OnceInv'
    OBVIOUS
<1>1. CASE \E id \in Ids : Fire(id)
    BY <1>1, FireKeepsOnce
<1>2. CASE JobEnds
    BY <1>2, AbandonKeepsOnce, ReportKeepsOnce DEF JobEnds
<1>3. CASE JobDone
    BY <1>3, JobDoneKeepsOnce
<1>4. CASE \/ \E id \in Pausable : SetPaused(id)
           \/ \E id \in Ids : RemoveEntry(id) \/ UpdateEntry(id)
           \/ \E e \in Edge : AddDependency(e)
           \/ \E child, parent \in Ids : RemoveDependency(child, parent)
           \/ Stop \/ Start
           \/ UNCHANGED wvars
    BY <1>4, ChangesKeepOnce
<1>5. QED
    BY <1>1, <1>2, <1>3, <1>4 DEF WNext

LEMMA OnceInvAlways == WSpec /\ []NoShortcut => []OnceInv
<1>1. QED
    BY WInvAlways, OnceInvInit, OnceInvStep, PTL DEF WSpec

\* While no edge skips over a longer path, an execution starts each entry at
\* most once, whatever the order of the reports, the pauses and the other
\* executions: every entry whose start is due when an event is taken had a
\* parent that was unresolved until then (cron.go:1737-1797).
THEOREM EntriesStartOnce == WSpec /\ []NoShortcut => []DispatchedOnce
<1>1. OnceInv => DispatchedOnce
    BY DEF OnceInv
<1>2. QED
    BY <1>1, OnceInvAlways, PTL

\* While no edge skips over a longer path, OnWorkflowComplete is called when all
\* jobs of the execution have resolved: none of them runs or waits to report
\* (cron.go:1714-1734, 1800-1811, observability.go:61-62).
THEOREM CompletionIsQuiet == WSpec /\ []NoShortcut => []QuietWhenComplete
<1>1. OnceInv => QuietWhenComplete
    BY DEF OnceInv
<1>2. QED
    BY <1>1, OnceInvAlways, PTL

\* The newest of the completed executions is the one just added.
LEMMA RetainedLast ==
    ASSUME WTypes, NEW c \in [exec : Execs, results : ResultMaps]
    PROVE  Last(Retained(Append(completed, c))) = c
<1> DEFINE q == Append(completed, c)
           t == Tail(q)
           T == [exec : Execs, results : ResultMaps]
<1>0. completed \in Seq(T) /\ c \in T
    BY DEF WTypes
<1> HIDE DEF T
<1>1. /\ Len(q) \in Nat /\ Len(q) > 0 /\ q[Len(q)] = c
      /\ Len(t) = Len(q) - 1 /\ \A k \in 1..(Len(q) - 1) : t[k] = q[k + 1]
    BY <1>0
<1>2. Retention \in Nat
    BY WorkflowAssumption
<1> HIDE DEF q, t
<1>3. CASE Retention > 0 /\ Len(q) > Retention
    <2>1. Len(t) \in 1..(Len(q) - 1) /\ Len(t) + 1 = Len(q)
        BY <1>1, <1>2, <1>3
    <2>2. t[Len(t)] = c
        BY <1>1, <2>1
    <2>3. QED
        BY <1>3, <2>2 DEF Retained, Last, q, t
<1>4. CASE ~(Retention > 0 /\ Len(q) > Retention)
    BY <1>1, <1>4 DEF Retained, Last, q
<1>5. QED
    BY <1>3, <1>4

\* An execution completes when the run loop takes one of its events.
LEMMA OnlyEventsComplete ==
    ASSUME WInv, OnceInv, NoShortcut, [WNext]_wvars,
           NEW x \in (DOMAIN active \ DOMAIN active') \ disturbed
    PROVE  JobDone /\ x = Head(jobDone).exec
<1>1. CASE JobDone
    <2>1. PICK y : y = Head(jobDone).exec
        OBVIOUS
    <2>2. y \in DOMAIN active
        BY <2>1, <1>1 DEF JobDone
    <2>3. \A z \in DOMAIN active : z # y => z \in DOMAIN active'
        BY <1>1, <2>1, <2>2, EventFacts
    <2>4. QED
        BY <1>1, <2>1, <2>3
<1>2. ASSUME NEW id \in Ids, Fire(id) PROVE FALSE
    <2>1. active' = [y \in DOMAIN active \union {nextExec} |->
              IF y = nextExec THEN [root |-> id, results |-> [i \in Participants(id) |-> "Pending"]]
              ELSE active[y]]
        BY <1>2 DEF Fire
    <2>2. DOMAIN active \subseteq DOMAIN active'
        BY <2>1
    <2>3. QED
        BY <2>2
<1>3. CASE JobEnds
    BY <1>3 DEF JobEnds, Report, Abandon, execs
<1>4. CASE \/ \E id \in Pausable : SetPaused(id)
           \/ \E id \in Ids : RemoveEntry(id) \/ UpdateEntry(id)
           \/ \E e \in Edge : AddDependency(e)
           \/ \E child, parent \in Ids : RemoveDependency(child, parent)
           \/ Stop \/ Start
           \/ UNCHANGED wvars
    <2>1. UNCHANGED active
        BY <1>4, Zenon DEF SetPaused, RemoveEntry, UpdateEntry, AddDependency, RemoveDependency,
                           Stop, Start, wvars, execs
    <2>2. QED
        BY <2>1
<1>5. QED
    BY <1>1, <1>2, <1>3, <1>4 DEF WNext

\* While no edge skips over a longer path, the results with which an execution
\* completes explain what ran: what was started has the parents' results its
\* conditions ask for, and what was not was skipped because one of them does
\* not match, or because it could be paused (cron.go:1737-1811).
THEOREM CompletionIsJustified == WSpec /\ []NoShortcut => ResultsJustified
<1>1. WInv /\ OnceInv /\ NoShortcut /\ [WNext]_wvars =>
          \A x \in (DOMAIN active \ DOMAIN active') \ disturbed :
              LET r       == Last(completed').results
                  fire(i) == \A d \in entryDeps[i] : r[d.parent] \in FiresOn[d.condition]
              IN  \A i \in DOMAIN r \ {active[x].root} :
                      /\ dispatched'[x][i] > 0 => fire(i)
                      /\ dispatched'[x][i] = 0 => r[i] = "Skipped" /\ (i \in Pausable \/ ~fire(i))
    <2> SUFFICES ASSUME WInv, OnceInv, NoShortcut, [WNext]_wvars,
                        NEW x \in (DOMAIN active \ DOMAIN active') \ disturbed,
                        NEW i \in DOMAIN Last(completed').results \ {active[x].root}
                 PROVE  /\ dispatched'[x][i] > 0 => Fires(Last(completed').results, i)
                        /\ dispatched'[x][i] = 0 =>
                               /\ Last(completed').results[i] = "Skipped"
                               /\ i \in Pausable \/ ~Fires(Last(completed').results, i)
        BY DEF Fires
    <2>1. JobDone /\ x = Head(jobDone).exec /\ WTypes
        BY OnlyEventsComplete DEF WInv
    <2>2. PICK r : /\ IsComplete(r)
                   /\ completed' = Retained(Append(completed, [exec |-> x, results |-> r]))
                   /\ Settled(active[x].root, r, dispatched'[x])
                   /\ r \in [DOMAIN active[x].results -> Results] /\ DOMAIN active[x].results \subseteq Ids
        BY <2>1, EventFacts
    <2>3. Last(completed').results = r
        <3>1. Last(completed') = [exec |-> x, results |-> r]
            <4>1. r \in ResultMaps /\ x \in Execs
                BY <2>1, <2>2, WorkflowAssumption, SMTT(30) DEF ResultMaps, WTypes, Execs
            <4>2. [exec |-> x, results |-> r] \in [exec : Execs, results : ResultMaps]
                BY <4>1
            <4>3. QED
                BY <2>1, <2>2, <4>2, RetainedLast
        <3>2. QED
            BY <3>1
    <2>4. i \in DOMAIN r \ {active[x].root} /\ IsTerminal(r[i])
        BY <2>2, <2>3 DEF IsComplete
    <2>5. QED
        BY <2>2, <2>3, <2>4 DEF Settled
<1>2. QED
    BY <1>1, WInvAlways, OnceInvAlways, PTL DEF WSpec, ResultsJustified
=============================================================================
