------------------------ MODULE DependencyGraphProofs ------------------------
(***************************************************************************)
(* The dependency graph is sound: for every number of entries and every    *)
(* set of conditions, the two indexes mirror each other, no edge dangles   *)
(* and the edges form no cycle.                                            *)
(*                                                                         *)
(* GraphInv is inductive.  Its parts need each other: dropping the edges   *)
(* of a removed entry finds them through the mirror, and an entry that is  *)
(* added starts without edges because none dangles.                        *)
(***************************************************************************)
EXTENDS DependencyGraph, FiniteSetTheorems, WellFoundedInduction, TLAPS

\* Dropping edges closes no cycle.
LEMMA FewerEdges ==
    ASSUME Acyclic, \A i \in Ids : Parents(i)' \subseteq Parents(i)
    PROVE  Acyclic'
<1>1. SUFFICES ASSUME NEW S \in SUBSET Ids, S # {}
               PROVE  \E i \in S : Parents(i)' \intersect S = {}
    BY DEF Acyclic
<1>2. PICK i \in S : Parents(i) \intersect S = {}
    BY <1>1 DEF Acyclic
<1>3. QED
    BY <1>2

\* An edge that hasCycle accepts closes no cycle.  A set in which everybody
\* has a parent would have to avoid the ancestors of the new parent, among
\* which nothing changed, and then the new edge leads out of it.
LEMMA AcceptedEdge ==
    ASSUME NEW child \in Ids, NEW parent \in Ids,
           Acyclic, ~HasCycle(child, parent),
           \A i \in Ids : Parents(i)' \subseteq Parents(i) \union {parent},
           \A i \in Ids \ {child} : Parents(i)' = Parents(i)
    PROVE  Acyclic'
<1>1. SUFFICES ASSUME NEW S \in SUBSET Ids, S # {},
                      \A i \in S : Parents(i)' \intersect S # {}
               PROVE  FALSE
    BY DEF Acyclic
<1>2. PICK A \in SUBSET Ids : parent \in A /\ Closed(A) /\ child \notin A
    BY DEF HasCycle
<1>3. CASE S \intersect A = {}
    <2>1. PICK i \in S : Parents(i) \intersect S = {}
        BY <1>1 DEF Acyclic
    <2>2. parent \notin S
        BY <1>2, <1>3
    <2>3. QED
        BY <1>1, <2>1, <2>2
<1>4. CASE S \intersect A # {}
    <2>1. PICK i \in S \intersect A : Parents(i) \intersect (S \intersect A) = {}
        BY <1>4 DEF Acyclic
    <2>2. Parents(i)' = Parents(i) /\ Parents(i) \subseteq A
        BY <1>2, <2>1 DEF Closed
    <2>3. QED
        BY <1>1, <2>1, <2>2
<1>5. QED
    BY <1>3, <1>4

-----------------------------------------------------------------------------
(* What the operations do to the parents of an entry *)

LEMMA ParentsWithout ==
    ASSUME NEW deps \in SUBSET Dependency, NEW id
    PROVE  /\ Without(deps, id) \in SUBSET Dependency
           /\ {d.parent : d \in Without(deps, id)} = {d.parent : d \in deps} \ {id}
BY DEF Without

\* removeEdgesAsParent finds every child of id, because the indexes mirror
\* each other, also after removeEdgesAsChild.
LEMMA RemovedEdges ==
    ASSUME NEW id \in Ids, GTypeOK, IndexesMirror, RemoveEdges(id), ~(id \in Parents(id))
    PROVE  /\ entryDeps' \in [Ids -> SUBSET Dependency]
           /\ parentToChildren' \in [Ids -> SUBSET Ids]
           /\ \A i \in Ids : Parents(i)' = IF i = id THEN {} ELSE Parents(i) \ {id}
           /\ \A i \in Ids : parentToChildren'[i] =
                  IF i = id THEN {} ELSE parentToChildren[i] \ {id}
<1> DEFINE childless == [p \in Ids |-> IF p \in Parents(id)
                                       THEN parentToChildren[p] \ {id} ELSE parentToChildren[p]]
           orphaned  == [entryDeps EXCEPT ![id] = {}]
<1>1. /\ entryDeps' = [c \in Ids |-> IF c \in childless[id]
                                     THEN Without(orphaned[c], id) ELSE orphaned[c]]
      /\ parentToChildren' = [childless EXCEPT ![id] = {}]
    BY DEF RemoveEdges
<1>2. childless \in [Ids -> SUBSET Ids] /\ orphaned \in [Ids -> SUBSET Dependency]
    BY DEF GTypeOK
<1>3. \A p \in Ids : childless[p] = parentToChildren[p] \ {id}
    BY DEF GTypeOK, IndexesMirror
<1>4. \A i \in Ids : orphaned[i] = IF i = id THEN {} ELSE entryDeps[i]
    BY DEF GTypeOK
<1>5. \A i \in Ids : Parents(i)' = {d.parent : d \in entryDeps'[i]}
    BY DEF Parents
<1> HIDE DEF childless, orphaned
<1>6. \A i \in Ids : parentToChildren'[i] = IF i = id THEN {} ELSE parentToChildren[i] \ {id}
    BY <1>1, <1>2, <1>3
<1>7. entryDeps' \in [Ids -> SUBSET Dependency] /\ parentToChildren' \in [Ids -> SUBSET Ids]
    BY <1>1, <1>2, ParentsWithout
<1>8. ASSUME NEW i \in Ids
      PROVE  Parents(i)' = IF i = id THEN {} ELSE Parents(i) \ {id}
    <2>1. CASE i = id
        <3>1. orphaned[i] = {} /\ Without({}, id) = {}
            BY <1>4, <2>1 DEF Without
        <3>2. entryDeps'[i] = {}
            BY <1>1, <3>1
        <3>3. QED
            BY <1>5, <2>1, <3>2
    <2>2. CASE i # id /\ i \in childless[id]
        <3>1. entryDeps'[i] = Without(entryDeps[i], id)
            BY <1>1, <1>4, <2>2
        <3>2. entryDeps[i] \in SUBSET Dependency
            BY DEF GTypeOK
        <3>3. QED
            BY <1>5, <2>2, <3>1, <3>2, ParentsWithout DEF Parents
    <2>3. CASE i # id /\ i \notin childless[id]
        <3>1. entryDeps'[i] = entryDeps[i]
            BY <1>1, <1>4, <2>3
        <3>2. id \notin Parents(i)
            BY <1>3, <2>3 DEF IndexesMirror
        <3>3. QED
            BY <1>5, <2>3, <3>1, <3>2 DEF Parents
    <2>4. QED
        BY <2>1, <2>2, <2>3
<1>9. QED
    BY <1>6, <1>7, <1>8

\* In a graph without cycles no entry is its own parent.
LEMMA NoSelfEdge ==
    ASSUME Acyclic, NEW id \in Ids
    PROVE  ~(id \in Parents(id))
<1>1. {id} \in SUBSET Ids /\ {id} # {}
    OBVIOUS
<1>2. \E i \in {id} : Parents(i) \intersect {id} = {}
    BY <1>1 DEF Acyclic
<1>3. QED
    BY <1>2

-----------------------------------------------------------------------------
(* The invariant *)

LEMMA GraphInitially == GInit => GraphInv
<1> SUFFICES ASSUME GInit PROVE GraphInv
    OBVIOUS
<1>1. GTypeOK
    BY GraphAssumption DEF GInit, GTypeOK
<1>2. \A i \in Ids : Parents(i) = {}
    BY DEF GInit, Parents
<1>3. IndexesMirror /\ NoDanglingEdge
    BY <1>2 DEF GInit, IndexesMirror, NoDanglingEdge
<1>4. Acyclic
    BY <1>2 DEF Acyclic
<1>5. QED
    BY <1>1, <1>3, <1>4 DEF GraphInv

LEMMA GraphStep ==
    ASSUME GraphInv, [GNext]_gvars
    PROVE  GraphInv'
<1> USE DEF GraphInv
<1>1. CASE AddEntry
    <2>1. \A i \in Ids : Parents(i)' = Parents(i)
        BY <1>1 DEF AddEntry, Parents
    <2>2. GTypeOK'
        BY <1>1, GraphAssumption DEF AddEntry, GTypeOK
    <2>3. IndexesMirror'
        BY <1>1, <2>1 DEF AddEntry, IndexesMirror
    <2>4. NoDanglingEdge'
        BY <1>1, <2>1 DEF AddEntry, NoDanglingEdge
    <2>5. Acyclic'
        BY <2>1, FewerEdges
    <2>6. QED
        BY <2>2, <2>3, <2>4, <2>5
<1>2. ASSUME NEW id \in Ids, RemoveEntry(id)
      PROVE  GraphInv'
    <2>1. /\ entryDeps' \in [Ids -> SUBSET Dependency]
          /\ parentToChildren' \in [Ids -> SUBSET Ids]
          /\ \A i \in Ids : Parents(i)' = IF i = id THEN {} ELSE Parents(i) \ {id}
          /\ \A i \in Ids : parentToChildren'[i] =
                 IF i = id THEN {} ELSE parentToChildren[i] \ {id}
        BY <1>2, NoSelfEdge, RemovedEdges DEF RemoveEntry
    <2>2. entryIndex' = entryIndex \ {id} /\ nextID' = nextID
        BY <1>2 DEF RemoveEntry
    <2>3. GTypeOK'
        BY <2>1, <2>2 DEF GTypeOK
    <2>4. IndexesMirror'
        BY <2>1 DEF IndexesMirror
    <2>5. NoDanglingEdge'
        <3>1. SUFFICES ASSUME NEW child \in Ids, entryDeps'[child] # {}
                       PROVE  child \in entryIndex' /\ Parents(child)' \subseteq entryIndex'
            BY DEF NoDanglingEdge
        <3>2. Parents(child)' # {}
            BY <3>1 DEF Parents
        <3>3. child # id /\ Parents(child)' = Parents(child) \ {id} /\ Parents(child) # {}
            BY <2>1, <3>2
        <3>4. entryDeps[child] # {}
            BY <3>3 DEF Parents
        <3>5. QED
            BY <2>2, <3>3, <3>4 DEF NoDanglingEdge
    <2>6. Acyclic'
        BY <2>1, FewerEdges
    <2>7. QED
        BY <2>3, <2>4, <2>5, <2>6
<1>3. ASSUME NEW child \in Ids, NEW parent \in Ids, RemoveDependency(child, parent)
      PROVE  GraphInv'
    <2>1. entryDeps[child] \in SUBSET Dependency
        BY DEF GTypeOK
    <2>2. entryDeps' \in [Ids -> SUBSET Dependency]
        BY <1>3, <2>1, ParentsWithout DEF RemoveDependency, GTypeOK
    <2>3. entryDeps'[child] = Without(entryDeps[child], parent)
        BY <1>3 DEF RemoveDependency, GTypeOK
    <2>4. \A i \in Ids : i # child => entryDeps'[i] = entryDeps[i]
        BY <1>3 DEF RemoveDependency, GTypeOK
    <2>5. Parents(child)' = Parents(child) \ {parent}
        BY <2>1, <2>3, ParentsWithout DEF Parents
    <2>6. \A i \in Ids : i # child => Parents(i)' = Parents(i)
        BY <2>4 DEF Parents
    <2>7. GTypeOK'
        BY <1>3, <2>2 DEF RemoveDependency, GTypeOK
    <2>8. IndexesMirror'
        BY <1>3, <2>5, <2>6 DEF RemoveDependency, GTypeOK, IndexesMirror
    <2>9. NoDanglingEdge'
        <3>1. \A i \in Ids : entryDeps'[i] \subseteq entryDeps[i]
            BY <2>3, <2>4 DEF Without
        <3>2. \A i \in Ids : Parents(i)' \subseteq Parents(i)
            BY <2>5, <2>6
        <3>3. QED
            BY <1>3, <3>1, <3>2 DEF RemoveDependency, NoDanglingEdge
    <2>10. Acyclic'
        BY <2>5, <2>6, FewerEdges
    <2>11. QED
        BY <2>7, <2>8, <2>9, <2>10
<1>4. ASSUME NEW child \in Ids, NEW parent \in Ids, NEW condition \in Conditions,
             AddDependency(child, parent, condition)
      PROVE  GraphInv'
    <2> DEFINE edge == [parent |-> parent, condition |-> condition]
    <2>1. edge \in Dependency /\ edge.parent = parent
        BY DEF Dependency
    <2>2. entryDeps' = [entryDeps EXCEPT ![child] = @ \union {edge}]
        BY <1>4 DEF AddDependency
    <2> HIDE DEF edge
    <2>3. entryDeps' \in [Ids -> SUBSET Dependency]
        BY <2>1, <2>2 DEF GTypeOK
    <2>4. entryDeps'[child] = entryDeps[child] \union {edge}
        BY <2>2 DEF GTypeOK
    <2>5. \A i \in Ids : i # child => entryDeps'[i] = entryDeps[i]
        BY <2>2 DEF GTypeOK
    <2>6. Parents(child)' = Parents(child) \union {parent}
        BY <2>1, <2>4 DEF Parents
    <2>7. \A i \in Ids : i # child => Parents(i)' = Parents(i)
        BY <2>5 DEF Parents
    <2>8. GTypeOK'
        BY <1>4, <2>3 DEF AddDependency, GTypeOK
    <2>9. IndexesMirror'
        BY <1>4, <2>6, <2>7 DEF AddDependency, GTypeOK, IndexesMirror
    <2>10. NoDanglingEdge'
        BY <1>4, <2>5, <2>6, <2>7 DEF AddDependency, NoDanglingEdge, Parents
    <2>11. Acyclic'
        BY <1>4, <2>6, <2>7, AcceptedEdge DEF AddDependency
    <2>12. QED
        BY <2>8, <2>9, <2>10, <2>11
<1>5. CASE UNCHANGED gvars
    BY <1>5 DEF gvars, GTypeOK, IndexesMirror, NoDanglingEdge, Acyclic, Parents
<1>6. QED
    BY <1>1, <1>2, <1>3, <1>4, <1>5 DEF GNext

\* In every reachable state the edges of the dependency graph form no cycle,
\* entryDeps and parentToChildren describe the same edges, and every edge
\* joins two entries that exist.
THEOREM GraphIsSound == GSpec => []GraphInv
<1>1. GraphInv /\ [GNext]_gvars => GraphInv'
    BY GraphStep
<1>2. QED
    BY GraphInitially, <1>1, PTL DEF GSpec

\* Edges and entries are well-formed: only IDs handed out are in use.
THEOREM GraphTypes == GSpec => []GTypeOK
<1>1. GraphInv => GTypeOK
    BY DEF GraphInv
<1>2. QED
    BY <1>1, GraphIsSound, PTL

\* No sequence of additions and removals of edges and entries builds a cycle.
THEOREM GraphStaysAcyclic == GSpec => []Acyclic
<1>1. GraphInv => Acyclic
    BY DEF GraphInv
<1>2. QED
    BY <1>1, GraphIsSound, PTL

\* removeEntry leaves no edge from or to the entry it removes.
THEOREM NoEdgeDangles == GSpec => []NoDanglingEdge
<1>1. GraphInv => NoDanglingEdge
    BY DEF GraphInv
<1>2. QED
    BY <1>1, GraphIsSound, PTL

\* entryDeps and parentToChildren stay two views of the same edges.
THEOREM IndexesStayMirrored == GSpec => []IndexesMirror
<1>1. GraphInv => IndexesMirror
    BY DEF GraphInv
<1>2. QED
    BY <1>1, GraphIsSound, PTL
-----------------------------------------------------------------------------
(* Induction over the naturals *)

LEMMA SetInduction ==
    ASSUME NEW G \in SUBSET Nat, 0 \in G, \A n \in G : n + 1 \in G
    PROVE  G = Nat
<1> DEFINE R == OpToRel(<, Nat)
<1>1. IsWellFoundedOn(R, Nat)
    BY NatLessThanWellFounded
<1>2. \A x, y \in Nat : y < x => <<y, x>> \in R
    BY Zenon DEF OpToRel
<1> HIDE DEF R
<1>3. SUFFICES ASSUME Nat \ G # {} PROVE FALSE
    OBVIOUS
<1>4. PICK m \in Nat \ G : \A y \in Nat \ G : ~(<<y, m>> \in R)
    BY <1>1, <1>3, WFMin
<1>5. m # 0 /\ m - 1 \in Nat /\ m - 1 < m
    BY <1>4
<1>6. m - 1 \in G
    BY <1>2, <1>4, <1>5
<1>7. QED
    BY <1>4, <1>5, <1>6

-----------------------------------------------------------------------------
(* The search for a cycle *)

\* What the loop of hasCycle finds from w: an element of every set that holds
\* the stack and, but for what was visited, the parents of its elements.
Covers(S, w) ==
    /\ w.stack \subseteq S
    /\ \A i \in S \ w.visited : Parents(i) \ w.visited \subseteq S

Finds(c, w) == \A S \in SUBSET Ids : Covers(S, w) => c \in S

SearchStep(c, w, f) ==
    /\ w.stack # {}
    /\ \/ Popped(w) = c
       \/ f[IF Popped(w) \in w.visited THEN Skipped(w) ELSE Visited(w)]

LEMMA SearchStates ==
    ASSUME GTypeOK, NEW w \in SearchState, w.stack # {}
    PROVE  /\ w.stack \subseteq Ids /\ w.visited \subseteq Ids
           /\ Popped(w) \in w.stack
           /\ Skipped(w) \in SearchState /\ Visited(w) \in SearchState
           /\ Skipped(w).stack = w.stack \ {Popped(w)} /\ Skipped(w).visited = w.visited
           /\ Visited(w).visited = w.visited \union {Popped(w)}
           /\ Visited(w).stack = (w.stack \ {Popped(w)})
                                     \union (Parents(Popped(w)) \ Visited(w).visited)
<1>1. w.stack \subseteq Ids /\ w.visited \subseteq Ids
    BY DEF SearchState
<1>2. Popped(w) \in w.stack
    BY DEF Popped
<1>3. Parents(Popped(w)) \subseteq Ids
    BY <1>1, <1>2 DEF GTypeOK, Parents, Dependency
<1>4. Skipped(w) = [stack |-> w.stack \ {Popped(w)}, visited |-> w.visited]
    BY DEF Skipped, SearchState
<1>5. QED
    BY <1>1, <1>2, <1>3, <1>4 DEF Visited, SearchState

\* Whichever node is popped, a step keeps what there is to find.
LEMMA StepFinds ==
    ASSUME GTypeOK, NEW c \in Ids, NEW w \in SearchState
    PROVE  Finds(c, w) <=>
               /\ w.stack # {}
               /\ \/ Popped(w) = c
                  \/ Finds(c, IF Popped(w) \in w.visited THEN Skipped(w) ELSE Visited(w))
<1>1. CASE w.stack = {}
    <2>1. Covers({}, w)
        BY <1>1 DEF Covers
    <2>2. QED
        BY <1>1, <2>1 DEF Finds
<1>2. CASE w.stack # {}
    <2> DEFINE p == Popped(w)
    <2>1. /\ w.stack \subseteq Ids /\ w.visited \subseteq Ids /\ p \in w.stack
          /\ Skipped(w).stack = w.stack \ {p} /\ Skipped(w).visited = w.visited
          /\ Visited(w).visited = w.visited \union {p}
          /\ Visited(w).stack = (w.stack \ {p}) \union (Parents(p) \ Visited(w).visited)
        BY <1>2, SearchStates
    <2> HIDE DEF p
    <2>2. CASE p = c
        <3>1. Finds(c, w)
            BY <2>1, <2>2 DEF Finds, Covers
        <3>2. QED
            BY <1>2, <2>2, <3>1 DEF p
    <2>3. CASE p # c /\ p \in w.visited
        <3>1. \A S \in SUBSET Ids : Covers(S, w) => Covers(S, Skipped(w))
            BY <2>1 DEF Covers
        <3>2. \A S \in SUBSET Ids : Covers(S, Skipped(w)) => Covers(S \union {p}, w)
            BY <2>1, <2>3 DEF Covers
        <3>3. \A S \in SUBSET Ids : S \union {p} \in SUBSET Ids
            BY <2>1
        <3>4. Finds(c, w) <=> Finds(c, Skipped(w))
            BY <2>3, <3>1, <3>2, <3>3 DEF Finds
        <3>5. QED
            BY <1>2, <2>3, <3>4 DEF p
    <2>4. CASE p # c /\ p \notin w.visited
        <3>1. \A S \in SUBSET Ids : Covers(S, w) => Covers(S, Visited(w))
            BY <2>1, <2>4 DEF Covers
        <3>2. \A S \in SUBSET Ids : Covers(S, Visited(w)) => Covers(S \union {p}, w)
            BY <2>1, <2>4 DEF Covers
        <3>3. \A S \in SUBSET Ids : S \union {p} \in SUBSET Ids
            BY <2>1
        <3>4. Finds(c, w) <=> Finds(c, Visited(w))
            BY <2>4, <3>1, <3>2, <3>3 DEF Finds
        <3>5. QED
            BY <1>2, <2>4, <3>4 DEF p
    <2>5. QED
        BY <2>2, <2>3, <2>4
<1>3. QED
    BY <1>1, <1>2

\* The definition of the search is one: there is a function as it demands.
LEMMA SearchDefined ==
    ASSUME GTypeOK, NEW c \in Ids
    PROVE  SearchFor(c) = [w \in SearchState |-> SearchStep(c, w, SearchFor(c))]
<1> DEFINE F == [w \in SearchState |-> Finds(c, w)]
<1>1. ASSUME NEW w \in SearchState
      PROVE  Finds(c, w) <=> SearchStep(c, w, F)
    <2> DEFINE v == IF Popped(w) \in w.visited THEN Skipped(w) ELSE Visited(w)
    <2>1. CASE w.stack = {}
        <3>1. ~Finds(c, w)
            BY <2>1, StepFinds
        <3>2. ~SearchStep(c, w, F)
            BY <2>1 DEF SearchStep
        <3>3. QED
            BY <3>1, <3>2
    <2>2. CASE w.stack # {}
        <3>1. v \in SearchState
            BY <2>2, SearchStates
        <3>2. F[v] = Finds(c, v)
            BY <3>1
        <3>3. Finds(c, w) <=> Popped(w) = c \/ Finds(c, v)
            BY <2>2, StepFinds
        <3>4. SearchStep(c, w, F) <=> Popped(w) = c \/ F[v]
            BY <2>2 DEF SearchStep
        <3> HIDE DEF v, F
        <3>5. QED
            BY <3>2, <3>3, <3>4
    <2>3. QED
        BY <2>1, <2>2
<1>2. F = [w \in SearchState |-> SearchStep(c, w, F)]
    <2>1. ASSUME NEW w \in SearchState
          PROVE  Finds(c, w) = SearchStep(c, w, F)
        BY <1>1 DEF Finds, SearchStep
    <2>2. QED
        BY <2>1
<1>3. \E f : f = [w \in SearchState |-> SearchStep(c, w, f)]
    BY <1>2
<1>4. QED
    BY <1>3, Zenon DEF SearchFor, SearchStep

\* The search ends, and finds what there is to find.
LEMMA SearchFinds ==
    ASSUME GTypeOK, NEW c \in Ids
    PROVE  \A w \in SearchState : SearchFor(c)[w] <=> Finds(c, w)
<1> DEFINE N     == MaxEntryID
           new(w) == Cardinality(Ids \ w.visited)
           size(w) == Cardinality(w.stack)
           work(w) == new(w) * (N + 1) + size(w)
           G      == {n \in Nat : \A w \in SearchState :
                         work(w) <= n => (SearchFor(c)[w] <=> Finds(c, w))}
<1>1. N \in Nat /\ IsFiniteSet(Ids) /\ Cardinality(Ids) = N
    <2>1. N \in Nat
        BY GraphAssumption
    <2>2. IsFiniteSet(1..N) /\ Cardinality(1..N) = N
        BY <2>1, FS_Interval
    <2>3. QED
        BY <2>1, <2>2 DEF Ids
<1>2. ASSUME NEW w \in SearchState
      PROVE  new(w) \in Nat /\ size(w) \in Nat /\ size(w) <= N /\ (w.stack # {} => size(w) > 0)
    <2>1. w.stack \subseteq Ids
        BY DEF SearchState
    <2>2. IsFiniteSet(w.stack) /\ size(w) <= N /\ size(w) \in Nat /\ IsFiniteSet(Ids \ w.visited)
        BY <1>1, <2>1, FS_Subset, FS_CardinalityType, FS_Difference
    <2>3. QED
        BY <2>2, FS_CardinalityType, FS_EmptySet
<1>3. ASSUME NEW w \in SearchState, w.stack # {}
      PROVE  /\ size(Skipped(w)) = size(w) - 1 /\ new(Skipped(w)) = new(w)
             /\ Popped(w) \notin w.visited => new(Visited(w)) = new(w) - 1
    <2>1. /\ w.stack \subseteq Ids /\ w.visited \subseteq Ids /\ Popped(w) \in w.stack
          /\ Skipped(w).stack = w.stack \ {Popped(w)} /\ Skipped(w).visited = w.visited
          /\ Visited(w).visited = w.visited \union {Popped(w)}
        BY <1>3, SearchStates
    <2>2. IsFiniteSet(w.stack) /\ IsFiniteSet(Ids \ w.visited)
        BY <1>1, <2>1, FS_Subset
    <2>3. size(Skipped(w)) = size(w) - 1
        BY <2>1, <2>2, FS_RemoveElement
    <2>4. ASSUME Popped(w) \notin w.visited
          PROVE  new(Visited(w)) = new(w) - 1
        <3>1. Ids \ Visited(w).visited = (Ids \ w.visited) \ {Popped(w)}
            BY <2>1
        <3>2. Popped(w) \in Ids \ w.visited
            BY <2>1, <2>4
        <3>3. QED
            BY <2>2, <3>1, <3>2, FS_RemoveElement
    <2>5. QED
        BY <2>1, <2>3, <2>4
<1> HIDE DEF new, size, N
<1>4. ASSUME NEW n \in Nat, NEW w \in SearchState, work(w) <= n,
             \A v \in SearchState : work(v) < n
                 => (SearchFor(c)[v] <=> Finds(c, v))
      PROVE  SearchFor(c)[w] <=> Finds(c, w)
    <2> DEFINE v == IF Popped(w) \in w.visited THEN Skipped(w) ELSE Visited(w)
    <2>1. SearchFor(c)[w] = SearchStep(c, w, SearchFor(c))
        BY SearchDefined
    <2>2. CASE w.stack = {}
        BY <2>1, <2>2, StepFinds DEF SearchStep
    <2>3. CASE w.stack # {}
        <3>1. v \in SearchState
            BY <2>3, SearchStates
        <3>2. work(v) < n
            <4>1. CASE Popped(w) \in w.visited
                <5>1. v = Skipped(w)
                    BY <4>1
                <5>2. new(v) = new(w) /\ size(v) = size(w) - 1
                    BY <1>3, <2>3, <5>1
                <5> HIDE DEF v
                <5>3. new(w) * (N + 1) \in Nat
                    BY <1>1, <1>2
                <5>4. QED
                    BY <1>2, <1>4, <5>2, <5>3
            <4>2. CASE Popped(w) \notin w.visited
                <5>1. v = Visited(w)
                    BY <4>2
                <5>2. new(v) = new(w) - 1
                    BY <1>3, <2>3, <4>2, <5>1
                <5> HIDE DEF v
                <5>3. new(v) \in Nat /\ size(v) \in Nat /\ size(v) <= N /\ size(w) > 0
                    BY <1>2, <2>3, <3>1
                <5>4. new(w) * (N + 1) = new(v) * (N + 1) + (N + 1)
                    BY <1>1, <1>2, <5>2, <5>3
                <5>5. new(v) * (N + 1) \in Nat
                    BY <1>1, <5>3
                <5>6. QED
                    BY <1>1, <1>2, <1>4, <5>3, <5>4, <5>5
            <4>3. QED
                BY <4>1, <4>2
        <3>3. SearchFor(c)[v] <=> Finds(c, v)
            BY <1>4, <3>1, <3>2
        <3>4. Finds(c, w) <=> Popped(w) = c \/ Finds(c, v)
            BY <2>3, StepFinds
        <3>5. SearchStep(c, w, SearchFor(c)) <=> Popped(w) = c \/ SearchFor(c)[v]
            BY <2>3 DEF SearchStep
        <3> HIDE DEF v
        <3>6. QED
            BY <2>1, <3>3, <3>4, <3>5
    <2>4. QED
        BY <2>2, <2>3
<1>5. \A w \in SearchState : work(w) \in Nat
    BY <1>1, <1>2
<1> HIDE DEF work
<1>6. 0 \in G /\ \A n \in G : n + 1 \in G
    <2>1. 0 \in G
        BY <1>4, <1>5
    <2>2. ASSUME NEW n \in G, NEW w \in SearchState, work(w) <= n + 1
          PROVE  SearchFor(c)[w] <=> Finds(c, w)
        <3>1. \A v \in SearchState : work(v) < n + 1 => (SearchFor(c)[v] <=> Finds(c, v))
            BY <1>5
        <3>2. QED
            BY <1>4, <2>2, <3>1
    <2>3. QED
        BY <2>1, <2>2
<1>7. G = Nat
    <2> HIDE DEF G
    <2>1. G \in SUBSET Nat
        BY DEF G
    <2>2. QED
        BY <1>6, <2>1, SetInduction
<1>8. ASSUME NEW w \in SearchState PROVE SearchFor(c)[w] <=> Finds(c, w)
    <2>1. work(w) \in G
        BY <1>5, <1>7
    <2>2. QED
        BY <1>5, <2>1
<1>9. QED
    BY <1>8

\* hasCycle rejects an edge exactly when it would close a cycle: whatever the
\* edges, the order in which they lie on the stack and what lies there twice,
\* it ends, and passes over no ancestor.
THEOREM SearchAlwaysExact == GSpec => []SearchIsExact
<1>1. ASSUME GTypeOK, NEW child \in Ids, NEW parent \in Ids
      PROVE  CycleSearch(child, parent) <=> HasCycle(child, parent)
    <2> DEFINE w == [stack |-> {parent}, visited |-> {}]
    <2>1. w \in SearchState
        BY DEF SearchState
    <2>2. SearchFor(child)[w] <=> Finds(child, w)
        BY <1>1, <2>1, SearchFinds
    <2>3. Finds(child, w) <=> HasCycle(child, parent)
        BY DEF Finds, Covers, HasCycle, Closed
    <2>4. child = parent => HasCycle(child, parent)
        BY DEF HasCycle
    <2>5. CycleSearch(child, parent) <=> child = parent \/ SearchFor(child)[w]
        BY DEF CycleSearch
    <2> HIDE DEF w
    <2>6. QED
        BY <2>2, <2>3, <2>4, <2>5
<1>2. GTypeOK => SearchIsExact
    BY <1>1 DEF SearchIsExact
<1>3. QED
    BY <1>2, GraphTypes, PTL
=============================================================================
