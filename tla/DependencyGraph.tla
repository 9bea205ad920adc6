--------------------------- MODULE DependencyGraph ---------------------------
(***************************************************************************)
(* The workflow dependency edges of cron.go: Cron.entryDeps holds, for a   *)
(* child, the parents it waits for and under which condition; the reverse  *)
(* index Cron.parentToChildren holds the children of a parent.  Each       *)
(* operation runs in the run loop or under runningMu, so it is one step.   *)
(*                                                                         *)
(* A map key that is absent is an empty set; the order of a slice is left  *)
(* to module Workflow, where it matters.                                   *)
(***************************************************************************)
EXTENDS Integers, FiniteSets

CONSTANTS
    MaxEntryID,     \* bound: IDs handed out
    Conditions      \* the valid trigger conditions

ASSUME GraphAssumption == MaxEntryID \in Nat

Ids        == 1..MaxEntryID
Dependency == [parent : Ids, condition : Conditions]

VARIABLES
    entryIndex,         \* the keys of Cron.entryIndex
    nextID,             \* Cron.nextID
    entryDeps,          \* child -> its Dependency values
    parentToChildren    \* parent -> its children

gvars == <<entryIndex, nextID, entryDeps, parentToChildren>>

Parents(id) == {d.parent : d \in entryDeps[id]}

-----------------------------------------------------------------------------
(* The cycle check *)

Closed(S) == \A i \in S : Parents(i) \subseteq S

\* What hasCycle answers: newChild is newParent or one of its ancestors, an
\* element of every set that holds newParent and the parents of its elements.
HasCycleSwapped(newChild, newParent) ==   \* mutant: searches from the child
    \A S \in SUBSET Ids : newChild \in S /\ Closed(S) => newParent \in S

HasCycle(newChild, newParent) ==
    \A S \in SUBSET Ids : newParent \in S /\ Closed(S) => newChild \in S

\* How hasCycle finds it: the search with a stack, of which only the content
\* matters, from newParent along the parent edges.
CycleSearchShallow(newChild, newParent) ==   \* mutant: stops at the parents
    newChild \in {newParent} \union Parents(newParent)

SearchState == [stack : SUBSET Ids, visited : SUBSET Ids]

Popped(w) == CHOOSE i \in w.stack : TRUE

\* The loop after it popped a node it has seen, and after a new one.
Skipped(w) == [w EXCEPT !.stack = @ \ {Popped(w)}]
Visited(w) ==
    LET seen == w.visited \union {Popped(w)}
    IN  [stack   |-> (w.stack \ {Popped(w)}) \union (Parents(Popped(w)) \ seen),
         visited |-> seen]

SearchFor(newChild) ==
    LET search[w \in SearchState] ==
            /\ w.stack # {}
            /\ \/ Popped(w) = newChild
               \/ search[IF Popped(w) \in w.visited THEN Skipped(w) ELSE Visited(w)]
    IN  search

CycleSearch(newChild, newParent) ==
    newChild = newParent \/ SearchFor(newChild)[[stack |-> {newParent}, visited |-> {}]]

-----------------------------------------------------------------------------
GInit ==
    /\ entryIndex = {} /\ nextID = 0
    /\ entryDeps = [i \in Ids |-> {}]
    /\ parentToChildren = [i \in Ids |-> {}]

AddEntryKeepsID ==   \* mutant: the next entry gets the same ID
    /\ nextID < MaxEntryID
    /\ entryIndex' = entryIndex \union {nextID + 1}
    /\ UNCHANGED <<nextID, entryDeps, parentToChildren>>

AddEntry ==
    /\ nextID < MaxEntryID
    /\ nextID' = nextID + 1
    /\ entryIndex' = entryIndex \union {nextID + 1}
    /\ UNCHANGED <<entryDeps, parentToChildren>>

\* addDependencyDirect, for an edge it does not reject.
AddDependency(child, parent, condition) ==
    /\ {child, parent} \subseteq entryIndex
    /\ ~HasCycle(child, parent)
    /\ entryDeps' = [entryDeps EXCEPT ![child] =
                        @ \union {[parent |-> parent, condition |-> condition]}]
    /\ parentToChildren' = [parentToChildren EXCEPT ![parent] = @ \union {child}]
    /\ UNCHANGED <<entryIndex, nextID>>

Without(deps, id) == {d \in deps : d.parent # id}

RemoveDependencyOneWay(child, parent) ==   \* mutant: the reverse index keeps the edge
    /\ entryDeps' = [entryDeps EXCEPT ![child] = Without(@, parent)]
    /\ UNCHANGED <<entryIndex, nextID, parentToChildren>>

\* removeDependencyDirect: all conditions of one edge; no check that the
\* entries exist.
RemoveDependency(child, parent) ==
    /\ entryDeps' = [entryDeps EXCEPT ![child] = Without(@, parent)]
    /\ parentToChildren' = [parentToChildren EXCEPT ![parent] = @ \ {child}]
    /\ UNCHANGED <<entryIndex, nextID>>

\* removeEdgesAsChild, then removeEdgesAsParent, which finds the children of
\* id in the reverse index.
RemoveEdgesAsParentOnly(id) ==   \* mutant: the edges to id's parents stay
    /\ entryDeps' = [c \in Ids |-> IF c \in parentToChildren[id]
                                   THEN Without(entryDeps[c], id) ELSE entryDeps[c]]
    /\ parentToChildren' = [parentToChildren EXCEPT ![id] = {}]

RemoveEdges(id) ==
    LET childless == [p \in Ids |-> IF p \in Parents(id)
                                    THEN parentToChildren[p] \ {id} ELSE parentToChildren[p]]
        orphaned  == [entryDeps EXCEPT ![id] = {}]
    IN  /\ entryDeps' = [c \in Ids |-> IF c \in childless[id]
                                       THEN Without(orphaned[c], id) ELSE orphaned[c]]
        /\ parentToChildren' = [childless EXCEPT ![id] = {}]

\* The part of removeEntry that concerns the graph.
RemoveEntry(id) ==
    /\ id \in entryIndex
    /\ entryIndex' = entryIndex \ {id}
    /\ RemoveEdges(id)
    /\ UNCHANGED nextID

GNext ==
    \/ AddEntry
    \/ \E id \in Ids : RemoveEntry(id)
    \/ \E child, parent \in Ids : RemoveDependency(child, parent)
    \/ \E child, parent \in Ids, condition \in Conditions :
          AddDependency(child, parent, condition)

GSpec == GInit /\ [][GNext]_gvars

-----------------------------------------------------------------------------
(* Invariants *)

GTypeOK ==
    /\ entryIndex \subseteq 1..nextID
    /\ nextID \in 0..MaxEntryID
    /\ entryDeps \in [Ids -> SUBSET Dependency]
    /\ parentToChildren \in [Ids -> SUBSET Ids]

\* The two indexes describe the same edges.  removeEdgesAsParent relies on
\* it: an edge missing from the reverse index would survive its parent.
IndexesMirror ==
    \A child, parent \in Ids :
        child \in parentToChildren[parent] <=> parent \in Parents(child)

\* No edge leads from or to an entry that was removed, whatever the order of
\* removals and edge operations: such an edge would keep a child from ever
\* being triggered.
NoDanglingEdge ==
    \A child \in Ids : entryDeps[child] # {} =>
        child \in entryIndex /\ Parents(child) \subseteq entryIndex

\* The edges form no cycle: every non-empty set of entries has one whose
\* parents are all outside.
Acyclic ==
    \A S \in SUBSET Ids : S # {} => \E i \in S : Parents(i) \intersect S = {}

\* The search rejects an edge exactly when it would close a cycle.
SearchIsExact ==
    \A child, parent \in Ids : CycleSearch(child, parent) <=> HasCycle(child, parent)

GraphInv == GTypeOK /\ IndexesMirror /\ NoDanglingEdge /\ Acyclic
=============================================================================
