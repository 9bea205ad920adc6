---------------------------- MODULE CallersProofs ----------------------------
(***************************************************************************)
(* For any number of callers, entries, runs and plans of calls:            *)
(*                                                                         *)
(*  - concurrent calls keep the dependency graph sound.  Each of their     *)
(*    requests is a step of DependencyGraph or leaves it alone, so the     *)
(*    invariant proved there carries over;                                 *)
(*  - a call that waited has waited for every run it had to, and a drain   *)
(*    replaces no job of which a run is under way;                         *)
(*  - a workflow is registered as a whole or not at all.                   *)
(***************************************************************************)
EXTENDS Callers, DependencyGraphProofs

-----------------------------------------------------------------------------
(* Types *)

Pcs == {"start", "create", "update", "remove", "set", "parent", "edge", "pause", "find",
        "channel", "blocked", "resume", "stopped", "check", "register", "wire", "wired",
        "rollback", "rolledBack", "done"}
Waiters  == {"none", "called", "asleep", "woken", "returned", "panicked"}
Outcomes == {"none", "notFound", "created", "rejected", "updated", "removed", "set", "added",
             "waited", "deadline", "started", "failed"}

CallType ==
    [pc : Pcs, id : 0..MaxEntryID, wasPaused : BOOLEAN, ch : Nat, covers : SUBSET Nat,
     k : Nat, ids : Seq(Ids), disturbed : BOOLEAN, waiter : Waiters, outcome : Outcomes]

CTypeOK ==
    /\ plan \in Plans
    /\ call \in [Callers -> CallType]
    /\ paused \in [Ids -> BOOLEAN]
    /\ flight \subseteq [no : 1..runs, id : Ids]
    /\ runs \in Nat
    /\ channel \in [Ids -> 0..runs]

\* A call that waits for an entry knows it; one that is about to change an edge
\* knows both of its ends.
EntryKnown ==
    \A p \in Callers :
        /\ call[p].pc \in {"parent", "edge", "channel", "blocked"} => call[p].id \in Ids
        /\ At(p, "edge") => call[p].ids[1] \in Ids

\* A call that registers a workflow has validated it, and wires one of its edges.
WireKnown ==
    \A p \in Callers :
        /\ call[p].pc \in {"check", "register", "wire"} =>
              op(p) = "workflow" /\ Valid(Workflow(p))
        /\ At(p, "wire") => call[p].k \in 1..Len(Wires(Workflow(p)))

\* What a call remembers is of the past.
PastKnown ==
    \A p \in Callers : call[p].covers \subseteq 1..runs /\ call[p].id \in 0..nextID

KnownInv == CTypeOK /\ GraphInv /\ EntryKnown /\ WireKnown /\ PastKnown

LEMMA CallersInitially == CInit => KnownInv
<1> SUFFICES ASSUME CInit PROVE KnownInv
    OBVIOUS
<1>1. GraphInv
    BY GraphInitially DEF CInit
<1>2. NewCall \in CallType
    BY GraphAssumption DEF NewCall, CallType, Pcs, Waiters, Outcomes
<1>3. CTypeOK
    BY <1>2 DEF CInit, CTypeOK
<1>4. EntryKnown
    BY DEF CInit, EntryKnown, At, NewCall
<1>5. WireKnown
    BY DEF CInit, WireKnown, At, NewCall
<1>6. PastKnown
    BY DEF CInit, PastKnown, NewCall, GInit
<1>7. QED
    BY <1>1, <1>3, <1>4, <1>5, <1>6 DEF KnownInv

LEMMA LookUpFinds ==
    ASSUME GTypeOK, NEW name
    PROVE  /\ EntryByName(name) \in 0..nextID
           /\ EntryByName(name) # 0 => EntryByName(name) \in entryIndex
<1> DEFINE S == {i \in entryIndex : names[i] = name}
<1>1. EntryByName(name) = IF S = {} THEN 0 ELSE CHOOSE i \in S : TRUE
    BY DEF EntryByName
<1>2. S # {} => (CHOOSE i \in S : TRUE) \in S
    OBVIOUS
<1>3. entryIndex \subseteq 1..nextID /\ nextID \in Nat
    BY GraphAssumption DEF GTypeOK
<1> HIDE DEF S
<1>4. EntryByName(name) = 0 \/ EntryByName(name) \in S
    BY <1>1, <1>2
<1>5. EntryByName(name) = 0 \/ EntryByName(name) \in entryIndex
    BY <1>4 DEF S
<1>6. \A e : e \in entryIndex => e \in 0..nextID
    BY <1>3
<1>7. 0 \in 0..nextID
    BY <1>3
<1>8. QED
    BY <1>5, <1>6, <1>7

\* Resumed, PastWait and Unwired touch nothing but a mark.
LEMMA MarksOnly ==
    ASSUME NEW c \in [Callers -> CallType], NEW i, NEW j
    PROVE  /\ Resumed(c, i) \in [Callers -> CallType]
           /\ PastWait(c, i) \in [Callers -> CallType]
           /\ Unwired(c, i, j) \in [Callers -> CallType]
           /\ \A q \in Callers :
                 /\ Resumed(c, i)[q] \in {c[q], [c[q] EXCEPT !.disturbed = TRUE]}
                 /\ PastWait(c, i)[q] \in {c[q], [c[q] EXCEPT !.disturbed = TRUE]}
                 /\ Unwired(c, i, j)[q] \in {c[q], [c[q] EXCEPT !.disturbed = TRUE]}
<1>1. \A q \in Callers : [c[q] EXCEPT !.disturbed = TRUE] \in CallType
    BY DEF CallType
<1>2. \A q \in Callers : Resumed(c, i)[q] \in {c[q], [c[q] EXCEPT !.disturbed = TRUE]}
    BY DEF Resumed
<1>3. \A q \in Callers : Unwired(c, i, j)[q] \in {c[q], [c[q] EXCEPT !.disturbed = TRUE]}
    BY DEF Unwired
<1>4. Resumed(c, i) \in [Callers -> CallType]
    BY <1>1 DEF Resumed
<1>5. Unwired(c, i, j) \in [Callers -> CallType]
    BY <1>1 DEF Unwired
<1>6. \A q \in Callers : PastWait(c, i)[q] \in {c[q], [c[q] EXCEPT !.disturbed = TRUE]}
    BY DEF PastWait
<1>7. PastWait(c, i) \in [Callers -> CallType]
    BY <1>1 DEF PastWait
<1>8. QED
    BY <1>2, <1>3, <1>4, <1>5, <1>6, <1>7

\* The requests that may change the graph are steps of it.
LEMMA RequestsStepGraph ==
    ASSUME KnownInv, NEW p \in Callers, CallStep(p)
    PROVE  [GNext]_gvars
<1>1. \A name : ScheduleJob(name) => GNext
    BY DEF ScheduleJob, GNext
<1>2. \A id : Remove(id) => [GNext]_gvars
    <2>1. \A id : id \in entryIndex => id \in Ids
        BY GraphAssumption DEF KnownInv, GraphInv, GTypeOK, Ids
    <2>2. QED
        BY <2>1 DEF Remove, RemoveEntry, GNext
<1>3. \A child, parent, condition :
         AddDependency(child, parent, condition) /\ condition \in Conditions => GNext
    <2>1. entryIndex \subseteq Ids
        BY GraphAssumption DEF KnownInv, GraphInv, GTypeOK, Ids
    <2>2. QED
        BY <2>1 DEF AddDependency, GNext
<1>4. CASE Create(p)
    BY <1>1, <1>4 DEF Create, gvars
<1>5. CASE RemoveRequest(p)
    BY <1>2, <1>5 DEF RemoveRequest
<1>6. CASE EdgeRequest(p)
    BY <1>3, <1>6 DEF EdgeRequest, GNext, gvars, KnownInv, EntryKnown, At
<1>7. CASE Register(p)
    BY <1>1, <1>7 DEF Register, gvars
<1>8. CASE Wire(p)
    <2> DEFINE wire == Wires(Workflow(p))[call[p].k]
    <2>1. /\ plan \in Plans /\ op(p) = "workflow" /\ Valid(Workflow(p))
          /\ call[p].k \in 1..Len(Wires(Workflow(p)))
        BY <1>8 DEF Wire, KnownInv, WireKnown, CTypeOK, At
    <2>2. Wires(Workflow(p)) \in
              Seq([child : Names(Workflow(p)), parent : Names(Workflow(p)), condition : Conditions])
        BY <2>1, PlansAssumption DEF op, Workflow
    <2>3. wire.condition \in Conditions
        <3> DEFINE W == [child : Names(Workflow(p)), parent : Names(Workflow(p)),
                         condition : Conditions]
        <3>1. \A T, s : s \in Seq(T) => \A i \in 1..Len(s) : s[i] \in T
            OBVIOUS
        <3>2. wire \in W
            BY <2>1, <2>2, <3>1
        <3>3. QED
            BY <3>2
    <2>4. QED
        BY <1>3, <1>8, <2>3 DEF Wire, gvars
<1>9. CASE Rollback(p)
    BY <1>2, <1>9 DEF Rollback
<1>10. CASE Edit(p)
    BY <1>1, <1>10 DEF Edit, GNext
<1>11. QED
    BY <1>4, <1>5, <1>6, <1>7, <1>8, <1>9, <1>10
       DEF CallStep, Request, gvars, LookUp, Update, SetRequest, LookUpParent, DrainPause, DrainFind,
           DrainResume, TakeChannel, ChannelClosed, Deadline, Stop, GroupWait, GroupReturn,
           StopReturns, Start, Validate, CheckName, WorkflowReturns

-----------------------------------------------------------------------------
(* The waits *)

Numbers(fl)  == {r.no : r \in fl}
Of(fl, id)   == {r.no : r \in {s \in fl : s.id = id}}

\* A channel is there exactly during a burst of runs, and runs are told apart.
Bursts ==
    /\ \A id \in Ids : channel[id] = 0 <=> Of(flight, id) = {}
    /\ \A r, s \in flight : r.no = s.no => r = s

\* The calls during which no run of their entry starts.
Barring(c, o) ==
    \/ o = "removeAndWait" /\ (c.pc \in {"channel", "blocked"} \/ c.outcome = "waited")
    \/ o = "drain" /\ ~c.disturbed /\ c.pc \in {"find", "channel", "blocked", "update"}

\* What is true of a call c of the operation o: the runs it has to wait for are
\* of its entry; the channel it waits on is theirs, and stays the last one
\* of the entry where no run starts.
CallInv(c, o, fl, ch, ix, pz) ==
    /\ c.pc # "done" => c.outcome = "none"
    /\ c.pc \in {"pause", "find", "channel", "blocked"} =>
          o # "stop" /\ c.covers \intersect Numbers(fl) \subseteq Of(fl, c.id)
    /\ c.pc \in {"channel", "blocked"} => c.id \in Ids
    /\ c.pc \in {"pause", "find"} => o = "drain"
    /\ c.pc = "blocked" =>
          c.ch # 0 /\ (c.covers \intersect Numbers(fl) # {} => ch[c.id] = c.ch)
    /\ Barring(c, o) => c.id \in Ids /\ (c.id \notin ix \/ (o = "drain" /\ pz[c.id]))
    /\ Barring(c, o) /\ c.pc = "blocked" => ch[c.id] \in {0, c.ch}
    /\ c.waiter # "none" \/ c.pc = "stopped" => o = "stop"
    /\ c.waiter = "returned" => c.covers \intersect Numbers(fl) = {}
    /\ c.outcome = "waited" =>
          /\ c.covers \intersect Numbers(fl) = {}
          /\ o = "removeAndWait" => Of(fl, c.id) = {}
    /\ o = "drain" /\ ~c.disturbed =>
          /\ c.pc = "update" /\ c.id \in ix => Of(fl, c.id) = {}
          /\ c.pc = "resume" \/ c.outcome = "updated" => c.covers = {}

WaitInv ==
    /\ Bursts
    /\ \A p \in Callers : CallInv(call[p], op(p), flight, channel, entryIndex, paused)

CallersInv == KnownInv /\ WaitInv

\* A mark takes obligations from a call.
LEMMA Marked ==
    ASSUME NEW c \in CallType, NEW o, NEW fl, NEW ch, NEW ix, NEW pz,
           CallInv(c, o, fl, ch, ix, pz)
    PROVE  CallInv([c EXCEPT !.disturbed = TRUE], o, fl, ch, ix, pz)
BY DEF CallInv, Barring, CallType

\* Entries go, and the entry of a barring drain stays paused.
LEMMA EntriesChange ==
    ASSUME NEW c, NEW o, NEW fl, NEW ch, NEW ix, NEW pz, NEW ix2, NEW pz2,
           CallInv(c, o, fl, ch, ix, pz),
           c.id \notin ix => c.id \notin ix2,
           o = "drain" /\ Barring(c, o) /\ pz[c.id] => pz2[c.id]
    PROVE  CallInv(c, o, fl, ch, ix2, pz2)
BY DEF CallInv, Barring

\* A call that neither waits nor replaces owes nothing.
LEMMA Elsewhere ==
    ASSUME NEW c, NEW d, NEW o, NEW fl, NEW ch, NEW ix, NEW pz, NEW ix2, NEW pz2,
           CallInv(c, o, fl, ch, ix, pz),
           d.covers = c.covers, d.waiter = c.waiter,
           d.pc \notin {"pause", "find", "channel", "blocked", "update", "resume", "stopped"},
           d.pc = "done" => d.outcome \notin {"waited", "updated"},
           d.pc # "done" => d.outcome = "none"
    PROVE  CallInv(d, o, fl, ch, ix2, pz2)
BY DEF CallInv, Barring

\* A drain still waits for a run of i that starts now: it has not taken the
\* channel yet, or the run joins the burst it is blocked on.
Waiting(c, ch, i) == c.pc \in {"find", "channel"} \/ (c.pc = "blocked" /\ c.ch = ch[i])

LEMMA RunStarts ==
    ASSUME NEW c, NEW o, NEW fl, NEW ch \in [Ids -> Nat], NEW ix, NEW pz,
           NEW i \in Ids, NEW n \in Nat \ {0},
           CallInv(c, o, fl, ch, ix, pz),
           i \in ix, Barring(c, o) /\ c.id = i => o = "drain" /\ Waiting(c, ch, i),
           n \notin c.covers, ch[i] = 0 <=> Of(fl, i) = {}
    PROVE  CallInv(c, o, fl \union {[no |-> n, id |-> i]},
                   [ch EXCEPT ![i] = IF @ = 0 THEN n ELSE @], ix, pz)
<1> DEFINE fl2 == fl \union {[no |-> n, id |-> i]}
           ch2 == [ch EXCEPT ![i] = IF @ = 0 THEN n ELSE @]
<1>1. c.covers \intersect Numbers(fl2) = c.covers \intersect Numbers(fl)
    BY DEF Numbers
<1>2. \A id : Of(fl, id) \subseteq Of(fl2, id)
    BY DEF Of
<1>3. \A id : id # i => Of(fl2, id) = Of(fl, id)
    BY DEF Of
<1>4. \A id \in Ids : id # i \/ ch[id] # 0 => ch2[id] = ch[id]
    OBVIOUS
<1> HIDE DEF fl2, ch2
<1>5. ASSUME Barring(c, o), c.id = i
      PROVE  CallInv(c, o, fl2, ch2, ix, pz)
    BY <1>1, <1>2, <1>4, <1>5 DEF CallInv, Barring, Waiting
<1>6. CallInv(c, o, fl2, ch2, ix, pz)
    BY <1>1, <1>2, <1>3, <1>4, <1>5 DEF CallInv, Barring
<1>7. QED
    BY <1>6 DEF fl2, ch2

LEMMA RunEnds ==
    ASSUME NEW c, NEW o, NEW fl, NEW ch \in [Ids -> Nat], NEW ix, NEW pz, NEW r \in fl,
           fl \subseteq [no : Nat, id : Ids],
           CallInv(c, o, fl, ch, ix, pz),
           \A s, t \in fl : s.no = t.no => s = t
    PROVE  CallInv(c, o, fl \ {r},
                   [ch EXCEPT ![r.id] = IF Of(fl, r.id) = {r.no} THEN 0 ELSE @], ix, pz)
<1> DEFINE fl2 == fl \ {r}
           ch2 == [ch EXCEPT ![r.id] = IF Of(fl, r.id) = {r.no} THEN 0 ELSE @]
<1>1. Numbers(fl2) \subseteq Numbers(fl) \ {r.no}
    BY DEF Numbers
<1>2. \A id : Of(fl2, id) \subseteq Of(fl, id)
    BY DEF Of
<1>3. \A id : Of(fl2, id) = Of(fl, id) \intersect Numbers(fl2)
    BY DEF Of, Numbers
<1>4. \A id \in Ids : ch2[id] = ch[id] \/ (ch2[id] = 0 /\ Of(fl, id) = {r.no})
    BY DEF Of
<1> HIDE DEF fl2, ch2
<1>5. CallInv(c, o, fl2, ch2, ix, pz)
    BY <1>1, <1>2, <1>3, <1>4 DEF CallInv, Barring
<1>6. QED
    BY <1>5 DEF fl2, ch2

-----------------------------------------------------------------------------
(* A step of a call *)

\* What no step of a call changes, and how the entries may change.
LEMMA CallStepFrame ==
    ASSUME KnownInv, NEW p \in Callers, CallStep(p)
    PROVE  /\ UNCHANGED <<plan, flight, runs, channel>>
           /\ nextID' \in Nat /\ nextID <= nextID'
           /\ \A id \in 0..nextID : id \notin entryIndex => id \notin entryIndex'
<1>1. UNCHANGED <<plan, flight, runs, channel>>
    BY Zenon DEF CallStep, Request, gvars, LookUp, Create, Update, RemoveRequest, SetRequest, LookUpParent,
           EdgeRequest, DrainPause, DrainFind, DrainResume, TakeChannel, ChannelClosed, Deadline,
           Stop, GroupWait, GroupReturn, StopReturns, Start, Validate, CheckName, Register, Wire,
           Rollback, WorkflowReturns, Edit
<1>2. [GNext]_gvars
    BY RequestsStepGraph
<1>3. nextID \in Nat
    BY GraphAssumption DEF KnownInv, GraphInv, GTypeOK
<1>4. nextID' \in {nextID, nextID + 1} /\ entryIndex' \subseteq entryIndex \union {nextID'}
      /\ (nextID' = nextID => entryIndex' \subseteq entryIndex)
    <2>1. CASE AddEntry
        BY <1>3, <2>1 DEF AddEntry
    <2>2. ASSUME NEW id \in Ids, RemoveEntry(id)
          PROVE  nextID' = nextID /\ entryIndex' \subseteq entryIndex
        BY <2>2 DEF RemoveEntry
    <2>3. ASSUME NEW child, NEW parent, RemoveDependency(child, parent)
          PROVE  nextID' = nextID /\ entryIndex' = entryIndex
        BY <2>3 DEF RemoveDependency
    <2>4. ASSUME NEW child, NEW parent, NEW condition, AddDependency(child, parent, condition)
          PROVE  nextID' = nextID /\ entryIndex' = entryIndex
        BY <2>4 DEF AddDependency
    <2>5. CASE UNCHANGED gvars
        BY <2>5 DEF gvars
    <2>6. QED
        BY <1>2, <2>1, <2>2, <2>3, <2>4, <2>5 DEF GNext
<1>5. QED
    BY <1>1, <1>3, <1>4

\* The other calls keep what they know, but for a mark.
LEMMA OthersKeep ==
    ASSUME KnownInv, NEW p \in Callers, CallStep(p), NEW q \in Callers, q # p
    PROVE  call'[q] \in {call[q], [call[q] EXCEPT !.disturbed = TRUE]}
<1>1. call \in [Callers -> CallType]
    BY DEF KnownInv, CTypeOK
<1>2. CASE SetRequest(p)
    <2> DEFINE R == Resumed(call, call[p].id)
    <2>1. R \in [Callers -> CallType] /\ R[q] \in {call[q], [call[q] EXCEPT !.disturbed = TRUE]}
        BY <1>1, MarksOnly
    <2> HIDE DEF R
    <2>2. \/ call' = [R EXCEPT ![p].pc = "done", ![p].outcome = "set"]
          \/ call' = [call EXCEPT ![p].pc = "done", ![p].outcome = "set"]
          \/ call' = [call EXCEPT ![p].pc = "done", ![p].outcome = "notFound"]
        BY <1>2 DEF SetRequest, Return, R
    <2>3. \A c \in [Callers -> CallType] : \A o : [c EXCEPT ![p].pc = "done", ![p].outcome = o][q] = c[q]
        OBVIOUS
    <2>4. call'[q] = R[q] \/ call'[q] = call[q]
        <3>1. /\ [R EXCEPT ![p].pc = "done", ![p].outcome = "set"][q] = R[q]
              /\ [call EXCEPT ![p].pc = "done", ![p].outcome = "set"][q] = call[q]
              /\ [call EXCEPT ![p].pc = "done", ![p].outcome = "notFound"][q] = call[q]
            BY <1>1, <2>1, <2>3, Zenon
        <3>2. QED
            BY <2>2, <3>1, Zenon
    <2>5. QED
        BY <2>1, <2>4
<1>3. CASE EdgeRequest(p)
    BY <1>1, <1>3, MarksOnly, SMTT(30) DEF EdgeRequest, Return
<1>4. CASE DrainResume(p)
    <2> DEFINE R == Resumed(call, call[p].id)
    <2>1. R \in [Callers -> CallType] /\ R[q] \in {call[q], [call[q] EXCEPT !.disturbed = TRUE]}
        BY <1>1, MarksOnly
    <2> HIDE DEF R
    <2>2. \/ call' = [R EXCEPT ![p].pc = "done", ![p].outcome = "updated"]
          \/ call' = [call EXCEPT ![p].pc = "done", ![p].outcome = "updated"]
        BY <1>4 DEF DrainResume, Return, R
    <2>3. QED
        BY <1>1, <2>1, <2>2
<1>5. CASE Edit(p)
    BY <1>1, <1>5, MarksOnly DEF Edit
<1>6. QED
    BY <1>1, <1>2, <1>3, <1>4, <1>5
       DEF CallStep, Request, Goto, Return, LookUp, Create, Update, RemoveRequest, LookUpParent,
           DrainPause, DrainFind, TakeChannel, ChannelClosed, Waited, Deadline, Stop, GroupWait,
           GroupReturn, StopReturns, Start, Validate, CheckName, Register, Wire, Rollback,
           WorkflowReturns

LEMMA Registered ==
    ASSUME KnownInv, NEW p \in Callers, nextID + 1 \in Ids
    PROVE  [call[p] EXCEPT !.ids = Append(@, nextID + 1)] \in CallType
<1>1. call[p] \in CallType
    BY DEF KnownInv, CTypeOK
<1>2. Append(call[p].ids, nextID + 1) \in Seq(Ids)
    BY <1>1 DEF CallType
<1>3. QED
    BY <1>1, <1>2 DEF CallType

LEMMA NextIdKnown ==
    ASSUME KnownInv, NEW p \in Callers, CallStep(p), nextID' = nextID + 1
    PROVE  nextID + 1 \in Ids
<1>1. GraphInv'
    BY RequestsStepGraph, GraphStep DEF KnownInv
<1>2. QED
    BY <1>1, GraphAssumption DEF KnownInv, GraphInv, GTypeOK, Ids

LEMMA TypesKept ==
    ASSUME KnownInv, NEW p \in Callers, CallStep(p)
    PROVE  call' \in [Callers -> CallType] /\ paused' \in [Ids -> BOOLEAN]
<1>1. call \in [Callers -> CallType] /\ call[p] \in CallType /\ paused \in [Ids -> BOOLEAN]
    BY ZenonT(60) DEF KnownInv, CTypeOK
<1>2. paused' \in [Ids -> BOOLEAN]
    BY <1>1 DEF CallStep, Request, SetPaused, ScheduleJob, LookUp, Create, Update, RemoveRequest,
           SetRequest, LookUpParent, EdgeRequest, DrainPause, DrainFind, DrainResume, TakeChannel,
           ChannelClosed, Deadline, Stop, GroupWait, GroupReturn, StopReturns, Start, Validate,
           CheckName, Register, Wire, Rollback, WorkflowReturns, Edit
<1> SUFFICES call' \in [Callers -> CallType]
    BY <1>2
<1>3. \A c \in CallType, pc \in Pcs, outcome \in Outcomes :
         /\ [c EXCEPT !.pc = pc] \in CallType
         /\ [c EXCEPT !.pc = pc, !.outcome = outcome] \in CallType
    BY DEF CallType
<1>4. \A c \in [Callers -> CallType], d \in CallType :
         [c EXCEPT ![p] = d] \in [Callers -> CallType]
    OBVIOUS
<1>5. ASSUME NEW pc \in Pcs, Goto(p, pc)
      PROVE  call' \in [Callers -> CallType]
    <2>1. call' = [call EXCEPT ![p] = [call[p] EXCEPT !.pc = pc]]
        BY <1>1, <1>5, Zenon DEF Goto
    <2>2. [call[p] EXCEPT !.pc = pc] \in CallType
        BY <1>1, <1>3, <1>5, Zenon DEF Outcomes
    <2> HIDE DEF CallType
    <2>3. QED
        BY <1>1, <1>4, <2>1, <2>2
<1>6. ASSUME NEW outcome \in Outcomes, Return(p, outcome)
      PROVE  call' \in [Callers -> CallType]
    <2>1. call' = [call EXCEPT ![p] = [call[p] EXCEPT !.pc = "done", !.outcome = outcome]]
        BY <1>1, <1>6, Zenon DEF Return
    <2>2. [call[p] EXCEPT !.pc = "done", !.outcome = outcome] \in CallType
        BY <1>1, <1>3, <1>6, Zenon DEF Pcs
    <2>3. QED
        BY <1>1, <1>4, <2>1, <2>2
<1>7. nextID' \in 0..MaxEntryID /\ nextID \in 0..MaxEntryID /\ entryIndex \subseteq 1..nextID
    <2>1. GraphInv'
        BY RequestsStepGraph, GraphStep DEF KnownInv
    <2>2. QED
        BY <2>1 DEF KnownInv, GraphInv, GTypeOK
<1>8. entryIndex \subseteq Ids /\ \A id \in entryIndex : paused[id] \in BOOLEAN
    BY <1>1, <1>7, GraphAssumption DEF Ids
<1>9. \A id : InFlight(id) \subseteq Nat
    BY DEF KnownInv, CTypeOK, InFlight
<1>10. CASE LookUp(p)
    <2> DEFINE id == EntryByName(plan.calls[p].name)
               d  == [call[p] EXCEPT !.pc = Present[op(p)], !.id = id,
                                     !.wasPaused = paused[id], !.covers = InFlight(id)]
    <2>1. id # 0 => id \in 0..MaxEntryID /\ paused[id] \in BOOLEAN
        <3>1. id # 0 => id \in entryIndex
            BY LookUpFinds DEF KnownInv, GraphInv
        <3>2. \A i \in Ids : i \in 0..MaxEntryID
            BY GraphAssumption DEF Ids
        <3>3. QED
            BY <1>8, <3>1, <3>2
    <2>2. Present[op(p)] \in Pcs
        BY <1>10 DEF Present, Pcs, LookUp
    <2>3. id # 0 => d \in CallType
        BY <1>1, <1>9, <2>1, <2>2 DEF CallType
    <2> DEFINE a == [call[p] EXCEPT !.pc = "create"]
               b == [call[p] EXCEPT !.pc = "done", !.outcome = "notFound"]
    <2>4. \/ id # 0 /\ call' = [call EXCEPT ![p] = d]
          \/ call' = [call EXCEPT ![p] = a]
          \/ call' = [call EXCEPT ![p] = b]
        BY <1>1, <1>10 DEF LookUp
    <2>5. a \in CallType /\ b \in CallType
        BY <1>1, <1>3, Zenon DEF Pcs, Outcomes
    <2> HIDE DEF a, b, d
    <2>6. QED
        BY <1>1, <1>4, <2>3, <2>4, <2>5
<1>11. CASE Create(p)
    <2> DEFINE d == [call[p] EXCEPT !.pc = "done", !.outcome = "created", !.id = nextID + 1]
    <2>1. \/ Return(p, "rejected")
          \/ call' = [call EXCEPT ![p] = d] /\ nextID' = nextID + 1
        BY <1>1, <1>11 DEF Create, ScheduleJob, AddEntry
    <2>2. nextID' = nextID + 1 => d \in CallType
        BY <1>1, <1>7 DEF CallType, Pcs, Outcomes
    <2> HIDE DEF d
    <2>3. "rejected" \in Outcomes
        BY DEF Outcomes
    <2>4. QED
        BY <1>1, <1>4, <1>6, <2>1, <2>2, <2>3
<1>12. CASE Update(p)
    <2> DEFINE c == call[p]
               d == [c EXCEPT !.pc = "resume", !.covers = InFlight(c.id)]
    <2>1. call' = [call EXCEPT ![p] =
              CASE c.id \notin entryIndex -> [c EXCEPT !.pc = "create"]
                [] c.id \in entryIndex /\ op(p) = "drain" -> d
                [] OTHER -> [c EXCEPT !.pc = "done", !.outcome = "updated"]]
        BY <1>1, <1>12 DEF Update
    <2> DEFINE a == [c EXCEPT !.pc = "create"]
               b == [c EXCEPT !.pc = "done", !.outcome = "updated"]
    <2>2. call' \in {[call EXCEPT ![p] = a], [call EXCEPT ![p] = b], [call EXCEPT ![p] = d]}
        BY <2>1
    <2>3. d \in CallType
        BY <1>1, <1>9, Zenon DEF CallType, Pcs
    <2>4. a \in CallType /\ b \in CallType
        BY <1>1, <1>3, Zenon DEF Pcs, Outcomes
    <2> HIDE DEF a, b, d
    <2>5. QED
        BY <1>1, <1>4, <2>2, <2>3, <2>4
<1>13. CASE RemoveRequest(p)
    <2> DEFINE c == call[p]
               d == [c EXCEPT !.pc = "channel", !.covers = InFlight(c.id)]
               a == [c EXCEPT !.pc = "done", !.outcome =
                        IF op(p) = "removeAndWait" THEN "notFound" ELSE "removed"]
    <2>1. call' \in {[call EXCEPT ![p] = a], [call EXCEPT ![p] = d]}
        BY <1>1, <1>13 DEF RemoveRequest
    <2>2. d \in CallType
        BY <1>1, <1>9, Zenon DEF CallType, Pcs
    <2>3. a \in CallType
        BY <1>1, <1>3, Zenon DEF Pcs, Outcomes
    <2> HIDE DEF a, d
    <2>4. QED
        BY <1>1, <1>4, <2>1, <2>2, <2>3
<1>14. \A c \in [Callers -> CallType], outcome \in Outcomes :
          [c EXCEPT ![p].pc = "done", ![p].outcome = outcome] \in [Callers -> CallType]
    <2> TAKE c \in [Callers -> CallType], outcome \in Outcomes
    <2>1. c[p] \in CallType
        BY Zenon
    <2>2. [c[p] EXCEPT !.pc = "done", !.outcome = outcome] \in CallType
        BY <1>3, <2>1, Zenon DEF Pcs
    <2>3. [c EXCEPT ![p].pc = "done", ![p].outcome = outcome] =
              [c EXCEPT ![p] = [c[p] EXCEPT !.pc = "done", !.outcome = outcome]]
        BY <2>1
    <2>4. QED
        BY <1>4, <2>2, <2>3
<1>15. CASE SetRequest(p)
    <2>1. Resumed(call, call[p].id) \in [Callers -> CallType]
        BY <1>1, MarksOnly
    <2>2. "set" \in Outcomes /\ "notFound" \in Outcomes
        BY DEF Outcomes
    <2>3. QED
        BY <1>1, <1>6, <1>14, <1>15, <2>1, <2>2 DEF SetRequest
<1>16. CASE LookUpParent(p)
    <2> DEFINE id == EntryByName(plan.calls[p].parent)
               d  == [call[p] EXCEPT !.pc = "edge", !.ids = <<id>>]
    <2>1. id # 0 => id \in Ids
        BY <1>8, LookUpFinds DEF KnownInv, GraphInv
    <2>2. Return(p, "notFound") \/ (id # 0 /\ call' = [call EXCEPT ![p] = d])
        BY <1>1, <1>16 DEF LookUpParent
    <2> HIDE DEF id
    <2>3. id # 0 => d \in CallType
        <3>1. id # 0 => <<id>> \in Seq(Ids)
            BY <2>1
        <3>2. QED
            BY <1>1, <3>1 DEF CallType, Pcs
    <2>4. "notFound" \in Outcomes
        BY DEF Outcomes
    <2> HIDE DEF d
    <2>5. QED
        BY <1>1, <1>4, <1>6, <2>2, <2>3, <2>4
<1>17. CASE EdgeRequest(p)
    <2> DEFINE U == Unwired(call, call[p].id, call[p].ids[1])
    <2>1. U \in [Callers -> CallType]
        BY <1>1, MarksOnly
    <2>2. {"added", "rejected", "removed"} \subseteq Outcomes
        BY DEF Outcomes
    <2>3. \/ Return(p, "added") \/ Return(p, "rejected")
          \/ call' = [U EXCEPT ![p].pc = "done", ![p].outcome = "removed"]
        BY <1>17 DEF EdgeRequest
    <2> HIDE DEF U
    <2>4. QED
        BY <1>6, <1>14, <2>1, <2>2, <2>3
<1>18. CASE DrainPause(p) \/ DrainFind(p)
    <2>1. {"find", "create", "channel", "update"} \subseteq Pcs
        BY DEF Pcs
    <2>2. QED
        BY <1>5, <1>18, <2>1 DEF DrainPause, DrainFind
<1>19. CASE DrainResume(p)
    <2>1. Resumed(call, call[p].id) \in [Callers -> CallType]
        BY <1>1, MarksOnly
    <2>2. "updated" \in Outcomes
        BY DEF Outcomes
    <2>3. \/ Return(p, "updated")
          \/ call' = [Resumed(call, call[p].id) EXCEPT ![p].pc = "done", ![p].outcome = "updated"]
        BY <1>19 DEF DrainResume
    <2>4. QED
        BY <1>6, <1>14, <2>1, <2>2, <2>3
<1>20. CASE TakeChannel(p) \/ ChannelClosed(p)
    <2> DEFINE d == [call[p] EXCEPT !.pc = "blocked", !.ch = channel[call[p].id]]
    <2>1. Waited(p) => call' \in [Callers -> CallType]
        BY <1>5, <1>6 DEF Waited, Pcs, Outcomes
    <2>2. Waited(p) \/ (TakeChannel(p) /\ call' = [call EXCEPT ![p] = d])
        BY <1>1, <1>20 DEF TakeChannel, ChannelClosed
    <2>3. TakeChannel(p) => d \in CallType
        <3>1. TakeChannel(p) => channel[call[p].id] \in Nat
            BY DEF KnownInv, CTypeOK, EntryKnown, TakeChannel, At
        <3>2. QED
            BY <1>1, <3>1 DEF CallType, Pcs
    <2> HIDE DEF d
    <2>4. QED
        BY <1>1, <1>4, <2>1, <2>2, <2>3
<1>21. CASE Deadline(p) \/ StopReturns(p) \/ Start(p) \/ Validate(p)
    <2>1. {"deadline", "waited", "started", "failed"} \subseteq Outcomes /\ "check" \in Pcs
        BY DEF Outcomes, Pcs
    <2>2. QED
        BY <1>5, <1>6, <1>21, <2>1 DEF Deadline, StopReturns, Start, Validate
<1>22. CASE Stop(p)
    <2> DEFINE d == [call[p] EXCEPT !.pc = "stopped", !.waiter = "called",
                                    !.covers = {r.no : r \in flight}]
    <2>1. call' = [call EXCEPT ![p] = d]
        BY <1>1, <1>22 DEF Stop
    <2>2. {r.no : r \in flight} \subseteq Nat
        BY DEF KnownInv, CTypeOK
    <2>3. d \in CallType
        BY <1>1, <2>2 DEF CallType, Pcs, Waiters
    <2> HIDE DEF d
    <2>4. QED
        BY <1>1, <1>4, <2>1, <2>3
<1>23. CASE GroupWait(p) \/ GroupReturn(p)
    <2>1. \A w \in Waiters : [call[p] EXCEPT !.waiter = w] \in CallType
        BY <1>1 DEF CallType
    <2>2. \E w \in Waiters : call' = [call EXCEPT ![p] = [call[p] EXCEPT !.waiter = w]]
        BY <1>1, <1>23 DEF GroupWait, GroupReturn, Waiters
    <2>3. QED
        BY <1>1, <1>4, <2>1, <2>2
<1>24. ASSUME NEW c \in CallType, NEW n, NEW phase \in Pcs
       PROVE  Advance(c, n, phase) \in CallType
    <2>1. c.k \in Nat /\ c.k + 1 \in Nat
        BY <1>24 DEF CallType
    <2>2. [c EXCEPT !.k = c.k + 1] \in CallType
        BY <1>24, <2>1 DEF CallType
    <2>3. [c EXCEPT !.k = 1, !.pc = phase] \in CallType
        BY <1>24 DEF CallType
    <2>4. Advance(c, n, phase) = [c EXCEPT !.k = c.k + 1]
             \/ Advance(c, n, phase) = [c EXCEPT !.k = 1, !.pc = phase]
        BY <1>24 DEF Advance
    <2>5. QED
        BY <2>2, <2>3, <2>4
<1>25. ASSUME NEW c \in CallType
       PROVE  Undo(c) \in CallType
    <2>1. [c EXCEPT !.pc = "done", !.outcome = "failed"] \in CallType
             /\ [c EXCEPT !.k = 1, !.pc = "rollback"] \in CallType
        BY <1>25 DEF CallType, Pcs, Outcomes
    <2>2. QED
        BY <2>1 DEF Undo
<1>26. CASE CheckName(p)
    <2>1. \/ Return(p, "failed")
          \/ call' = [call EXCEPT ![p] = Advance(call[p], Len(Workflow(p).steps), "register")]
        BY <1>1, <1>26 DEF CheckName
    <2>2. "failed" \in Outcomes /\ "register" \in Pcs
        BY DEF Outcomes, Pcs
    <2>3. QED
        BY <1>1, <1>4, <1>6, <1>24, <2>1, <2>2
<1>27. CASE Register(p)
    <2> DEFINE c == call[p]
               d == [c EXCEPT !.ids = Append(@, nextID + 1)]
    <2>1. \/ /\ nextID' = nextID + 1
             /\ \E phase \in {"wired", "wire"} :
                   call' = [call EXCEPT ![p] = Advance(d, Len(Workflow(p).steps), phase)]
          \/ call' = [call EXCEPT ![p] = Undo(c)]
        BY <1>1, <1>27 DEF Register, ScheduleJob, AddEntry
    <2>2. nextID' = nextID + 1 => d \in CallType
        BY NextIdKnown, Registered
    <2>3. {"wired", "wire"} \subseteq Pcs
        BY DEF Pcs
    <2> HIDE DEF d
    <2>4. QED
        BY <1>1, <1>4, <1>24, <1>25, <2>1, <2>2, <2>3
<1>28. CASE Wire(p)
    <2>1. \/ call' = [call EXCEPT ![p] = Advance(call[p], Len(Wires(Workflow(p))), "wired")]
          \/ call' = [call EXCEPT ![p] = Undo(call[p])]
        BY <1>1, <1>28 DEF Wire
    <2>2. "wired" \in Pcs
        BY DEF Pcs
    <2>3. QED
        BY <1>1, <1>4, <1>24, <1>25, <2>1, <2>2
<1>29. CASE Rollback(p)
    <2>1. call' = [call EXCEPT ![p] = Advance(call[p], Len(call[p].ids), "rolledBack")]
        BY <1>1, <1>29 DEF Rollback
    <2>2. "rolledBack" \in Pcs
        BY DEF Pcs
    <2>3. QED
        BY <1>1, <1>4, <1>24, <2>1, <2>2
<1>30. CASE WorkflowReturns(p)
    <2> DEFINE outcome == IF call[p].pc = "wired" THEN "added" ELSE "failed"
    <2>1. call' = [call EXCEPT ![p] = [call[p] EXCEPT !.pc = "done", !.outcome = outcome]]
        BY <1>1, <1>30 DEF WorkflowReturns, Finished
    <2>2. outcome \in Outcomes /\ "done" \in Pcs
        BY DEF Outcomes, Pcs
    <2> HIDE DEF outcome
    <2>3. QED
        BY <1>1, <1>3, <1>4, <2>1, <2>2
<1>31. CASE Edit(p)
    BY <1>1, <1>31, MarksOnly DEF Edit
<1>32. QED
    BY <1>10, <1>11, <1>12, <1>13, <1>15, <1>16, <1>17, <1>18, <1>19, <1>20, <1>21, <1>22, <1>23,
       <1>26, <1>27, <1>28, <1>29, <1>30, <1>31 DEF CallStep, Request

\* What a call comes to know: an entry that it found or made, and the runs that
\* were under way.
LEMMA Learns ==
    ASSUME KnownInv, NEW p \in Callers, CallStep(p)
    PROVE  /\ call'[p].covers \in {call[p].covers, InFlight(call'[p].id), {r.no : r \in flight}}
           /\ call'[p].id = call[p].id \/ call'[p].id \in entryIndex
                 \/ (call'[p].id = nextID + 1 /\ nextID' = nextID + 1)
<1>1. call \in [Callers -> CallType] /\ call[p] \in CallType
    BY DEF KnownInv, CTypeOK
<1> USE DEF CallType
<1>2. CASE LookUp(p)
    BY <1>1, <1>2, LookUpFinds DEF LookUp, KnownInv, GraphInv
<1>3. CASE Create(p)
    BY <1>1, <1>3 DEF Create, ScheduleJob, AddEntry, Return
<1>4. CASE Update(p)
    <2>1. call'[p].id = call[p].id /\ call'[p].covers \in {call[p].covers, InFlight(call[p].id)}
        BY <1>1, <1>4 DEF Update
    <2>2. QED
        BY <2>1
<1>5. CASE RemoveRequest(p)
    <2>1. call'[p].id = call[p].id /\ call'[p].covers \in {call[p].covers, InFlight(call[p].id)}
        BY <1>1, <1>5 DEF RemoveRequest
    <2>2. QED
        BY <2>1
<1> DEFINE R == Resumed(call, call[p].id)
           U == Unwired(call, call[p].id, call[p].ids[1])
<1> HIDE DEF CallType
<1>6. /\ R \in [Callers -> CallType] /\ R[p] \in {call[p], [call[p] EXCEPT !.disturbed = TRUE]}
      /\ U \in [Callers -> CallType] /\ U[p] \in {call[p], [call[p] EXCEPT !.disturbed = TRUE]}
    BY <1>1, MarksOnly
<1> USE DEF CallType
<1>7. /\ R[p].id = call[p].id /\ R[p].covers = call[p].covers
      /\ U[p].id = call[p].id /\ U[p].covers = call[p].covers
    BY <1>1, <1>6
<1>8. CASE SetRequest(p) \/ DrainResume(p)
    <2>1. R \in [Callers -> CallType]
        BY <1>6, Zenon
    <2>2. \E outcome \in Outcomes :
             \/ call' = [call EXCEPT ![p].pc = "done", ![p].outcome = outcome]
             \/ call' = [R EXCEPT ![p].pc = "done", ![p].outcome = outcome]
        BY <1>8, Zenon DEF SetRequest, DrainResume, Return, Outcomes
    <2> HIDE DEF R
    <2>3. QED
        BY <1>1, <1>7, <2>1, <2>2
<1>9. CASE EdgeRequest(p)
    <2>1. U \in [Callers -> CallType]
        BY <1>6, Zenon
    <2>2. \E outcome \in Outcomes :
             \/ call' = [call EXCEPT ![p].pc = "done", ![p].outcome = outcome]
             \/ call' = [U EXCEPT ![p].pc = "done", ![p].outcome = outcome]
        BY <1>9, Zenon DEF EdgeRequest, Return, Outcomes
    <2> HIDE DEF U
    <2>3. QED
        BY <1>1, <1>7, <2>1, <2>2
<1>10. CASE Edit(p)
    <2> HIDE DEF CallType
    <2>1. call'[p] \in {call[p], [call[p] EXCEPT !.disturbed = TRUE]}
        BY <1>1, <1>10, MarksOnly DEF Edit
    <2>2. QED
        BY <1>1, <2>1 DEF CallType
<1>11. CASE CheckName(p) \/ Register(p) \/ Wire(p) \/ Rollback(p)
    <2>1. CASE CheckName(p)
        BY <1>1, <2>1, ZenonT(60) DEF CheckName, Advance, Return
    <2>2. CASE Register(p)
        BY <1>1, <2>2, ZenonT(60) DEF Register, Advance, Undo
    <2>3. CASE Wire(p)
        BY <1>1, <2>3, ZenonT(60) DEF Wire, Advance, Undo
    <2>4. CASE Rollback(p)
        BY <1>1, <2>4, ZenonT(60) DEF Rollback, Advance
    <2>5. QED
        BY <1>11, <2>1, <2>2, <2>3, <2>4
<1>12. CASE TakeChannel(p) \/ ChannelClosed(p)
    BY <1>1, <1>12 DEF TakeChannel, ChannelClosed, Waited, Goto, Return
<1>13. CASE LookUpParent(p) \/ DrainPause(p) \/ DrainFind(p) \/ Deadline(p)
    <2>1. CASE LookUpParent(p)
        BY <1>1, <2>1 DEF LookUpParent, Return
    <2>2. CASE DrainPause(p)
        BY <1>1, <2>2, ZenonT(60) DEF DrainPause, Goto
    <2>3. CASE DrainFind(p)
        BY <1>1, <2>3 DEF DrainFind, Goto
    <2>4. CASE Deadline(p)
        BY <1>1, <2>4 DEF Deadline, Return
    <2>5. QED
        BY <1>13, <2>1, <2>2, <2>3, <2>4
<1>14. CASE Stop(p)
    BY <1>1, <1>14 DEF Stop
<1>15. CASE GroupWait(p) \/ GroupReturn(p)
    <2>1. \E w \in Waiters : call' = [call EXCEPT ![p] = [call[p] EXCEPT !.waiter = w]]
        BY <1>1, <1>15 DEF GroupWait, GroupReturn, Waiters
    <2>2. QED
        BY <1>1, <2>1
<1>16. CASE StopReturns(p) \/ Start(p) \/ Validate(p)
    BY <1>1, <1>16 DEF StopReturns, Start, Validate, Goto, Return
<1>17. CASE WorkflowReturns(p)
    BY <1>1, <1>17 DEF WorkflowReturns, Finished
<1>18. QED
    BY <1>2, <1>3, <1>4, <1>5, <1>8, <1>9, <1>10, <1>11, <1>12, <1>13, <1>14, <1>15, <1>16, <1>17
       DEF CallStep, Request

\* The steps that end a call, or lead to where it neither waits nor replaces.
PlainStep(p) ==
    \/ Create(p) \/ SetRequest(p) \/ LookUpParent(p) \/ EdgeRequest(p) \/ Deadline(p)
    \/ Start(p) \/ Validate(p) \/ CheckName(p) \/ Register(p) \/ Wire(p) \/ Rollback(p)
    \/ WorkflowReturns(p)

LEMMA PlainSteps ==
    ASSUME KnownInv, NEW p \in Callers, CallStep(p), PlainStep(p)
    PROVE  /\ call[p].pc # "done"
           /\ call'[p].pc \in {"done", "edge", "check", "register", "wire", "wired", "rollback",
                               "rolledBack"}
           /\ call'[p].pc = "edge" => LookUpParent(p)
           /\ call'[p].pc = "done" => call'[p].outcome \notin {"waited", "updated"}
           /\ call'[p].pc # "done" => call'[p].outcome = call[p].outcome
           /\ call'[p].covers = call[p].covers /\ call'[p].waiter = call[p].waiter
<1>1. call \in [Callers -> CallType] /\ call[p] \in CallType
    BY DEF KnownInv, CTypeOK
<1> DEFINE R == Resumed(call, call[p].id)
           U == Unwired(call, call[p].id, call[p].ids[1])
<1>2. /\ R \in [Callers -> CallType] /\ R[p] \in {call[p], [call[p] EXCEPT !.disturbed = TRUE]}
      /\ U \in [Callers -> CallType] /\ U[p] \in {call[p], [call[p] EXCEPT !.disturbed = TRUE]}
    BY <1>1, MarksOnly
<1>3. call[p].pc # "done"
    BY Zenon DEF PlainStep, At, Create, SetRequest, LookUpParent, EdgeRequest, Deadline, Start, Validate,
           CheckName, Register, Wire, Rollback, WorkflowReturns
<1> USE DEF CallType
<1>4. /\ R[p].covers = call[p].covers /\ R[p].waiter = call[p].waiter
      /\ U[p].covers = call[p].covers /\ U[p].waiter = call[p].waiter
    BY <1>1, <1>2
<1>5. CASE SetRequest(p)
    <2>1. \E outcome \in Outcomes \ {"waited", "updated"} :
             \/ call' = [call EXCEPT ![p].pc = "done", ![p].outcome = outcome]
             \/ call' = [R EXCEPT ![p].pc = "done", ![p].outcome = outcome]
        <3>1. \/ call' = [call EXCEPT ![p].pc = "done", ![p].outcome = "notFound"]
              \/ call' = [call EXCEPT ![p].pc = "done", ![p].outcome = "set"]
              \/ call' = [R EXCEPT ![p].pc = "done", ![p].outcome = "set"]
            BY <1>5 DEF SetRequest, Return
        <3>2. {"notFound", "set"} \subseteq Outcomes \ {"waited", "updated"}
            BY DEF Outcomes
        <3>3. QED
            BY <3>1, <3>2
    <2> HIDE DEF R
    <2>2. QED
        BY <1>1, <1>2, <1>3, <1>4, <2>1
<1>6. CASE EdgeRequest(p)
    <2>1. \E outcome \in Outcomes \ {"waited", "updated"} :
             \/ call' = [call EXCEPT ![p].pc = "done", ![p].outcome = outcome]
             \/ call' = [U EXCEPT ![p].pc = "done", ![p].outcome = outcome]
        BY <1>6 DEF EdgeRequest, Return, Outcomes
    <2> HIDE DEF U
    <2>2. QED
        BY <1>1, <1>2, <1>3, <1>4, <2>1, SMTT(60)
<1>7. CASE Create(p) \/ Deadline(p) \/ Start(p)
    BY <1>1, <1>3, <1>7 DEF Create, Deadline, Start, Return
<1>8. CASE LookUpParent(p) \/ Validate(p)
    BY <1>1, <1>3, <1>8 DEF LookUpParent, Validate, Goto, Return
<1>9. ASSUME NEW c \in CallType, NEW n, NEW phase
      PROVE  /\ Advance(c, n, phase).pc \in {c.pc, phase}
             /\ Advance(c, n, phase).outcome = c.outcome
             /\ Advance(c, n, phase).covers = c.covers
             /\ Advance(c, n, phase).waiter = c.waiter
    BY <1>9 DEF Advance
<1>10. ASSUME NEW c \in CallType
       PROVE  /\ \/ Undo(c).pc = "done" /\ Undo(c).outcome = "failed"
                 \/ Undo(c).pc = "rollback" /\ Undo(c).outcome = c.outcome
              /\ Undo(c).covers = c.covers /\ Undo(c).waiter = c.waiter
    BY <1>10 DEF Undo
<1>11. CASE CheckName(p)
    <2> DEFINE d == Advance(call[p], Len(Workflow(p).steps), "register")
    <2>1. /\ call[p].pc = "check"
          /\ Return(p, "failed") \/ call' = [call EXCEPT ![p] = d]
        BY <1>1, <1>11 DEF CheckName, At
    <2>2. /\ d.pc \in {call[p].pc, "register"} /\ d.outcome = call[p].outcome
          /\ d.covers = call[p].covers /\ d.waiter = call[p].waiter
        BY <1>1, <1>9
    <2> HIDE DEF d
    <2>3. QED
        BY <1>1, <1>3, <2>1, <2>2 DEF Return
<1>12. CASE Register(p)
    <2> DEFINE c == [call[p] EXCEPT !.ids = Append(@, nextID + 1)]
    <2>1. /\ call[p].pc = "register"
          /\ \/ call'[p] = Undo(call[p])
             \/ /\ nextID' = nextID + 1
                /\ \/ call'[p] = Advance(c, Len(Workflow(p).steps), "wired")
                   \/ call'[p] = Advance(c, Len(Workflow(p).steps), "wire")
        BY <1>1, <1>12 DEF Register, ScheduleJob, AddEntry, At
    <2>2. nextID' = nextID + 1 => c \in CallType
        BY NextIdKnown, Registered
    <2>3. /\ c.pc = call[p].pc /\ c.outcome = call[p].outcome
          /\ c.covers = call[p].covers /\ c.waiter = call[p].waiter
        BY <1>1
    <2> HIDE DEF c, CallType
    <2>4. CASE call'[p] = Undo(call[p])
        BY <1>1, <1>3, <1>10, <2>4
    <2>5. CASE call'[p] # Undo(call[p])
        BY <1>3, <1>9, <2>1, <2>2, <2>3, <2>5
    <2>6. QED
        BY <2>4, <2>5
<1>13. CASE Wire(p)
    <2>1. /\ call[p].pc = "wire"
          /\ \/ call'[p] = Undo(call[p])
             \/ call'[p] = Advance(call[p], Len(Wires(Workflow(p))), "wired")
        BY <1>1, <1>13 DEF Wire, At
    <2> HIDE DEF CallType
    <2>2. CASE call'[p] = Undo(call[p])
        BY <1>1, <1>3, <1>10, <2>2
    <2>3. CASE call'[p] # Undo(call[p])
        BY <1>1, <1>3, <1>9, <2>1, <2>3
    <2>4. QED
        BY <2>2, <2>3
<1>14. CASE Rollback(p)
    <2>1. /\ call[p].pc = "rollback"
          /\ call'[p] = Advance(call[p], Len(call[p].ids), "rolledBack")
        BY <1>1, <1>14 DEF Rollback, At
    <2>2. QED
        BY <1>1, <1>3, <1>9, <2>1
<1>15. CASE WorkflowReturns(p)
    BY <1>1, <1>3, <1>15 DEF WorkflowReturns, Finished
<1>16. QED
    BY <1>5, <1>6, <1>7, <1>8, <1>11, <1>12, <1>13, <1>14, <1>15 DEF PlainStep

\* Where the other steps lead.
LEMMA OwnStep ==
    ASSUME KnownInv, Bursts, NEW p \in Callers, CallStep(p),
           CallInv(call[p], op(p), flight, channel, entryIndex, paused)
    PROVE  CallInv(call'[p], op(p), flight, channel, entryIndex', paused')
<1>1. call \in [Callers -> CallType] /\ call[p] \in CallType
    BY DEF KnownInv, CTypeOK
<1>2. call[p].id \notin entryIndex => call[p].id \notin entryIndex'
    BY CallStepFrame DEF KnownInv, PastKnown
<1>3. \A id : InFlight(id) = Of(flight, id)
    BY DEF InFlight, Of
<1>4. entryIndex \subseteq Ids
    BY GraphAssumption DEF KnownInv, GraphInv, GTypeOK, Ids
<1>5. CASE PlainStep(p)
    <2>1. call'[p].pc # "done" => call'[p].outcome = "none"
        BY <1>5, PlainSteps DEF CallInv
    <2>2. QED
        BY <1>5, <2>1, PlainSteps, Elsewhere
<1>6. CASE Edit(p)
    <2>1. CallInv(call[p], op(p), flight, channel, entryIndex', paused')
        BY <1>2, <1>6, EntriesChange DEF Edit
    <2>2. call'[p] \in {call[p], [call[p] EXCEPT !.disturbed = TRUE]}
        BY <1>1, <1>6, MarksOnly DEF Edit
    <2>3. QED
        BY <1>1, <2>1, <2>2, Marked
<1>7. CASE LookUp(p)
    <2> DEFINE id == EntryByName(plan.calls[p].name)
    <2>1. id # 0 => id \in entryIndex
        BY LookUpFinds DEF KnownInv, GraphInv
    <2>2. /\ call[p].pc = "start" /\ op(p) \in DOMAIN Present /\ op(p) # "stop"
          /\ call'[p].outcome \in {"none", "notFound"} /\ call'[p].waiter = call[p].waiter
          /\ call'[p].pc # "done" => call'[p].outcome = "none"
        BY <1>1, <1>7 DEF LookUp, CallType, CallInv, At, Present
    <2>3. \/ call'[p].pc \in {"create", "done"} /\ call'[p].covers = call[p].covers
          \/ /\ id # 0 /\ call'[p].pc = Present[op(p)]
             /\ call'[p].id = id /\ call'[p].covers = Of(flight, id)
        BY <1>1, <1>3, <1>7 DEF LookUp, CallType
    <2> HIDE DEF id
    <2>4. QED
        BY <1>4, <2>1, <2>2, <2>3 DEF CallInv, Barring, Present
<1>8. CASE Update(p)
    BY <1>1, <1>3, <1>4, <1>8 DEF Update, CallInv, Barring, CallType, At
<1>9. CASE RemoveRequest(p)
    BY <1>1, <1>3, <1>4, <1>9 DEF RemoveRequest, CallInv, Barring, CallType, At, Remove, RemoveEntry
<1>10. CASE DrainPause(p)
    <2>1. /\ call[p].pc = "pause" /\ call' = [call EXCEPT ![p].pc = call'[p].pc]
          /\ \/ call'[p].pc = "find" /\ call[p].id \in entryIndex /\ paused'[call[p].id] = TRUE
             \/ call'[p].pc = "create"
          /\ entryIndex' = entryIndex
        BY <1>1, <1>4, <1>10 DEF DrainPause, Goto, SetPaused, At, gvars, KnownInv, CTypeOK, CallType
    <2>2. /\ call'[p].covers = call[p].covers /\ call'[p].id = call[p].id
          /\ call'[p].waiter = call[p].waiter /\ call'[p].outcome = call[p].outcome
          /\ call'[p].disturbed = call[p].disturbed
        BY <1>1, <2>1 DEF CallType
    <2>3. QED
        BY <1>4, <2>1, <2>2 DEF CallInv, Barring
<1>11. CASE DrainFind(p)
    <2>1. /\ call[p].pc = "find" /\ entryIndex' = entryIndex /\ paused' = paused
          /\ call'[p].pc = IF call[p].id \in entryIndex THEN "channel" ELSE "update"
          /\ call'[p].covers = call[p].covers /\ call'[p].id = call[p].id
          /\ call'[p].waiter = call[p].waiter /\ call'[p].outcome = call[p].outcome
          /\ call'[p].disturbed = call[p].disturbed
        BY <1>1, <1>11 DEF DrainFind, Goto, At, gvars, CallType
    <2>2. QED
        BY <1>4, <2>1 DEF CallInv, Barring
<1>12. CASE TakeChannel(p)
    <2>1. /\ call[p].pc = "channel" /\ entryIndex' = entryIndex /\ paused' = paused
          /\ call'[p].covers = call[p].covers /\ call'[p].id = call[p].id
          /\ call'[p].waiter = call[p].waiter /\ call'[p].disturbed = call[p].disturbed
          /\ \/ channel[call[p].id] = 0 /\ op(p) = "drain"
                /\ call'[p].pc = "update" /\ call'[p].outcome = call[p].outcome
             \/ channel[call[p].id] = 0 /\ op(p) # "drain"
                /\ call'[p].pc = "done" /\ call'[p].outcome = "waited"
             \/ channel[call[p].id] # 0 /\ call'[p].ch = channel[call[p].id]
                /\ call'[p].pc = "blocked" /\ call'[p].outcome = call[p].outcome
        BY <1>1, <1>12 DEF TakeChannel, Waited, Goto, Return, At, gvars, CallType
    <2>2. channel[call[p].id] = 0 => Of(flight, call[p].id) = {}
        BY <2>1 DEF Bursts, CallInv
    <2>3. QED
        BY <1>4, <2>1, <2>2 DEF CallInv, Barring
<1>13. CASE ChannelClosed(p)
    <2>1. /\ call[p].pc = "blocked" /\ entryIndex' = entryIndex /\ paused' = paused
          /\ channel[call[p].id] # call[p].ch
          /\ call'[p].covers = call[p].covers /\ call'[p].id = call[p].id
          /\ call'[p].waiter = call[p].waiter /\ call'[p].disturbed = call[p].disturbed
          /\ \/ op(p) = "drain" /\ call'[p].pc = "update" /\ call'[p].outcome = call[p].outcome
             \/ op(p) # "drain" /\ call'[p].pc = "done" /\ call'[p].outcome = "waited"
        BY <1>1, <1>13 DEF ChannelClosed, Waited, Goto, Return, At, gvars, CallType
    <2>2. channel[call[p].id] = 0 => Of(flight, call[p].id) = {}
        BY <2>1 DEF Bursts, CallInv
    <2>3. QED
        BY <1>4, <2>1, <2>2 DEF CallInv, Barring
<1>14. CASE Stop(p)
    BY <1>1, <1>4, <1>14 DEF Stop, CallInv, Barring, CallType, At, gvars
<1>15. CASE GroupWait(p) \/ GroupReturn(p)
    <2> DEFINE w == call'[p].waiter
    <2>1. /\ entryIndex' = entryIndex /\ paused' = paused
          /\ call[p].waiter # "none" /\ (w = "returned" => flight = {})
          /\ call' = [call EXCEPT ![p] = [call[p] EXCEPT !.waiter = w]]
        BY <1>1, <1>15 DEF GroupWait, GroupReturn, gvars, CallType
    <2>2. call'[p] = [call[p] EXCEPT !.waiter = w]
        BY <1>1, <2>1
    <2>3. flight = {} => Numbers(flight) = {}
        BY DEF Numbers
    <2> HIDE DEF w
    <2>4. QED
        BY <1>1, <2>1, <2>2, <2>3 DEF CallInv, Barring, CallType
<1>16. CASE StopReturns(p)
    BY <1>1, <1>4, <1>16 DEF StopReturns, Return, CallInv, Barring, CallType, At, gvars
<1>17. CASE DrainResume(p)
    <2> DEFINE R == Resumed(call, call[p].id)
    <2>1. R \in [Callers -> CallType] /\ R[p] \in {call[p], [call[p] EXCEPT !.disturbed = TRUE]}
        BY <1>1, MarksOnly
    <2>2. \/ call'[p] = [R[p] EXCEPT !.pc = "done", !.outcome = "updated"]
          \/ call'[p] = [call[p] EXCEPT !.pc = "done", !.outcome = "updated"]
        BY <1>1, <1>17, <2>1 DEF DrainResume, Return
    <2>3. call[p].pc = "resume"
        BY <1>17 DEF DrainResume, At
    <2> HIDE DEF R
    <2>4. /\ R[p].covers = call[p].covers /\ R[p].id = call[p].id
          /\ R[p].waiter = call[p].waiter /\ (call[p].disturbed => R[p].disturbed)
        BY <1>1, <2>1 DEF CallType
    <2>5. /\ call'[p].pc = "done" /\ call'[p].outcome = "updated"
          /\ call'[p].covers = call[p].covers /\ call'[p].id = call[p].id
          /\ call'[p].waiter = call[p].waiter
          /\ call[p].disturbed => call'[p].disturbed
        BY <1>1, <2>1, <2>2, <2>4, Zenon DEF CallType
    <2>6. QED
        BY <2>3, <2>5 DEF CallInv, Barring
<1>18. QED
    BY <1>5, <1>6, <1>7, <1>8, <1>9, <1>10, <1>11, <1>12, <1>13, <1>14, <1>15, <1>16, <1>17
       DEF CallStep, Request, PlainStep

\* Who resumes an entry marks the drains that rely on its pause.
LEMMA PauseKept ==
    ASSUME KnownInv, NEW p \in Callers, CallStep(p), NEW q \in Callers, q # p,
           op(q) = "drain", Barring(call'[q], op(q)), paused[call[q].id], call[q].id \in Ids
    PROVE  paused'[call[q].id]
<1>1. call \in [Callers -> CallType] /\ paused \in [Ids -> BOOLEAN]
    BY DEF KnownInv, CTypeOK
<1>2. ASSUME NEW id, Resumed(call, id)[q] = call'[q]
      PROVE  id # call[q].id
    <2>1. SUFFICES ASSUME id = call[q].id PROVE FALSE
        OBVIOUS
    <2>2. call'[q].pc = call[q].pc /\ (call[q].pc \in {"find", "channel", "blocked", "update"}
                                         => call'[q].disturbed)
        BY <1>1, <1>2, <2>1 DEF Resumed, CallType
    <2>3. QED
        BY <2>2 DEF Barring
<1>3. ASSUME NEW id, NEW b \in BOOLEAN, SetPaused(id, b), b \/ id # call[q].id
      PROVE  paused'[call[q].id]
    BY <1>1, <1>3 DEF SetPaused
<1> DEFINE R == Resumed(call, call[p].id)
<1>2a. R \in [Callers -> CallType] /\ R[q] \in {call[q], [call[q] EXCEPT !.disturbed = TRUE]}
    BY <1>1, MarksOnly
<1>3a. ASSUME NEW outcome, call' = [R EXCEPT ![p].pc = "done", ![p].outcome = outcome]
      PROVE  R[q] = call'[q]
    <2> HIDE DEF R
    <2>1. QED
        BY <1>2a, <1>3a
<1>4. CASE SetRequest(p)
    <2>1. CASE call[p].id \notin entryIndex
        BY <1>4, <2>1 DEF SetRequest
    <2>2. CASE call[p].id \in entryIndex /\ op(p) = "pause"
        <3>1. SetPaused(call[p].id, TRUE)
            BY <1>4, <2>2 DEF SetRequest
        <3>2. QED
            BY <1>3, <3>1
    <2>3. CASE call[p].id \in entryIndex /\ op(p) # "pause"
        <3>1. call' = [R EXCEPT ![p].pc = "done", ![p].outcome = "set"]
            BY <1>4, <2>3 DEF SetRequest
        <3>2. SetPaused(call[p].id, FALSE)
            BY <1>4, <2>3 DEF SetRequest
        <3>3. R[q] = call'[q]
            BY <1>3a, <3>1
        <3>4. QED
            BY <1>2, <1>3, <3>2, <3>3
    <2>4. QED
        BY <2>1, <2>2, <2>3
<1>5. CASE DrainPause(p)
    BY <1>1, <1>3, <1>5 DEF DrainPause
<1>6. CASE DrainResume(p)
    <2>1. CASE paused' = paused
        BY <2>1
    <2>2. CASE paused' # paused
        <3>1. /\ SetPaused(call[p].id, FALSE)
              /\ call' = [R EXCEPT ![p].pc = "done", ![p].outcome = "updated"]
            BY <1>6, <2>2 DEF DrainResume
        <3>2. R[q] = call'[q]
            BY <1>3a, <3>1
        <3>3. QED
            BY <1>2, <1>3, <3>1, <3>2
    <2>3. QED
        BY <2>1, <2>2
<1>7. QED
    BY <1>4, <1>5, <1>6, Zenon
       DEF CallStep, Request, ScheduleJob, LookUp, Create, Update, RemoveRequest,
           LookUpParent, EdgeRequest, DrainFind, TakeChannel,
           ChannelClosed, Deadline, Stop, GroupWait, GroupReturn, StopReturns, Start, Validate,
           CheckName, Register, Wire, Rollback, WorkflowReturns, Edit

LEMMA OthersStep ==
    ASSUME KnownInv, NEW p \in Callers, CallStep(p), NEW q \in Callers, q # p,
           CallInv(call[q], op(q), flight, channel, entryIndex, paused)
    PROVE  CallInv(call'[q], op(q), flight, channel, entryIndex', paused')
<1>1. call[q] \in CallType
    BY DEF KnownInv, CTypeOK
<1>2. call'[q] \in {call[q], [call[q] EXCEPT !.disturbed = TRUE]}
    BY OthersKeep
<1>3. call'[q].id = call[q].id
    BY <1>1, <1>2 DEF CallType
<1>4. CallInv(call'[q], op(q), flight, channel, entryIndex, paused)
    BY <1>1, <1>2, Marked
<1>5. call'[q].id \notin entryIndex => call'[q].id \notin entryIndex'
    BY <1>3, CallStepFrame DEF KnownInv, PastKnown
<1>6. op(q) = "drain" /\ Barring(call'[q], op(q)) /\ paused[call'[q].id] => paused'[call'[q].id]
    BY <1>3, <1>4, PauseKept DEF CallInv
<1>7. QED
    BY <1>4, <1>5, <1>6, EntriesChange

\* What the call itself knows after its step.
LEMMA OwnKnown ==
    ASSUME KnownInv, NEW p \in Callers, CallStep(p)
    PROVE  /\ call'[p].pc \in {"parent", "edge", "channel", "blocked"} => call'[p].id \in Ids
           /\ call'[p].pc = "edge" => call'[p].ids[1] \in Ids
           /\ call'[p].pc \in {"check", "register", "wire"} =>
                 op(p) = "workflow" /\ Valid(Workflow(p))
           /\ call'[p].pc = "wire" => call'[p].k \in 1..Len(Wires(Workflow(p)))
<1>1. call \in [Callers -> CallType] /\ call[p] \in CallType
    BY DEF KnownInv, CTypeOK
<1>2. entryIndex \subseteq Ids
    BY GraphAssumption DEF KnownInv, GraphInv, GTypeOK, Ids
<1>3. /\ call[p].pc \in {"parent", "edge", "channel", "blocked"} => call[p].id \in Ids
      /\ call[p].pc = "edge" => call[p].ids[1] \in Ids
      /\ call[p].pc \in {"check", "register", "wire"} =>
            op(p) = "workflow" /\ Valid(Workflow(p))
      /\ call[p].pc = "wire" => call[p].k \in 1..Len(Wires(Workflow(p)))
    BY DEF KnownInv, EntryKnown, WireKnown, At
<1>4. CASE LookUp(p)
    <2> DEFINE id == EntryByName(plan.calls[p].name)
    <2>1. id # 0 => id \in Ids
        BY <1>2, LookUpFinds DEF KnownInv, GraphInv
    <2>2. \/ call'[p].pc \in {"create", "done"}
          \/ id # 0 /\ call'[p].id = id /\ call'[p].pc = Present[op(p)] /\ op(p) \in DOMAIN Present
        BY <1>1, <1>4 DEF LookUp, CallType
    <2> HIDE DEF id
    <2>3. QED
        BY <2>1, <2>2 DEF Present
<1>5. CASE Update(p)
    <2>1. call'[p].pc \in {"create", "resume", "done"}
        BY <1>1, <1>5 DEF Update, CallType
    <2>2. QED
        BY <2>1
<1>6. CASE RemoveRequest(p)
    <2>1. \/ call'[p].pc = "done"
          \/ call'[p].pc = "channel" /\ call'[p].id = call[p].id /\ call[p].id \in entryIndex
        BY <1>1, <1>6 DEF RemoveRequest, CallType
    <2>2. QED
        BY <1>2, <2>1
<1>7. CASE LookUpParent(p)
    <2> DEFINE id == EntryByName(plan.calls[p].parent)
    <2>1. id # 0 => id \in Ids
        BY <1>2, LookUpFinds DEF KnownInv, GraphInv
    <2>2. /\ call[p].pc = "parent"
          /\ \/ call'[p].pc = "done"
             \/ /\ id # 0 /\ call'[p].pc = "edge"
                /\ call'[p].id = call[p].id /\ call'[p].ids = <<id>>
        BY <1>1, <1>7 DEF LookUpParent, Return, At, CallType
    <2> HIDE DEF id
    <2>3. QED
        BY <1>3, <2>1, <2>2
<1>8. CASE DrainPause(p)
    <2>1. \E pc \in {"find", "create"} : call' = [call EXCEPT ![p] = [call[p] EXCEPT !.pc = pc]]
        BY <1>8, Zenon DEF DrainPause, Goto
    <2>2. call'[p].pc \in {"find", "create"}
        BY <1>1, <2>1 DEF CallType
    <2>3. QED
        BY <2>2
<1>9. CASE DrainFind(p)
    <2>1. \/ call'[p].pc = "update"
          \/ call'[p].pc = "channel" /\ call'[p].id = call[p].id /\ call[p].id \in entryIndex
        BY <1>1, <1>9 DEF DrainFind, Goto, CallType
    <2>2. QED
        BY <1>2, <2>1
<1>10. CASE TakeChannel(p) \/ ChannelClosed(p)
    <2>1. /\ call[p].pc \in {"channel", "blocked"} /\ call'[p].id = call[p].id
          /\ call'[p].pc \in {"update", "done", "blocked"}
        BY <1>1, <1>10 DEF TakeChannel, ChannelClosed, Waited, Goto, Return, At, CallType
    <2>2. QED
        BY <1>3, <2>1
<1>11. CASE Stop(p)
    BY <1>1, <1>11 DEF Stop, CallType
<1>12. CASE StopReturns(p)
    BY <1>1, <1>12 DEF StopReturns, Return, CallType
<1>13. CASE GroupWait(p) \/ GroupReturn(p)
    <2>1. \E w \in Waiters : call' = [call EXCEPT ![p] = [call[p] EXCEPT !.waiter = w]]
        BY <1>1, <1>13 DEF GroupWait, GroupReturn, Waiters
    <2>2. /\ call'[p].pc = call[p].pc /\ call'[p].id = call[p].id
          /\ call'[p].ids = call[p].ids /\ call'[p].k = call[p].k
        BY <1>1, <2>1 DEF CallType
    <2>3. QED
        BY <1>3, <2>2
<1>14. CASE Edit(p)
    <2>1. call'[p] \in {call[p], [call[p] EXCEPT !.disturbed = TRUE]}
        BY <1>1, <1>14, MarksOnly DEF Edit
    <2>2. /\ call'[p].pc = call[p].pc /\ call'[p].id = call[p].id
          /\ call'[p].ids = call[p].ids /\ call'[p].k = call[p].k
        BY <1>1, <2>1 DEF CallType
    <2>3. QED
        BY <1>3, <2>2
<1>15. CASE DrainResume(p)
    <2> DEFINE R == Resumed(call, call[p].id)
    <2>1. R \in [Callers -> CallType]
        BY <1>1, MarksOnly
    <2>2. \/ call' = [R EXCEPT ![p].pc = "done", ![p].outcome = "updated"]
          \/ call' = [call EXCEPT ![p].pc = "done", ![p].outcome = "updated"]
        BY <1>15 DEF DrainResume, Return
    <2> HIDE DEF R
    <2>3. call'[p].pc = "done"
        BY <1>1, <2>1, <2>2 DEF CallType
    <2>4. QED
        BY <2>3
<1>16. CASE PlainStep(p) /\ ~LookUpParent(p)
    <2>1. call'[p].pc \in {"done", "check", "register", "wire", "wired", "rollback", "rolledBack"}
        BY <1>16, PlainSteps
    <2> SUFFICES ASSUME call'[p].pc \in {"check", "register", "wire"}
                 PROVE  /\ op(p) = "workflow" /\ Valid(Workflow(p))
                        /\ call'[p].pc = "wire" => call'[p].k \in 1..Len(Wires(Workflow(p)))
        BY <2>1
    <2>2. CASE Validate(p)
        BY <1>1, <2>2 DEF Validate, Goto, Return, CallType
    <2>3. CASE CheckName(p)
        <3>1. call[p].pc = "check"
            BY <2>3 DEF CheckName, At
        <3>2. op(p) = "workflow" /\ Valid(Workflow(p))
            BY <1>3, <3>1
        <3>3. \/ call'[p] = [call[p] EXCEPT !.pc = "done", !.outcome = "failed"]
              \/ call'[p] = Advance(call[p], Len(Workflow(p).steps), "register")
            BY <1>1, <2>3 DEF CheckName, Return
        <3>4. call'[p].pc # "wire"
            BY <1>1, <3>1, <3>3 DEF Advance, CallType
        <3>5. QED
            BY <3>2, <3>4
    <2>4. CASE Register(p)
        <3> DEFINE c == [call[p] EXCEPT !.ids = Append(@, nextID + 1)]
        <3>1. call[p].pc = "register"
            BY <2>4 DEF Register, At
        <3>2. Wires(Workflow(p)) \in Seq([child : Names(Workflow(p)), parent : Names(Workflow(p)),
                                          condition : Conditions])
            BY <1>3, <3>1, PlansAssumption DEF KnownInv, CTypeOK, op, Workflow
        <3>3. \/ call'[p] = Undo(call[p])
              \/ call'[p] = Advance(c, Len(Workflow(p).steps), "wired")
              \/ /\ Wires(Workflow(p)) # <<>>
                 /\ call'[p] = Advance(c, Len(Workflow(p).steps), "wire")
            BY <1>1, <2>4 DEF Register
        <3>4. \/ call'[p].pc # "wire"
              \/ Wires(Workflow(p)) # <<>> /\ call'[p].k = 1
            BY <1>1, <3>1, <3>3 DEF Undo, Advance, CallType
        <3>5. QED
            BY <1>3, <3>1, <3>2, <3>4
    <2>5. CASE Wire(p)
        <3>1. call[p].pc = "wire" /\ call[p].k \in 1..Len(Wires(Workflow(p)))
            BY <1>3, <2>5 DEF Wire, At
        <3>2. \/ call'[p] = Undo(call[p])
              \/ call'[p] = Advance(call[p], Len(Wires(Workflow(p))), "wired")
            BY <1>1, <2>5 DEF Wire
        <3>3. \/ call'[p].pc # "wire"
              \/ call[p].k < Len(Wires(Workflow(p))) /\ call'[p].k = call[p].k + 1
            BY <1>1, <3>1, <3>2 DEF Undo, Advance, CallType
        <3>4. QED
            BY <1>3, <3>1, <3>3
    <2>6. CASE Rollback(p)
        <3>1. call[p].pc = "rollback" /\ call'[p] = Advance(call[p], Len(call[p].ids), "rolledBack")
            BY <1>1, <2>6 DEF Rollback, At
        <3>2. QED
            BY <1>1, <3>1 DEF Advance, CallType
    <2>7. CASE WorkflowReturns(p)
        BY <1>1, <2>7 DEF WorkflowReturns, Finished, CallType
    <2>8. CASE Create(p) \/ Deadline(p) \/ Start(p)
        BY <1>1, <2>8 DEF Create, Deadline, Start, Return, CallType
    <2>9. CASE SetRequest(p)
        <3> DEFINE R == Resumed(call, call[p].id)
        <3>1. R \in [Callers -> CallType]
            BY <1>1, MarksOnly
        <3>2. \E outcome : \/ call' = [R EXCEPT ![p].pc = "done", ![p].outcome = outcome]
                           \/ call' = [call EXCEPT ![p].pc = "done", ![p].outcome = outcome]
            BY <2>9 DEF SetRequest, Return
        <3> HIDE DEF R
        <3>3. call'[p].pc = "done"
            BY <1>1, <3>1, <3>2 DEF CallType
        <3>4. QED
            BY <3>3
    <2>10. CASE EdgeRequest(p)
        <3> DEFINE U == Unwired(call, call[p].id, call[p].ids[1])
        <3>1. U \in [Callers -> CallType]
            BY <1>1, MarksOnly, SMTT(60)
        <3>2. \E outcome : \/ call' = [U EXCEPT ![p].pc = "done", ![p].outcome = outcome]
                           \/ call' = [call EXCEPT ![p].pc = "done", ![p].outcome = outcome]
            BY <2>10 DEF EdgeRequest, Return
        <3> HIDE DEF U
        <3>3. call'[p].pc = "done"
            BY <1>1, <3>1, <3>2 DEF CallType
        <3>4. QED
            BY <3>3
    <2>11. QED
        BY <1>16, <2>2, <2>3, <2>4, <2>5, <2>6, <2>7, <2>8, <2>9, <2>10 DEF PlainStep
<1>17. QED
    BY <1>4, <1>5, <1>6, <1>7, <1>8, <1>9, <1>10, <1>11, <1>12, <1>13, <1>14, <1>15, <1>16
       DEF CallStep, Request, PlainStep

LEMMA KnownKept ==
    ASSUME KnownInv, NEW p \in Callers, CallStep(p)
    PROVE  KnownInv'
<1>1. /\ UNCHANGED <<plan, flight, runs, channel>>
      /\ nextID' \in Nat /\ nextID <= nextID'
    BY CallStepFrame
<1>2. CTypeOK'
    BY <1>1, TypesKept DEF KnownInv, CTypeOK
<1>3. GraphInv'
    BY RequestsStepGraph, GraphStep DEF KnownInv
<1>4. ASSUME NEW q \in Callers, q # p
      PROVE  /\ call'[q].pc = call[q].pc /\ call'[q].id = call[q].id /\ call'[q].k = call[q].k
             /\ call'[q].ids = call[q].ids /\ call'[q].covers = call[q].covers
    <2>1. call[q] \in CallType
        BY DEF KnownInv, CTypeOK
    <2>2. call'[q] \in {call[q], [call[q] EXCEPT !.disturbed = TRUE]}
        BY <1>4, OthersKeep
    <2>3. QED
        BY <2>1, <2>2 DEF CallType
<1>5. EntryKnown'
    BY <1>4, OwnKnown DEF KnownInv, EntryKnown, At
<1>6. WireKnown'
    BY <1>1, <1>4, OwnKnown DEF KnownInv, WireKnown, At, op, Workflow
<1>7. PastKnown'
    <2>1. entryIndex \subseteq 1..nextID /\ nextID \in Nat
        BY GraphAssumption DEF KnownInv, GraphInv, GTypeOK
    <2>2. /\ {r.no : r \in flight} \subseteq 1..runs
          /\ \A id : InFlight(id) \subseteq 1..runs
        BY DEF KnownInv, CTypeOK, InFlight
    <2>3. call'[p].covers \subseteq 1..runs
        BY <2>2, Learns DEF KnownInv, PastKnown
    <2>4. call'[p].id \in 0..nextID'
        <3>1. \A i \in 0..nextID : i \in 0..nextID'
            BY <1>1, <2>1
        <3>2. call[p].id \in 0..nextID /\ \A i \in entryIndex : i \in 0..nextID
            BY <2>1 DEF KnownInv, PastKnown
        <3>3. nextID' = nextID + 1 => nextID + 1 \in 0..nextID'
            BY <1>1, <2>1
        <3>4. QED
            BY <3>1, <3>2, <3>3, Learns
    <2>5. \A q \in Callers : q # p =>
             call'[q].covers \subseteq 1..runs /\ call'[q].id \in 0..nextID'
        BY <1>1, <1>4, <2>1 DEF KnownInv, PastKnown
    <2>6. QED
        BY <1>1, <2>3, <2>4, <2>5 DEF PastKnown
<1>8. QED
    BY <1>2, <1>3, <1>5, <1>6, <1>7 DEF KnownInv

LEMMA WaitsKept ==
    ASSUME CallersInv, NEW p \in Callers, CallStep(p)
    PROVE  WaitInv'
<1>1. UNCHANGED <<plan, flight, runs, channel>>
    BY CallStepFrame DEF CallersInv
<1>2. Bursts'
    BY <1>1 DEF CallersInv, WaitInv, Bursts
<1>3. \A q \in Callers : CallInv(call'[q], op(q), flight, channel, entryIndex', paused')
    BY OwnStep, OthersStep DEF CallersInv, WaitInv
<1>4. \A q \in Callers : op(q)' = op(q)
    BY <1>1 DEF op
<1>5. QED
    BY <1>1, <1>2, <1>3, <1>4 DEF WaitInv

-----------------------------------------------------------------------------
(* Runs start and end *)

\* A run leaves the graph alone, and the calls, but for a goroutine it wakes
\* and for a mark.
LEMMA RunsKeepKnown ==
    ASSUME KnownInv, UNCHANGED <<gvars, plan, paused>>, runs' \in Nat, runs <= runs',
           flight' \subseteq [no : 1..runs', id : Ids], channel' \in [Ids -> 0..runs'],
           call' \in [Callers -> CallType],
           \A q \in Callers : call'[q] \in {call[q], [call[q] EXCEPT !.waiter = "woken"],
                                            [call[q] EXCEPT !.disturbed = TRUE]}
    PROVE  KnownInv'
<1>1. call \in [Callers -> CallType]
    BY DEF KnownInv, CTypeOK
<1>2. \A q \in Callers : call'[q] \in {call[q], [call[q] EXCEPT !.waiter = "woken"],
                                       [call[q] EXCEPT !.disturbed = TRUE]}
    OBVIOUS
<1>4. CTypeOK'
    BY DEF KnownInv, CTypeOK
<1>5. GraphInv'
    BY GraphStep DEF KnownInv
<1>6. ASSUME NEW q \in Callers
      PROVE  /\ call'[q].pc = call[q].pc /\ call'[q].id = call[q].id /\ call'[q].k = call[q].k
             /\ call'[q].ids = call[q].ids /\ call'[q].covers = call[q].covers
    <2>1. call[q] \in CallType
        BY <1>1
    <2>2. \/ call'[q] = call[q] \/ call'[q] = [call[q] EXCEPT !.waiter = "woken"]
          \/ call'[q] = [call[q] EXCEPT !.disturbed = TRUE]
        BY <1>2
    <2>3. QED
        BY <2>1, <2>2 DEF CallType
<1>7. EntryKnown'
    BY <1>6 DEF KnownInv, EntryKnown, At
<1>8. WireKnown'
    BY <1>6 DEF KnownInv, WireKnown, At, op, Workflow
<1>9. PastKnown'
    BY <1>6 DEF KnownInv, CTypeOK, PastKnown, gvars
<1>10. QED
    BY <1>4, <1>5, <1>7, <1>8, <1>9 DEF KnownInv

\* RunStarts, for a step that may have marked the call.
LEMMA CallOutlivesLaunch ==
    ASSUME NEW id \in Ids, NEW q \in Callers,
           CallInv(call'[q], op(q), flight, channel, entryIndex, paused),
           Barring(call'[q], op(q)) /\ call'[q].id = id =>
               op(q) = "drain" /\ Waiting(call'[q], channel, id),
           id \in entryIndex, channel \in [Ids -> Nat],
           channel[id] = 0 <=> Of(flight, id) = {},
           runs + 1 \in Nat \ {0}, runs + 1 \notin call'[q].covers
    PROVE  CallInv(call'[q], op(q), flight \union {[no |-> runs + 1, id |-> id]},
                   [channel EXCEPT ![id] = IF @ = 0 THEN runs + 1 ELSE @], entryIndex, paused)
BY RunStarts

LEMMA LaunchKeeps ==
    ASSUME CallersInv, NEW id \in Ids, Launch(id),
           call' \in [Callers -> CallType],
           \A q \in Callers :
              /\ call'[q] \in {call[q], [call[q] EXCEPT !.disturbed = TRUE]}
              /\ Barring(call'[q], op(q)) /\ call'[q].id = id =>
                    op(q) = "drain" /\ Waiting(call'[q], channel, id)
    PROVE  CallersInv'
<1> DEFINE n == runs + 1
<1>1. /\ UNCHANGED <<gvars, plan, names, paused, running, starting>>
      /\ runs' = n /\ flight' = flight \union {[no |-> n, id |-> id]}
      /\ channel' = [channel EXCEPT ![id] = IF @ = 0 THEN n ELSE @]
      /\ id \in entryIndex
    BY DEF Launch, TrackerStart
<1>2. /\ runs \in Nat /\ flight \subseteq [no : 1..runs, id : Ids]
      /\ channel \in [Ids -> 0..runs] /\ channel \in [Ids -> Nat]
    BY DEF CallersInv, KnownInv, CTypeOK
<1>3. KnownInv'
    <2>1. runs' \in Nat /\ runs <= runs' /\ flight' \subseteq [no : 1..runs', id : Ids]
        BY <1>1, <1>2
    <2>2. channel' \in [Ids -> 0..runs']
        BY <1>1, <1>2
    <2>3. \A q \in Callers : call'[q] \in {call[q], [call[q] EXCEPT !.waiter = "woken"],
                                           [call[q] EXCEPT !.disturbed = TRUE]}
        OBVIOUS
    <2>4. QED
        BY <1>1, <2>1, <2>2, <2>3, RunsKeepKnown DEF CallersInv
<1>4. Bursts'
    <2>1. \A r, s \in flight' : r.no = s.no => r = s
        BY <1>1, <1>2 DEF CallersInv, WaitInv, Bursts
    <2>2. \A i \in Ids : i # id => Of(flight', i) = Of(flight, i) /\ channel'[i] = channel[i]
        BY <1>1, <1>2 DEF Of
    <2>3. n \in Of(flight', id) /\ channel'[id] # 0
        <3>1. [no |-> n, id |-> id] \in flight'
            BY <1>1
        <3>2. n \in Of(flight', id)
            BY <3>1 DEF Of
        <3>3. QED
            BY <1>1, <1>2, <3>2
    <2>4. QED
        BY <2>1, <2>2, <2>3 DEF CallersInv, WaitInv, Bursts
<1>5. ASSUME NEW q \in Callers
      PROVE  CallInv(call'[q], op(q), flight', channel', entryIndex, paused)
    <2>1. n \notin call[q].covers /\ n \in Nat \ {0}
        BY <1>2 DEF CallersInv, KnownInv, PastKnown
    <2>2. channel[id] = 0 <=> Of(flight, id) = {}
        BY DEF CallersInv, WaitInv, Bursts
    <2>3. call[q] \in CallType
        BY DEF CallersInv, KnownInv, CTypeOK
    <2>4. CallInv(call'[q], op(q), flight, channel, entryIndex, paused)
        BY <2>3, Marked DEF CallersInv, WaitInv
    <2>5. n \notin call'[q].covers
        BY <2>1, <2>3 DEF CallType
    <2>6. Barring(call'[q], op(q)) /\ call'[q].id = id =>
              op(q) = "drain" /\ Waiting(call'[q], channel, id)
        OBVIOUS
    <2>7. channel \in [Ids -> Nat] /\ id \in entryIndex
        BY <1>1, <1>2
    <2>8. CallInv(call'[q], op(q), flight \union {[no |-> runs + 1, id |-> id]},
                  [channel EXCEPT ![id] = IF @ = 0 THEN runs + 1 ELSE @], entryIndex, paused)
        BY <2>1, <2>2, <2>4, <2>5, <2>6, <2>7, CallOutlivesLaunch, Zenon
    <2>9. QED
        BY <1>1, <2>8
<1>6. QED
    BY <1>1, <1>3, <1>4, <1>5 DEF CallersInv, WaitInv, op, gvars

\* A paused entry does not fire, so no call bars the run.
LEMMA FireKeeps ==
    ASSUME CallersInv, NEW id \in Ids, Fire(id)
    PROVE  CallersInv'
<1>1. call \in [Callers -> CallType]
    BY DEF CallersInv, KnownInv, CTypeOK
<1>2. Launch(id) /\ call' = call /\ id \in entryIndex /\ ~paused[id]
    BY DEF Fire, Launch
<1>3. \A q \in Callers : Barring(call[q], op(q)) => call[q].id # id
    BY <1>2 DEF CallersInv, WaitInv, CallInv
<1>4. QED
    BY <1>1, <1>2, <1>3, LaunchKeeps

\* A catch-up is a run that a barring drain still waits for, or marks it.
LEMMA CatchUpKeeps ==
    ASSUME CallersInv, NEW id \in Ids, CatchUp(id)
    PROVE  CallersInv'
<1>1. call \in [Callers -> CallType]
    BY DEF CallersInv, KnownInv, CTypeOK
<1>2. Launch(id) /\ call' = PastWait(call, id) /\ id \in entryIndex
    BY DEF CatchUp, Launch
<1>3. /\ call' \in [Callers -> CallType]
      /\ \A q \in Callers : call'[q] \in {call[q], [call[q] EXCEPT !.disturbed = TRUE]}
    BY <1>1, <1>2, MarksOnly
<1>4. ASSUME NEW q \in Callers, Barring(call'[q], op(q)), call'[q].id = id
      PROVE  op(q) = "drain" /\ Waiting(call'[q], channel, id)
    <2>1. call[q] \in CallType /\ CallInv(call[q], op(q), flight, channel, entryIndex, paused)
        BY <1>1 DEF CallersInv, WaitInv
    <2>2. call[q].id = id /\ Barring(call[q], op(q))
        BY <1>3, <1>4, <2>1 DEF Barring, CallType
    <2>3. op(q) = "drain" /\ ~call'[q].disturbed
        BY <1>2, <1>4, <2>1, <2>2 DEF CallInv, Barring
    <2>4. call'[q] = call[q]
        BY <1>3, <2>1, <2>3 DEF CallType
    <2>5. ~(call[q].pc = "update" \/ (call[q].pc = "blocked" /\ call[q].ch # channel[id]))
        BY <1>2, <2>1, <2>2, <2>3, <2>4 DEF PastWait, CallType
    <2>6. QED
        BY <1>4, <2>3, <2>4, <2>5 DEF Barring, Waiting
<1>5. QED
    BY <1>2, <1>3, <1>4, LaunchKeeps

\* Waking a goroutine that sleeps promises nothing yet.
LEMMA Woken ==
    ASSUME NEW c \in CallType, NEW o, NEW fl, NEW ch, NEW ix, NEW pz,
           CallInv(c, o, fl, ch, ix, pz), c.waiter = "asleep"
    PROVE  CallInv([c EXCEPT !.waiter = "woken"], o, fl, ch, ix, pz)
BY DEF CallInv, Barring, CallType

LEMMA FinishKeeps ==
    ASSUME CallersInv, NEW r \in flight, Finish(r)
    PROVE  CallersInv'
<1>1. /\ UNCHANGED <<gvars, plan, names, paused, running, starting, runs>>
      /\ flight' = flight \ {r}
      /\ channel' = [channel EXCEPT ![r.id] = IF Of(flight, r.id) = {r.no} THEN 0 ELSE @]
      /\ call' = [q \in Callers |-> IF flight' = {} /\ call[q].waiter = "asleep"
                                    THEN [call[q] EXCEPT !.waiter = "woken"] ELSE call[q]]
    BY DEF Finish, TrackerFinish, InFlight, Of
<1>2. /\ runs \in Nat /\ flight \subseteq [no : 1..runs, id : Ids]
      /\ channel \in [Ids -> 0..runs] /\ channel \in [Ids -> Nat]
      /\ r.id \in Ids /\ flight \subseteq [no : Nat, id : Ids]
    BY DEF CallersInv, KnownInv, CTypeOK
<1>3. KnownInv'
    <2>1. runs' \in Nat /\ runs <= runs' /\ flight' \subseteq [no : 1..runs', id : Ids]
        BY <1>1, <1>2
    <2>2. channel' \in [Ids -> 0..runs']
        BY <1>1, <1>2
    <2>3. /\ call' \in [Callers -> CallType]
          /\ \A q \in Callers : call'[q] \in {call[q], [call[q] EXCEPT !.waiter = "woken"],
                                              [call[q] EXCEPT !.disturbed = TRUE]}
        <3>1. \A c \in CallType : [c EXCEPT !.waiter = "woken"] \in CallType
            BY DEF CallType, Waiters
        <3>2. call \in [Callers -> CallType]
            BY DEF CallersInv, KnownInv, CTypeOK
        <3>3. QED
            BY <1>1, <3>1, <3>2
    <2>4. QED
        BY <1>1, <2>1, <2>2, <2>3, RunsKeepKnown DEF CallersInv
<1>4. \A s, t \in flight : s.no = t.no => s = t
    BY DEF CallersInv, WaitInv, Bursts
<1>5. Bursts'
    <2>1. \A i \in Ids : channel[i] = 0 <=> Of(flight, i) = {}
        BY DEF CallersInv, WaitInv, Bursts
    <2>2. \A i \in Ids : i # r.id => Of(flight', i) = Of(flight, i) /\ channel'[i] = channel[i]
        BY <1>1, <1>2 DEF Of
    <2>3. Of(flight', r.id) = Of(flight, r.id) \ {r.no} /\ r.no \in Of(flight, r.id)
        BY <1>1, <1>4 DEF Of
    <2>4. channel'[r.id] = IF Of(flight, r.id) = {r.no} THEN 0 ELSE channel[r.id]
        BY <1>1, <1>2
    <2>5. channel'[r.id] = 0 <=> Of(flight', r.id) = {}
        BY <1>2, <2>1, <2>3, <2>4
    <2>6. \A i \in Ids : channel'[i] = 0 <=> Of(flight', i) = {}
        BY <2>1, <2>2, <2>5
    <2>7. QED
        BY <1>1, <1>4, <2>6 DEF Bursts
<1>6. ASSUME NEW q \in Callers
      PROVE  CallInv(call'[q], op(q), flight', channel', entryIndex, paused)
    <2>1. call[q] \in CallType
        BY DEF CallersInv, KnownInv, CTypeOK
    <2>2. CallInv(call[q], op(q), flight, channel, entryIndex, paused)
        BY DEF CallersInv, WaitInv
    <2>3. CallInv(call[q], op(q), flight', channel', entryIndex, paused)
        BY <1>1, <1>2, <1>4, <2>2, RunEnds
    <2>4. QED
        BY <1>1, <2>1, <2>3, Woken
<1>7. QED
    BY <1>1, <1>3, <1>5, <1>6 DEF CallersInv, WaitInv, op, gvars

-----------------------------------------------------------------------------
(* The theorems *)

LEMMA WaitsInitially == CInit => WaitInv
<1> SUFFICES ASSUME CInit PROVE WaitInv
    OBVIOUS
<1>1. Bursts
    BY DEF CInit, Bursts, Of
<1>2. \A p \in Callers : call[p] = NewCall
    BY DEF CInit
<1>3. \A o, fl, ch, ix, pz : CallInv(NewCall, o, fl, ch, ix, pz)
    BY DEF CallInv, Barring, NewCall
<1>4. QED
    BY <1>1, <1>2, <1>3 DEF WaitInv

LEMMA CallersStep == CallersInv /\ [CNext]_cvars => CallersInv'
<1> SUFFICES ASSUME CallersInv, [CNext]_cvars PROVE CallersInv'
    OBVIOUS
<1>1. ASSUME NEW p \in Callers, CallStep(p) PROVE CallersInv'
    BY <1>1, KnownKept, WaitsKept DEF CallersInv
<1>2. ASSUME NEW id \in Ids, Fire(id) PROVE CallersInv'
    BY <1>2, FireKeeps
<1>3. ASSUME NEW id \in Ids, CatchUp(id) PROVE CallersInv'
    BY <1>3, CatchUpKeeps
<1>4. ASSUME NEW r \in flight, Finish(r) PROVE CallersInv'
    BY <1>4, FinishKeeps
<1>5. CASE LoopBegins \/ UNCHANGED cvars
    <2>1. UNCHANGED <<gvars, plan, paused, call, runs, flight, channel>>
        BY <1>5 DEF LoopBegins, cvars, ownVars
    <2>2. KnownInv'
        <3>1. call' \in [Callers -> CallType]
            BY <2>1 DEF CallersInv, KnownInv, CTypeOK
        <3>2. QED
            BY <2>1, <3>1, RunsKeepKnown DEF CallersInv, KnownInv, CTypeOK
    <2>3. WaitInv'
        BY <2>1 DEF gvars, CallersInv, WaitInv, Bursts, op
    <2>4. QED
        BY <2>2, <2>3 DEF CallersInv
<1>6. QED
    BY <1>1, <1>2, <1>3, <1>4, <1>5 DEF CNext

\* Whatever the callers do at the same time, CallersInv holds: each call's part
\* of it survives the steps of all others.
THEOREM CallersInductive == CSpec => []CallersInv
<1>1. CInit => CallersInv
    BY CallersInitially, WaitsInitially DEF CallersInv
<1>2. QED
    BY <1>1, CallersStep, PTL DEF CSpec

\* The requests of upserts, drains, workflow registrations and their rollbacks,
\* removals and edge edits, interleaved in any way, are a behaviour of the
\* dependency graph: what is proved of GSpec holds of them.
THEOREM CallersImplementGraph == CSpec => GSpec
<1>1. CInit => GInit
    BY DEF CInit
<1>2. CallersInv /\ [CNext]_cvars => [GNext]_gvars
    BY RequestsStepGraph DEF CallersInv, CNext, Fire, CatchUp, Launch, LoopBegins, Finish, cvars
<1>3. QED
    BY <1>1, <1>2, CallersInductive, PTL DEF CSpec, GSpec

\* Acyclic, for a graph that concurrent calls edit.
THEOREM CallersKeepAcyclic == CSpec => []Acyclic
BY CallersInductive, PTL DEF CallersInv, KnownInv, GraphInv

\* WaitForJob, RemoveAndWait and Stop return only after the runs they wait for.
THEOREM WaitsAlwaysCover == CSpec => []WaitsCover
<1>1. CallersInv => WaitsCover
    BY DEF CallersInv, WaitInv, CallInv, WaitsCover, Numbers, InFlight, Of
<1>2. QED
    BY <1>1, CallersInductive, PTL

\* DrainAndUpsertJob never replaces a job of which a run is under way, unless
\* another caller resumed its entry, or a start of the scheduler caught up missed
\* runs of it after the drain had stopped waiting.
THEOREM NeverAStaleRun == CSpec => []NoStaleRun
<1>1. CallersInv => NoStaleRun
    BY DEF CallersInv, WaitInv, CallInv, NoStaleRun, At
<1>2. QED
    BY <1>1, CallersInductive, PTL
-----------------------------------------------------------------------------
(* Registration of workflows *)

OwnIds(c)       == {c.ids[k] : k \in DOMAIN c.ids}
IdIn(c, w, name) == c.ids[CHOOSE k \in DOMAIN w.steps : w.steps[k] = name]

\* The edge of the j-th wire is there, if both of its ends are and nobody
\* removed an edge of the workflow.
Wired(c, w, j, ix, deps) ==
    LET child  == IdIn(c, w, Wires(w)[j].child)
        parent == IdIn(c, w, Wires(w)[j].parent)
    IN  {child, parent} \subseteq ix /\ ~c.disturbed =>
            [parent |-> parent, condition |-> Wires(w)[j].condition] \in deps[child]

\* The first m steps registered are no longer there.
Gone(c, m, ix) == \A k \in 1..m : c.ids[k] \notin ix

Succeeded(c) == c.pc = "wired" \/ (c.pc = "done" /\ c.outcome # "failed")
Failed(c)    == c.pc = "rolledBack" \/ (c.pc = "done" /\ c.outcome = "failed")

\* What is true of a call c that registers the workflow w, wherever it is.
RegInv(c, w, ix, n, deps) ==
    /\ OwnIds(c) \subseteq 1..n
    /\ c.pc \in {"start", "check", "register", "wire", "wired", "rollback", "rolledBack", "done"}
    /\ c.pc \in {"start", "check"} => c.ids = <<>>
    /\ c.pc = "start" => c.k = 1
    /\ c.pc \in {"check", "register"} => c.k \in 1..Len(w.steps)
    /\ c.pc = "register" => Len(c.ids) = c.k - 1
    /\ c.pc = "wire" \/ Succeeded(c) => Valid(w) /\ Len(c.ids) = Len(w.steps)
    /\ c.pc = "wire" => /\ c.k \in 1..Len(Wires(w))
                        /\ \A j \in 1..(c.k - 1) : Wired(c, w, j, ix, deps)
    /\ Succeeded(c) => \A j \in DOMAIN Wires(w) : Wired(c, w, j, ix, deps)
    /\ c.pc = "rollback" => c.k \in 1..Len(c.ids) /\ Gone(c, c.k - 1, ix)
    /\ Failed(c) => Gone(c, Len(c.ids), ix)

RegistrationInv ==
    \A p \in Callers :
        op(p) = "workflow" => RegInv(call[p], Workflow(p), entryIndex, nextID, entryDeps)

\* What PlansAssumption says of the workflow of a call.
WellFormed(w) ==
    /\ w.steps \in Seq(Names(w))
    /\ Valid(w) => Wires(w) \in Seq([child : Names(w), parent : Names(w), condition : Conditions])

LEMMA PlansWellFormed ==
    ASSUME KnownInv, NEW p \in Callers, op(p) = "workflow"
    PROVE  WellFormed(Workflow(p))
BY PlansAssumption DEF KnownInv, CTypeOK, op, Workflow, WellFormed

\* The ends of a wire are steps that the call registered.
LEMMA WiresOwn ==
    ASSUME NEW c \in CallType, NEW w, WellFormed(w), Valid(w), Len(c.ids) = Len(w.steps),
           NEW j \in 1..Len(Wires(w))
    PROVE  /\ IdIn(c, w, Wires(w)[j].child) \in OwnIds(c)
           /\ IdIn(c, w, Wires(w)[j].parent) \in OwnIds(c)
<1>1. DOMAIN c.ids = 1..Len(c.ids) /\ DOMAIN w.steps = 1..Len(w.steps)
    BY DEF CallType, WellFormed
<1>2. ASSUME NEW name \in Names(w)
      PROVE  IdIn(c, w, name) \in OwnIds(c)
    <2>1. (CHOOSE k \in DOMAIN w.steps : w.steps[k] = name) \in DOMAIN w.steps
        BY <1>2 DEF Names
    <2>2. QED
        BY <1>1, <2>1 DEF IdIn, OwnIds
<1>3. Wires(w)[j].child \in Names(w) /\ Wires(w)[j].parent \in Names(w)
    <2> DEFINE W == [child : Names(w), parent : Names(w), condition : Conditions]
    <2>1. Wires(w) \in Seq(W)
        BY DEF WellFormed
    <2>2. Wires(w)[j] \in W
        <3>1. \A T, s : s \in Seq(T) => \A i \in 1..Len(s) : s[i] \in T
            OBVIOUS
        <3>2. QED
            BY <2>1, <3>1
    <2>3. QED
        BY <2>2
<1>4. QED
    BY <1>2, <1>3

\* The graph changes, and nothing of the call but marks: entries that were gone
\* stay gone, and the edges of the call stay unless it is marked.
LEMMA RegKept ==
    ASSUME NEW c \in CallType, NEW d \in CallType, NEW w, WellFormed(w),
           NEW ix, NEW n \in Nat, NEW deps, NEW ix2, NEW n2 \in Nat, NEW deps2,
           RegInv(c, w, ix, n, deps), n <= n2,
           \A id \in 1..n : id \notin ix => id \notin ix2,
           d.pc = c.pc, d.ids = c.ids, d.k = c.k, d.outcome = c.outcome,
           c.disturbed => d.disturbed,
           ~d.disturbed => \A child, parent \in OwnIds(c) : \A condition :
               {child, parent} \subseteq ix2
               /\ [parent |-> parent, condition |-> condition] \in deps[child]
               => [parent |-> parent, condition |-> condition] \in deps2[child]
    PROVE  RegInv(d, w, ix2, n2, deps2)
<1>1. OwnIds(c) \subseteq 1..n /\ OwnIds(d) = OwnIds(c)
    BY DEF RegInv, OwnIds
<1>2. ASSUME Valid(w), Len(c.ids) = Len(w.steps), NEW j \in 1..Len(Wires(w)),
             Wired(c, w, j, ix, deps)
      PROVE  Wired(d, w, j, ix2, deps2)
    <2> DEFINE child  == IdIn(c, w, Wires(w)[j].child)
               parent == IdIn(c, w, Wires(w)[j].parent)
               edge   == [parent |-> parent, condition |-> Wires(w)[j].condition]
    <2>1. child \in OwnIds(c) /\ parent \in OwnIds(c)
        BY <1>2, WiresOwn
    <2>2. child = IdIn(d, w, Wires(w)[j].child) /\ parent = IdIn(d, w, Wires(w)[j].parent)
        BY DEF IdIn
    <2>3. {child, parent} \subseteq ix2 => {child, parent} \subseteq ix
        BY <1>1, <2>1
    <2>4. {child, parent} \subseteq ix /\ ~c.disturbed => edge \in deps[child]
        BY <1>2 DEF Wired
    <2>5. SUFFICES ASSUME {child, parent} \subseteq ix2, ~d.disturbed PROVE edge \in deps2[child]
        BY <2>2 DEF Wired
    <2>6. edge \in deps[child]
        BY <2>3, <2>4, <2>5
    <2> HIDE DEF child, parent
    <2>7. QED
        BY <2>1, <2>5, <2>6
<1>3. ASSUME NEW m \in Nat, m <= Len(c.ids), Gone(c, m, ix)
      PROVE  Gone(d, m, ix2)
    <2>1. \A k \in 1..m : c.ids[k] \in OwnIds(c)
        BY <1>3 DEF OwnIds, CallType
    <2>2. QED
        BY <1>1, <1>3, <2>1 DEF Gone
<1>4. Len(c.ids) \in Nat /\ c.k \in Nat
    BY DEF CallType
<1>5. ASSUME c.pc = "wire", NEW j \in 1..(c.k - 1)
      PROVE  Wired(d, w, j, ix2, deps2)
    <2>1. /\ Valid(w) /\ Len(c.ids) = Len(w.steps) /\ Wired(c, w, j, ix, deps)
          /\ c.k \in 1..Len(Wires(w))
        BY <1>5 DEF RegInv
    <2>2. j \in 1..Len(Wires(w))
        BY <1>4, <2>1
    <2>3. QED
        BY <1>2, <2>1, <2>2
<1>6. ASSUME Succeeded(c), NEW j \in DOMAIN Wires(w)
      PROVE  Wired(d, w, j, ix2, deps2)
    <2>1. Valid(w) /\ Len(c.ids) = Len(w.steps) /\ Wired(c, w, j, ix, deps)
        BY <1>6 DEF RegInv
    <2>2. j \in 1..Len(Wires(w))
        BY <2>1 DEF WellFormed
    <2>3. QED
        BY <1>2, <2>1, <2>2
<1>7. c.pc = "rollback" => Gone(d, c.k - 1, ix2)
    <2>1. c.pc = "rollback" => c.k - 1 \in Nat /\ c.k - 1 <= Len(c.ids) /\ Gone(c, c.k - 1, ix)
        BY <1>4 DEF RegInv
    <2>2. QED
        BY <1>3, <2>1
<1>8. Failed(c) => Gone(d, Len(c.ids), ix2)
    BY <1>3, <1>4 DEF RegInv
<1>9. OwnIds(d) \subseteq 1..n2
    BY <1>1
<1>10. (Succeeded(d) <=> Succeeded(c)) /\ (Failed(d) <=> Failed(c))
    BY DEF Succeeded, Failed
<1>11. QED
    BY <1>5, <1>6, <1>7, <1>8, <1>9, <1>10 DEF RegInv

\* An edge between entries that stay is lost to nothing but its removal.
LEMMA EdgeKept ==
    ASSUME GTypeOK, NEW child \in Ids, NEW parent \in Ids, NEW condition,
           {child, parent} \subseteq entryIndex',
           [parent |-> parent, condition |-> condition] \in entryDeps[child],
           \/ UNCHANGED gvars \/ AddEntry
           \/ \E id : RemoveEntry(id)
           \/ \E i, j : \E k : AddDependency(i, j, k)
           \/ \E i, j : RemoveDependency(i, j) /\ ~(i = child /\ j = parent)
    PROVE  [parent |-> parent, condition |-> condition] \in entryDeps'[child]
<1> DEFINE edge == [parent |-> parent, condition |-> condition]
<1>1. entryDeps \in [Ids -> SUBSET Dependency] /\ edge \in entryDeps[child] /\ edge.parent = parent
    BY DEF GTypeOK
<1>2. CASE UNCHANGED gvars \/ AddEntry
    BY <1>2 DEF gvars, AddEntry
<1>3. ASSUME NEW id, RemoveEntry(id)
      PROVE  edge \in entryDeps'[child]
    <2>1. child # id /\ parent # id
        BY <1>3 DEF RemoveEntry
    <2>2. entryDeps'[child] \in {entryDeps[child], Without(entryDeps[child], id)}
        BY <1>1, <1>3, <2>1 DEF RemoveEntry, RemoveEdges
    <2> HIDE DEF edge
    <2>3. QED
        BY <1>1, <2>1, <2>2 DEF Without
<1>4. ASSUME NEW i, NEW j, NEW k, AddDependency(i, j, k)
      PROVE  edge \in entryDeps'[child]
    BY <1>1, <1>4 DEF AddDependency
<1>5. ASSUME NEW i, NEW j, RemoveDependency(i, j), ~(i = child /\ j = parent)
      PROVE  edge \in entryDeps'[child]
    <2>1. entryDeps'[child] = IF i = child THEN Without(entryDeps[child], j) ELSE entryDeps[child]
        BY <1>1, <1>5 DEF RemoveDependency
    <2> HIDE DEF edge
    <2>2. QED
        BY <1>1, <1>5, <2>1 DEF Without
<1>6. QED
    BY <1>2, <1>3, <1>4, <1>5

\* Who removes an edge marks the workflows it belongs to.
LEMMA RemovalMarks ==
    ASSUME KnownInv, NEW q \in Callers, CallStep(q), NEW p \in Callers, p # q
    PROVE  \/ UNCHANGED gvars \/ AddEntry
           \/ \E id : RemoveEntry(id)
           \/ \E i, j : \E k : AddDependency(i, j, k)
           \/ \E i, j : RemoveDependency(i, j) /\ call'[p] = Unwired(call, i, j)[p]
<1>1. call \in [Callers -> CallType]
    BY DEF KnownInv, CTypeOK
<1>2. \A name : ScheduleJob(name) => AddEntry
    BY DEF ScheduleJob
<1>3. CASE EdgeRequest(q)
    <2>1. ASSUME NEW i, NEW j, call' = [Unwired(call, i, j) EXCEPT ![q].pc = "done", ![q].outcome = "removed"]
          PROVE  call'[p] = Unwired(call, i, j)[p]
        <3> DEFINE U == Unwired(call, i, j)
        <3>1. U \in [Callers -> CallType]
            BY <1>1, MarksOnly
        <3> HIDE DEF U
        <3>2. call' = [U EXCEPT ![q].pc = "done", ![q].outcome = "removed"]
            BY <2>1 DEF U
        <3>3. call'[p] = U[p]
            BY <3>1, <3>2
        <3>4. QED
            BY <3>3 DEF U
    <2> DEFINE child  == call[q].id
               parent == call[q].ids[1]
    <2>2. \/ \E condition \in Conditions : AddDependency(child, parent, condition)
          \/ UNCHANGED gvars
          \/ /\ RemoveDependency(child, parent)
             /\ call' = [Unwired(call, child, parent)
                           EXCEPT ![q].pc = "done", ![q].outcome = "removed"]
        BY <1>3, Zenon DEF EdgeRequest
    <2> HIDE DEF child, parent
    <2>3. QED
        BY <2>1, <2>2, Zenon
<1>4. CASE Edit(q)
    BY <1>2, <1>4, Zenon DEF Edit
<1>5. CASE ~EdgeRequest(q) /\ ~Edit(q)
    BY <1>2, <1>5, Zenon DEF CallStep, Request, Remove, LookUp, Create, Update, RemoveRequest, SetRequest,
        LookUpParent, DrainPause, DrainFind, DrainResume, TakeChannel, ChannelClosed, Deadline,
        Stop, GroupWait, GroupReturn, StopReturns, Start, Validate, CheckName, Register, Wire,
        Rollback, WorkflowReturns
<1>6. QED
    BY <1>3, <1>4, <1>5

LEMMA OthersKeepReg ==
    ASSUME KnownInv, RegistrationInv, NEW q \in Callers, CallStep(q),
           NEW p \in Callers, p # q, op(p) = "workflow"
    PROVE  RegInv(call'[p], Workflow(p), entryIndex', nextID', entryDeps')
<1>1. /\ RegInv(call[p], Workflow(p), entryIndex, nextID, entryDeps) /\ WellFormed(Workflow(p))
      /\ GTypeOK /\ call \in [Callers -> CallType] /\ call[p] \in CallType
    BY PlansWellFormed DEF RegistrationInv, KnownInv, CTypeOK, GraphInv
<1>2. call'[p] \in {call[p], [call[p] EXCEPT !.disturbed = TRUE]} /\ call'[p] \in CallType
    BY OthersKeep, TypesKept
<1>3. nextID \in Nat /\ nextID' \in Nat /\ nextID <= nextID'
      /\ \A id \in 1..nextID : id \notin entryIndex => id \notin entryIndex'
    BY <1>1, CallStepFrame, GraphAssumption DEF GTypeOK
<1>4. OwnIds(call[p]) \subseteq Ids
    BY <1>1 DEF OwnIds, CallType
<1>5. ASSUME ~call'[p].disturbed, NEW child \in OwnIds(call[p]), NEW parent \in OwnIds(call[p]),
             NEW condition, {child, parent} \subseteq entryIndex',
             [parent |-> parent, condition |-> condition] \in entryDeps[child]
      PROVE  [parent |-> parent, condition |-> condition] \in entryDeps'[child]
    <2>1. ASSUME NEW i, NEW j, call'[p] = Unwired(call, i, j)[p]
          PROVE  ~(i = child /\ j = parent)
        <3>1. SUFFICES ASSUME i = child, j = parent PROVE FALSE
            OBVIOUS
        <3>2. {i, j} \subseteq {call[p].ids[k] : k \in DOMAIN call[p].ids}
            BY <1>5, <3>1 DEF OwnIds
        <3>3. call'[p] = [call[p] EXCEPT !.disturbed = TRUE]
            BY <2>1, <3>2 DEF Unwired
        <3>4. QED
            BY <1>1, <1>5, <3>3 DEF CallType
    <2>2. child \in Ids /\ parent \in Ids
        BY <1>4
    <2>3. QED
        BY <1>1, <1>5, <2>1, <2>2, RemovalMarks, EdgeKept
<1>6. /\ call'[p].pc = call[p].pc /\ call'[p].ids = call[p].ids /\ call'[p].k = call[p].k
      /\ call'[p].outcome = call[p].outcome /\ (call[p].disturbed => call'[p].disturbed)
    BY <1>1, <1>2 DEF CallType
<1>7. QED
    BY <1>1, <1>2, <1>3, <1>5, <1>6, RegKept

\* The goroutine of a stop is none of a workflow's business.
LEMMA WaiterKeepsReg ==
    ASSUME NEW c \in CallType, NEW w, WellFormed(w), NEW ix, NEW n \in Nat, NEW deps,
           NEW s \in Waiters, RegInv(c, w, ix, n, deps)
    PROVE  RegInv([c EXCEPT !.waiter = s], w, ix, n, deps)
<1> DEFINE d == [c EXCEPT !.waiter = s]
<1>1. /\ d \in CallType /\ d.pc = c.pc /\ d.ids = c.ids /\ d.k = c.k /\ d.outcome = c.outcome
      /\ d.disturbed = c.disturbed
    BY DEF CallType
<1> HIDE DEF d
<1>2. RegInv(d, w, ix, n, deps)
    BY <1>1, RegKept
<1>3. QED
    BY <1>2 DEF d

\* Where the call of a workflow can be, only a few operations apply.
LEMMA OwnActions ==
    ASSUME NEW p \in Callers, CallStep(p), op(p) = "workflow",
           call[p].pc \in {"start", "check", "register", "wire", "wired", "rollback",
                           "rolledBack", "done"}
    PROVE  \/ Validate(p) \/ CheckName(p) \/ Register(p) \/ Wire(p) \/ Rollback(p)
           \/ WorkflowReturns(p) \/ GroupWait(p) \/ GroupReturn(p)
<1>1. ~LookUp(p)
    BY DEF LookUp, Present
<1>2. ~Stop(p) /\ ~Start(p) /\ ~Deadline(p) /\ ~StopReturns(p) /\ ~Edit(p)
    BY DEF Stop, Start, Deadline, StopReturns, Edit, At
<1>3. ~Create(p) /\ ~Update(p) /\ ~RemoveRequest(p) /\ ~SetRequest(p) /\ ~LookUpParent(p)
    BY DEF Create, Update, RemoveRequest, SetRequest, LookUpParent, At
<1>4. ~EdgeRequest(p) /\ ~DrainPause(p) /\ ~DrainFind(p) /\ ~DrainResume(p)
    BY DEF EdgeRequest, DrainPause, DrainFind, DrainResume, At
<1>5. ~TakeChannel(p) /\ ~ChannelClosed(p)
    BY DEF TakeChannel, ChannelClosed, At
<1>6. QED
    BY <1>1, <1>2, <1>3, <1>4, <1>5, Zenon DEF CallStep, Request

\* A call that gives up owes the removal of all it registered, or nothing.
LEMMA RegUndone ==
    ASSUME NEW c \in CallType, NEW w, NEW ix, NEW n, NEW deps, OwnIds(c) \subseteq 1..n
    PROVE  RegInv(Undo(c), w, ix, n, deps)
<1> DEFINE d == Undo(c)
<1>1. d.ids = c.ids
    BY DEF Undo, CallType
<1>2. OwnIds(d) \subseteq 1..n
    BY <1>1 DEF OwnIds
<1>3. Len(c.ids) \in Nat /\ (c.ids # <<>> => Len(c.ids) >= 1)
    BY DEF CallType
<1>4. CASE c.ids = <<>>
    <2>1. d.pc = "done" /\ d.outcome = "failed"
        BY <1>4 DEF Undo, CallType
    <2>2. Gone(d, Len(d.ids), ix)
        BY <1>1, <1>4 DEF Gone
    <2> HIDE DEF d
    <2>3. RegInv(d, w, ix, n, deps)
        BY <1>2, <2>1, <2>2 DEF RegInv, Succeeded, Failed
    <2>4. QED
        BY <2>3 DEF d
<1>5. CASE c.ids # <<>>
    <2>1. d.pc = "rollback" /\ d.k = 1
        BY <1>5 DEF Undo, CallType
    <2>2. d.k \in 1..Len(d.ids) /\ Gone(d, d.k - 1, ix)
        BY <1>1, <1>3, <1>5, <2>1 DEF Gone
    <2> HIDE DEF d
    <2>3. RegInv(d, w, ix, n, deps)
        BY <1>2, <2>1, <2>2 DEF RegInv, Succeeded, Failed
    <2>4. QED
        BY <2>3 DEF d
<1>6. QED
    BY <1>4, <1>5

\* The call has one more entry.
LEMMA RegRegisters ==
    ASSUME NEW c \in CallType, NEW w, WellFormed(w), Valid(w), NEW ix, NEW n \in Nat, NEW deps,
           RegInv(c, w, ix, n, deps), c.pc = "register", NEW ix2, NEW deps2, n + 1 \in Ids
    PROVE  RegInv(Advance([c EXCEPT !.ids = Append(@, n + 1)], Len(w.steps),
                          IF Wires(w) = <<>> THEN "wired" ELSE "wire"),
                  w, ix2, n + 1, deps2)
<1> DEFINE phase == IF Wires(w) = <<>> THEN "wired" ELSE "wire"
           r == [c EXCEPT !.ids = Append(@, n + 1)]
           d == Advance(r, Len(w.steps), phase)
<1>1. /\ OwnIds(c) \subseteq 1..n /\ c.k \in 1..Len(w.steps) /\ Len(c.ids) = c.k - 1
      /\ Len(w.steps) \in Nat /\ Len(Wires(w)) \in Nat /\ DOMAIN Wires(w) = 1..Len(Wires(w))
      /\ c.ids \in Seq(Ids) /\ c.k \in Nat
    BY DEF RegInv, WellFormed, CallType
<1>2. /\ r.ids = Append(c.ids, n + 1) /\ r.pc = "register" /\ r.k = c.k
    BY DEF CallType
<1>3. /\ d.ids = r.ids
      /\ IF c.k < Len(w.steps) THEN d.pc = "register" /\ d.k = c.k + 1
                               ELSE d.pc = phase /\ d.k = 1
    BY <1>2 DEF Advance, CallType
<1>4. Len(d.ids) = c.k
    BY <1>1, <1>2, <1>3, SMTT(60)
<1>5. OwnIds(d) \subseteq 1..(n + 1)
    <2>1. \A k \in DOMAIN d.ids : d.ids[k] \in 1..(n + 1)
        <3>1. \A s \in Seq(Ids), e \in Ids : \A k \in DOMAIN Append(s, e) :
                 Append(s, e)[k] = e \/ (k \in DOMAIN s /\ Append(s, e)[k] = s[k])
            OBVIOUS
        <3>2. d.ids = Append(c.ids, n + 1)
            BY <1>2, <1>3
        <3>3. \A k \in DOMAIN c.ids : c.ids[k] \in 1..n
            BY <1>1 DEF OwnIds
        <3> HIDE DEF d
        <3>4. QED
            BY <1>1, <3>1, <3>2, <3>3
    <2>2. QED
        BY <2>1 DEF OwnIds
<1>6. Wires(w) # <<>> => Len(Wires(w)) >= 1
    BY DEF WellFormed
<1> SUFFICES RegInv(d, w, ix2, n + 1, deps2)
    OBVIOUS
<1> HIDE DEF r, d
<1>7. CASE c.k < Len(w.steps)
    BY <1>1, <1>3, <1>4, <1>5, <1>7 DEF RegInv, Succeeded, Failed
<1>8. CASE ~(c.k < Len(w.steps)) /\ Wires(w) = <<>>
    <2>1. d.pc = "wired" /\ Len(d.ids) = Len(w.steps) /\ DOMAIN Wires(w) = {}
        BY <1>1, <1>3, <1>4, <1>8
    <2>2. QED
        BY <1>5, <2>1 DEF RegInv, Succeeded, Failed
<1>9. CASE ~(c.k < Len(w.steps)) /\ Wires(w) # <<>>
    <2>1. d.pc = "wire" /\ d.k = 1 /\ Len(d.ids) = Len(w.steps) /\ d.k \in 1..Len(Wires(w))
        BY <1>1, <1>3, <1>4, <1>6, <1>9
    <2>2. \A j \in 1..(d.k - 1) : FALSE
        BY <2>1
    <2>3. QED
        BY <1>5, <2>1, <2>2 DEF RegInv, Succeeded, Failed
<1>10. QED
    BY <1>7, <1>8, <1>9

\* The call has one more edge.
LEMMA RegWires ==
    ASSUME GTypeOK, NEW c \in CallType, NEW w, WellFormed(w), Valid(w), c.pc = "wire",
           RegInv(c, w, entryIndex, nextID, entryDeps),
           AddDependency(IdIn(c, w, Wires(w)[c.k].child), IdIn(c, w, Wires(w)[c.k].parent),
                         Wires(w)[c.k].condition)
    PROVE  RegInv(Advance(c, Len(Wires(w)), "wired"), w, entryIndex', nextID', entryDeps')
<1> DEFINE d == Advance(c, Len(Wires(w)), "wired")
           kid(j) == IdIn(c, w, Wires(w)[j].child)
           dad(j) == IdIn(c, w, Wires(w)[j].parent)
<1>1. /\ OwnIds(c) \subseteq 1..nextID /\ Len(c.ids) = Len(w.steps)
      /\ c.k \in 1..Len(Wires(w)) /\ \A j \in 1..(c.k - 1) : Wired(c, w, j, entryIndex, entryDeps)
      /\ Len(Wires(w)) \in Nat /\ DOMAIN Wires(w) = 1..Len(Wires(w)) /\ c.k \in Nat
    BY DEF RegInv, WellFormed, CallType
<1>2. /\ d.ids = c.ids /\ d.disturbed = c.disturbed
      /\ IF c.k < Len(Wires(w)) THEN d.pc = "wire" /\ d.k = c.k + 1 ELSE d.pc = "wired"
    BY DEF Advance, CallType
<1>3. entryIndex' = entryIndex /\ nextID' = nextID
    BY DEF AddDependency
<1>4. \A j \in 1..Len(Wires(w)) : kid(j) \in Ids /\ dad(j) \in Ids
    <2>1. OwnIds(c) \subseteq Ids
        BY DEF OwnIds, CallType
    <2>2. QED
        BY <1>1, <2>1, WiresOwn
<1>5. \A j \in 1..Len(Wires(w)) :
         kid(j) = IdIn(d, w, Wires(w)[j].child) /\ dad(j) = IdIn(d, w, Wires(w)[j].parent)
    BY <1>2 DEF IdIn
<1> HIDE DEF d
<1>6. ASSUME NEW j \in 1..c.k
      PROVE  Wired(d, w, j, entryIndex', entryDeps')
    <2> DEFINE edge == [parent |-> dad(j), condition |-> Wires(w)[j].condition]
    <2>1. j \in 1..Len(Wires(w))
        BY <1>1
    <2>2. SUFFICES ASSUME {kid(j), dad(j)} \subseteq entryIndex', ~c.disturbed
                   PROVE  edge \in entryDeps'[kid(j)]
        BY <1>2, <1>5, <2>1 DEF Wired
    <2>3. kid(j) \in Ids /\ dad(j) \in Ids
        BY <1>4, <2>1
    <2>4. CASE j = c.k
        <3>1. AddDependency(kid(j), dad(j), Wires(w)[j].condition)
            BY <2>4
        <3> HIDE DEF kid, dad
        <3>2. QED
            BY <2>3, <3>1 DEF AddDependency, GTypeOK
    <2>5. CASE j # c.k
        <3>1. j \in 1..(c.k - 1)
            BY <1>1, <2>5
        <3>2. edge \in entryDeps[kid(j)]
            BY <1>1, <1>3, <2>2, <3>1 DEF Wired
        <3> HIDE DEF kid, dad
        <3>3. QED
            BY <2>2, <2>3, <3>2, EdgeKept
    <2>6. QED
        BY <2>4, <2>5
<1>7. OwnIds(d) \subseteq 1..nextID'
    BY <1>1, <1>2, <1>3 DEF OwnIds
<1> SUFFICES RegInv(d, w, entryIndex', nextID', entryDeps')
    BY DEF d
<1>8. CASE c.k < Len(Wires(w))
    <2>1. d.pc = "wire" /\ d.k \in 1..Len(Wires(w)) /\ d.k - 1 = c.k
        BY <1>1, <1>2, <1>8
    <2>2. QED
        BY <1>1, <1>2, <1>6, <1>7, <2>1 DEF RegInv, Succeeded, Failed
<1>9. CASE ~(c.k < Len(Wires(w)))
    <2>1. d.pc = "wired" /\ DOMAIN Wires(w) = 1..c.k
        BY <1>1, <1>2, <1>9
    <2>2. QED
        BY <1>1, <1>2, <1>6, <1>7, <2>1 DEF RegInv, Succeeded, Failed
<1>10. QED
    BY <1>8, <1>9

\* One more of the entries that the call registered is gone.
LEMMA RegRollsBack ==
    ASSUME GTypeOK, NEW c \in CallType, NEW w, c.pc = "rollback",
           RegInv(c, w, entryIndex, nextID, entryDeps), Remove(c.ids[c.k])
    PROVE  RegInv(Advance(c, Len(c.ids), "rolledBack"), w, entryIndex', nextID', entryDeps')
<1> DEFINE d == Advance(c, Len(c.ids), "rolledBack")
<1>1. /\ OwnIds(c) \subseteq 1..nextID /\ c.k \in 1..Len(c.ids) /\ Gone(c, c.k - 1, entryIndex)
      /\ Len(c.ids) \in Nat /\ c.k \in Nat
    BY DEF RegInv, CallType
<1>2. /\ d.ids = c.ids
      /\ IF c.k < Len(c.ids) THEN d.pc = "rollback" /\ d.k = c.k + 1 ELSE d.pc = "rolledBack"
    BY DEF Advance, CallType
<1>3. entryIndex' = entryIndex \ {c.ids[c.k]} /\ nextID' = nextID
    BY DEF Remove, RemoveEntry, gvars
<1> HIDE DEF d
<1>4. Gone(d, c.k, entryIndex')
    BY <1>1, <1>2, <1>3 DEF Gone
<1>5. OwnIds(d) \subseteq 1..nextID'
    BY <1>1, <1>2, <1>3 DEF OwnIds
<1> SUFFICES RegInv(d, w, entryIndex', nextID', entryDeps')
    BY DEF d
<1>6. CASE c.k < Len(c.ids)
    <2>1. d.pc = "rollback" /\ d.k \in 1..Len(d.ids) /\ d.k - 1 = c.k
        BY <1>1, <1>2, <1>6
    <2>2. QED
        BY <1>4, <1>5, <2>1 DEF RegInv, Succeeded, Failed
<1>7. CASE ~(c.k < Len(c.ids))
    <2>1. d.pc = "rolledBack" /\ Len(d.ids) = c.k
        BY <1>1, <1>2, <1>7
    <2>2. QED
        BY <1>4, <1>5, <2>1 DEF RegInv, Succeeded, Failed
<1>8. QED
    BY <1>6, <1>7

LEMMA OwnKeepsReg ==
    ASSUME KnownInv, RegistrationInv, NEW p \in Callers, CallStep(p), op(p) = "workflow"
    PROVE  RegInv(call'[p], Workflow(p), entryIndex', nextID', entryDeps')
<1> DEFINE c == call[p]
           w == Workflow(p)
<1>1. /\ RegInv(c, w, entryIndex, nextID, entryDeps) /\ WellFormed(w)
      /\ GTypeOK /\ call \in [Callers -> CallType] /\ c \in CallType /\ nextID \in Nat
    BY PlansWellFormed, GraphAssumption DEF RegistrationInv, KnownInv, CTypeOK, GraphInv, GTypeOK
<1>2. c.pc \in {"check", "register", "wire"} => Valid(w)
    BY DEF KnownInv, WireKnown
<1>3. OwnIds(c) \subseteq 1..nextID
    BY <1>1 DEF RegInv
<1>4. \A d \in CallType : \A n : UNCHANGED gvars /\ call' = [call EXCEPT ![p] = d] =>
         /\ call'[p] = d
         /\ RegInv(d, w, entryIndex, nextID, entryDeps)
               => RegInv(call'[p], w, entryIndex', nextID', entryDeps')
    BY <1>1 DEF gvars
<1>5. CASE Validate(p)
    <2>1. c.ids = <<>> /\ c.k = 1
        BY <1>1, <1>5 DEF Validate, At, RegInv
    <2>2. CASE Valid(w)
        <3>1. call'[p] = [c EXCEPT !.pc = "check"] /\ UNCHANGED gvars
            BY <1>1, <1>5, <2>2 DEF Validate, Goto
        <3>2. Len(w.steps) \in Nat /\ Len(w.steps) >= 1
            BY <1>1, <2>2 DEF Valid, WellFormed
        <3> DEFINE d == call'[p]
        <3>3. d.pc = "check" /\ d.ids = <<>> /\ d.k = 1
            BY <1>1, <2>1, <3>1 DEF CallType
        <3>4. OwnIds(d) = {}
            BY <3>3 DEF OwnIds
        <3> HIDE DEF d
        <3>5. RegInv(d, w, entryIndex', nextID', entryDeps')
            BY <3>2, <3>3, <3>4 DEF RegInv, Succeeded, Failed
        <3>6. QED
            BY <3>5 DEF d
    <2>3. CASE ~Valid(w)
        <3>1. call'[p] = Undo(c) /\ UNCHANGED gvars
            BY <1>1, <1>5, <2>1, <2>3 DEF Validate, Return, Undo
        <3>2. QED
            BY <1>1, <1>3, <3>1, RegUndone DEF gvars
    <2>4. QED
        BY <2>2, <2>3
<1>6. CASE CheckName(p)
    <2>1. c.ids = <<>> /\ c.k \in 1..Len(w.steps) /\ c.pc = "check"
        BY <1>1, <1>6 DEF CheckName, At, RegInv
    <2>2. CASE EntryByName(w.steps[c.k]) # 0
        <3>1. call'[p] = Undo(c) /\ UNCHANGED gvars
            BY <1>1, <1>6, <2>1, <2>2 DEF CheckName, Return, Undo
        <3>2. QED
            BY <1>1, <1>3, <3>1, RegUndone DEF gvars
    <2>3. CASE ~(EntryByName(w.steps[c.k]) # 0)
        <3>1. call'[p] = Advance(c, Len(w.steps), "register") /\ UNCHANGED gvars
            BY <1>1, <1>6, <2>3 DEF CheckName
        <3>2. Len(w.steps) \in Nat /\ c.k \in Nat
            BY <1>1 DEF WellFormed, CallType
        <3> DEFINE d == call'[p]
        <3>3. /\ d.ids = <<>>
              /\ IF c.k < Len(w.steps) THEN d.pc = "check" /\ d.k = c.k + 1
                                       ELSE d.pc = "register" /\ d.k = 1
            BY <1>1, <2>1, <3>1 DEF CallType, Advance
        <3>4. d.k \in 1..Len(w.steps) /\ (d.pc = "register" => Len(d.ids) = d.k - 1)
            BY <2>1, <3>2, <3>3
        <3>5. OwnIds(d) = {}
            BY <3>3 DEF OwnIds
        <3>6. d.pc \in {"check", "register"}
            BY <3>3
        <3> HIDE DEF d
        <3>7. RegInv(d, w, entryIndex', nextID', entryDeps')
            BY <3>3, <3>4, <3>5, <3>6 DEF RegInv, Succeeded, Failed
        <3>8. QED
            BY <3>7 DEF d
    <2>4. QED
        BY <2>2, <2>3
<1>7. CASE Register(p)
    <2>1. c.pc = "register"
        BY <1>7 DEF Register, At
    <2>2. CASE UNCHANGED gvars /\ call'[p] = Undo(c)
        BY <1>1, <1>3, <2>2, RegUndone DEF gvars
    <2>3. CASE /\ ScheduleJob(w.steps[c.k])
               /\ call'[p] = Advance([c EXCEPT !.ids = Append(@, nextID + 1)], Len(w.steps),
                                     IF Wires(w) = <<>> THEN "wired" ELSE "wire")
        <3>1. nextID' = nextID + 1
            BY <2>3 DEF ScheduleJob, AddEntry
        <3>2. nextID + 1 \in Ids
            BY <3>1, NextIdKnown
        <3>3. QED
            BY <1>1, <1>2, <2>1, <2>3, <3>1, <3>2, RegRegisters, ZenonT(60)
    <2>4. QED
        BY <1>1, <1>7, <2>2, <2>3 DEF Register
<1>8. CASE Wire(p)
    <2>1. c.pc = "wire"
        BY <1>8 DEF Wire, At
    <2>2. CASE UNCHANGED gvars /\ call'[p] = Undo(c)
        BY <1>1, <1>3, <2>2, RegUndone DEF gvars
    <2>3. CASE /\ AddDependency(IdIn(c, w, Wires(w)[c.k].child), IdIn(c, w, Wires(w)[c.k].parent),
                                Wires(w)[c.k].condition)
               /\ call'[p] = Advance(c, Len(Wires(w)), "wired")
        BY <1>1, <1>2, <2>1, <2>3, RegWires
    <2>4. QED
        BY <1>1, <1>8, <2>2, <2>3, ZenonT(60) DEF Wire, IdOf, IdIn
<1>9. CASE Rollback(p)
    <2>1. /\ c.pc = "rollback" /\ Remove(c.ids[c.k])
          /\ call'[p] = Advance(c, Len(c.ids), "rolledBack")
        BY <1>1, <1>9 DEF Rollback, At
    <2>2. QED
        BY <1>1, <2>1, RegRollsBack
<1>10. CASE WorkflowReturns(p)
    <2>1. /\ call'[p] = Finished(c) /\ UNCHANGED gvars /\ c.pc \in {"wired", "rolledBack"}
        BY <1>1, <1>10 DEF WorkflowReturns
    <2> DEFINE d == call'[p]
    <2>2. /\ d.ids = c.ids /\ d.disturbed = c.disturbed /\ d.pc = "done"
          /\ d.outcome = IF c.pc = "wired" THEN "added" ELSE "failed"
        BY <1>1, <2>1 DEF Finished, CallType
    <2>3. OwnIds(d) \subseteq 1..nextID
        BY <1>3, <2>2 DEF OwnIds
    <2>4. \A j : Wired(c, w, j, entryIndex, entryDeps) => Wired(d, w, j, entryIndex, entryDeps)
        BY <2>2 DEF Wired, IdIn
    <2>5. \A m : Gone(c, m, entryIndex) => Gone(d, m, entryIndex)
        BY <2>2 DEF Gone
    <2> HIDE DEF d
    <2>6. RegInv(d, w, entryIndex, nextID, entryDeps)
        BY <1>1, <2>1, <2>2, <2>3, <2>4, <2>5 DEF RegInv, Succeeded, Failed
    <2>7. QED
        BY <2>1, <2>6 DEF gvars, d
<1>11. CASE GroupWait(p) \/ GroupReturn(p)
    <2>1. UNCHANGED gvars /\ \E s \in Waiters : call' = [call EXCEPT ![p].waiter = s]
        BY <1>11 DEF GroupWait, GroupReturn, Waiters
    <2>2. PICK s \in Waiters : call'[p] = [c EXCEPT !.waiter = s]
        BY <1>1, <2>1
    <2>3. QED
        BY <1>1, <2>1, <2>2, WaiterKeepsReg DEF gvars
<1>12. QED
    BY <1>1, <1>5, <1>6, <1>7, <1>8, <1>9, <1>10, <1>11, OwnActions DEF RegInv

LEMMA RegistrationKept ==
    ASSUME KnownInv, RegistrationInv, [CNext]_cvars
    PROVE  RegistrationInv'
<1>1. /\ GTypeOK /\ call \in [Callers -> CallType] /\ nextID \in Nat
    BY GraphAssumption DEF KnownInv, CTypeOK, GraphInv, GTypeOK
<1>2. ASSUME NEW q \in Callers, CallStep(q)
      PROVE  RegistrationInv'
    <2>1. plan' = plan
        BY <1>2, CallStepFrame
    <2>2. \A p \in Callers : op(p) = "workflow" =>
             RegInv(call'[p], Workflow(p), entryIndex', nextID', entryDeps')
        BY <1>2, OwnKeepsReg, OthersKeepReg
    <2>3. QED
        BY <2>1, <2>2 DEF RegistrationInv, op, Workflow
<1>3. ASSUME UNCHANGED <<gvars, plan>>,
             \A p \in Callers : op(p) = "workflow" =>
                 \/ call'[p] = call[p]
                 \/ call'[p] = [call[p] EXCEPT !.waiter = "woken"]
      PROVE  RegistrationInv'
    <2>1. ASSUME NEW p \in Callers, op(p) = "workflow"
          PROVE  RegInv(call'[p], Workflow(p), entryIndex, nextID, entryDeps)
        <3>1. /\ RegInv(call[p], Workflow(p), entryIndex, nextID, entryDeps)
              /\ WellFormed(Workflow(p)) /\ call[p] \in CallType
            BY <1>1, <2>1, PlansWellFormed DEF RegistrationInv
        <3>2. "woken" \in Waiters
            BY DEF Waiters
        <3>3. RegInv([call[p] EXCEPT !.waiter = "woken"], Workflow(p), entryIndex, nextID, entryDeps)
            BY <1>1, <3>1, <3>2, WaiterKeepsReg
        <3>4. QED
            BY <1>3, <2>1, <3>1, <3>3
    <2>2. QED
        BY <1>3, <2>1 DEF RegistrationInv, op, Workflow, gvars
<1>4. ASSUME NEW id, Fire(id) \/ CatchUp(id) PROVE RegistrationInv'
    <2>1. UNCHANGED <<gvars, plan>>
        BY <1>4 DEF Fire, CatchUp, Launch
    <2>2. ASSUME NEW p \in Callers, op(p) = "workflow" PROVE call'[p] = call[p]
        BY <1>4, <2>2 DEF Fire, CatchUp, PastWait
    <2>3. QED
        BY <1>3, <2>1, <2>2
<1>5. ASSUME NEW r, Finish(r) PROVE RegistrationInv'
    <2>1. \A p \in Callers : \/ call'[p] = call[p]
                             \/ call'[p] = [call[p] EXCEPT !.waiter = "woken"]
        BY <1>5 DEF Finish
    <2>2. UNCHANGED <<gvars, plan>>
        BY <1>5 DEF Finish
    <2>3. QED
        BY <1>3, <2>1, <2>2
<1>6. CASE LoopBegins \/ UNCHANGED cvars
    BY <1>3, <1>6 DEF LoopBegins, cvars, ownVars
<1>7. QED
    BY <1>2, <1>4, <1>5, <1>6 DEF CNext

LEMMA RegistrationInitially == CInit => RegistrationInv
<1> SUFFICES ASSUME CInit, NEW p \in Callers, op(p) = "workflow"
             PROVE  RegInv(call[p], Workflow(p), entryIndex, nextID, entryDeps)
    BY DEF RegistrationInv
<1>1. call[p].pc = "start" /\ call[p].ids = <<>> /\ call[p].k = 1
    BY DEF CInit, NewCall
<1>2. OwnIds(call[p]) = {}
    BY <1>1 DEF OwnIds
<1>3. QED
    BY <1>1, <1>2 DEF RegInv, Succeeded, Failed

\* AddWorkflow registers all of a workflow or nothing, for workflows of any
\* size, with any number of other callers that add, remove and rewire entries
\* between its requests: a failed call leaves no step behind, a call that
\* succeeded lacks no edge but for steps or edges that others removed.
THEOREM WorkflowsAllOrNothing == CSpec => []AllOrNothing
<1>1. CInit => RegistrationInv
    BY RegistrationInitially
<1>2. CallersInv /\ RegistrationInv /\ [CNext]_cvars => RegistrationInv'
    BY RegistrationKept DEF CallersInv
<1>3. CallersInv /\ RegistrationInv => AllOrNothing
    <2> SUFFICES ASSUME CallersInv, RegistrationInv, NEW p \in Callers,
                        op(p) = "workflow", At(p, "done")
                 PROVE  IF call[p].outcome = "failed"
                        THEN \A k \in DOMAIN call[p].ids : call[p].ids[k] \notin entryIndex
                        ELSE \A j \in DOMAIN Wires(Workflow(p)) :
                                Wired(call[p], Workflow(p), j, entryIndex, entryDeps)
        BY Zenon DEF AllOrNothing, Wired, IdOf, IdIn
    <2>1. RegInv(call[p], Workflow(p), entryIndex, nextID, entryDeps) /\ call[p].pc = "done"
        BY DEF RegistrationInv, At
    <2>2. call[p].ids \in Seq(Ids)
        BY DEF CallersInv, KnownInv, CTypeOK, CallType
    <2>3. QED
        BY <2>1, <2>2 DEF RegInv, Succeeded, Failed, Gone
<1>4. QED
    BY <1>1, <1>2, <1>3, CallersInductive, PTL DEF CSpec
=============================================================================
