------------------------------ MODULE MCWorkflow ------------------------------
(***************************************************************************)
(* Small instances of the workflow engine.                                 *)
(***************************************************************************)
EXTENDS Workflow

\* AddDependency calls, one after the other.
NoEdges      == [deps |-> [i \in Ids |-> {}], children |-> [i \in Ids |-> <<>>]]
Built(edges) == FoldLeft(Connect, NoEdges, edges)

On(child, condition, parent) == [child |-> child, parent |-> parent, condition |-> condition]

\* The README's pipeline: extract, transform, load and the final cleanup.
Pipeline == <<On(2, "OnSuccess", 1), On(3, "OnSuccess", 2),
              On(4, "OnComplete", 1), On(4, "OnComplete", 2), On(4, "OnComplete", 3)>>

Chain == <<On(2, "OnSuccess", 1), On(3, "OnComplete", 2)>>
Star  == <<On(2, "OnSuccess", 1), On(2, "OnComplete", 1), On(3, "OnFailure", 1)>>

AllConditions == {"OnSuccess", "OnFailure", "OnSkipped", "OnComplete"}

PipelineGraphs == {Built(Pipeline)}

\* Every graph of four entries with one condition an edge, none of which skips
\* over a longer path: where a child is reached twice within one evaluation,
\* the code starts it twice (see the final step of the README's pipeline).
Wirings == [{<<p, c>> \in Ids \X Ids : p < c} -> {"none"} \union AllConditions]

Linked(w, p, c) == p < c /\ w[<<p, c>>] # "none"

Reduced(w) ==
    \A p, c \in Ids : Linked(w, p, c) =>
        \A i \in Ids : ~(Linked(w, p, i) /\ (Linked(w, i, c)
                           \/ \E j \in Ids : Linked(w, i, j) /\ Linked(w, j, c)))

\* Success and failure are alike: no graph that uses only the second is needed.
Uses(w, condition) == \E l \in DOMAIN w : w[l] = condition
Representative(w)  == Uses(w, "OnFailure") => Uses(w, "OnSuccess")

EdgesOf(w) == SetToSeq({On(c, w[<<p, c>>], p) : <<p, c>> \in {l \in DOMAIN w : w[l] # "none"}})

ReducedGraphs == {Built(EdgesOf(w)) : w \in {v \in Wirings : Reduced(v) /\ Representative(v)}}

EditGraphs     == {Built(Chain), Built(Star)}
EditConditions == {"OnSuccess", "OnFailure", "OnComplete"}
=============================================================================
