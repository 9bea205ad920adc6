------------------------------ MODULE MCCallers ------------------------------
\* Four goroutines that call at the same time, about the entries x, y and z.
EXTENDS Callers

CONSTANTS x, y, z, none

MCConditions == {"OnSuccess", "OnComplete"}

Call(o, name) == [op |-> o, name |-> name, parent |-> none, w |-> none]
Edge(o, child, parent) == [Call(o, child) EXCEPT !.parent = parent]
Add(w) == [Call("workflow", none) EXCEPT !.w = w]
Plan(r, calls) == [running |-> r, calls |-> calls]

Dep(child, parent) == [child |-> child, parent |-> parent, condition |-> "OnSuccess"]

\* x, then y, and z at the end of everything.
Pipeline == [steps |-> <<x, y, z>>, final |-> {z}, deps |-> <<Dep(y, x)>>]
Invalid  == {[Pipeline EXCEPT !.final = {y, z}], [Pipeline EXCEPT !.deps = <<Dep(x, z)>>],
             [Pipeline EXCEPT !.deps = <<Dep(y, none)>>],
             [Pipeline EXCEPT !.final = {}, !.deps = <<Dep(y, x), Dep(x, y)>>]}

Idle == Call("idle", none)

\* One creates the entry; one drains it or removes it and waits, against any
\* other call about it.
OnX(ops) == {Call(o, x) : o \in ops}
Replacing ==
    {Plan(TRUE, <<Call("upsert", x), Call("drain", x), b, Idle>>) :
        b \in OnX({"drain", "upsert", "pause", "resume", "remove", "removeAndWait", "wait"})}
    \union {Plan(TRUE, <<Call("upsert", x), Call("removeAndWait", x), b, Idle>>) :
                b \in OnX({"upsert", "pause", "resume", "remove", "removeAndWait", "wait"})}

Stopping ==
    {Plan(TRUE, <<Call("upsert", x), Call("stop", none), Call("start", none), b>>) :
        b \in {Call("stop", none), Call("wait", x)}}
    \union {Plan(TRUE, <<Call("upsert", x), Call("stop", none), Call("stop", none), Idle>>)}

\* A drain while a stopped scheduler starts and catches up missed runs.
Starting ==
    {Plan(FALSE, <<Call("upsert", x), Call("drain", x), Call("start", none), b>>) :
        b \in {Call("stop", none)} \union OnX({"drain", "resume", "removeAndWait"})}

\* Two workflows with the same names, and others that meddle.
Registering ==
    {Plan(FALSE, <<Add(Pipeline), a, b, c>>) :
        a \in {Add(Pipeline), Call("upsert", y)},
        b \in {Idle, Edge("addDependency", x, y), Edge("addDependency", x, z)},
        c \in {Call("remove", x), Call("remove", y), Edge("removeDependency", y, x)}}
    \union {Plan(FALSE, <<Add(w), Idle, Idle, Idle>>) : w \in Invalid}

Editing == {Plan(FALSE, <<[Idle EXCEPT !.op = "edit"], Idle, Idle, Idle>>)}

MCPlans == Replacing \union Registering \union Editing \union Stopping \union Starting
=============================================================================
