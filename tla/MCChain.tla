------------------------------- MODULE MCChain -------------------------------
(***************************************************************************)
(* Two runs of job a and one of job b, both in a workflow but for one run. *)
(***************************************************************************)
EXTENDS Chain, TLC

CONSTANTS r1, r2, r3, a, b, g, h

MCJobOf         == (r1 :> a) @@ (r2 :> a) @@ (r3 :> b)
MCScheduledTime == (r1 :> 1) @@ (r2 :> Manual) @@ (r3 :> 1)

W(kind)        == [kind |-> kind, shared |-> g, n |-> 1]
On(kind, s, n) == [kind |-> kind, shared |-> s, n |-> n]
Pair(x, y)     == (a :> x) @@ (b :> y)

MCConfigs == {
    Pair(<<W("Recover"), W("Skip"), W("MaxConcurrent")>>, <<W("MaxConcurrentSkip")>>),
    Pair(<<W("MaxConcurrent"), On("MaxConcurrent", h, 2)>>,
         <<W("MaxConcurrent"), On("MaxConcurrent", h, 2)>>),
    Pair(<<W("Timeout"), W("Delay")>>, <<W("Skip"), W("Jitter")>>),
    Pair(<<W("TimeoutWithContext"), W("MaxConcurrent")>>, <<W("MaxConcurrent")>>),
    Pair(<<W("Exclusive")>>, <<W("Exclusive")>>),
    Pair(<<W("MaxConcurrentSkip")>>, <<W("Recover"), W("Retry"), W("MaxConcurrentSkip")>>),
    Pair(<<W("Circuit")>>, <<W("Recover"), W("Circuit")>>),
    Pair(<<W("Dedup")>>, <<W("Dedup")>>),
    Pair(<<W("Exclusive"), W("Recover")>>, <<W("Retry"), W("Recover"), W("Dedup")>>),
    Pair(<<W("Recover")>>, <<W("Retry"), W("Exclusive")>>),
    Pair(<<W("Jitter")>>, <<W("Retry"), W("Circuit")>>),
    Pair(<<W("MaxConcurrent")>>, <<On("MaxConcurrent", g, 2)>>) }

MCKeys    == {g} \X {0, 1}
MCCallers == Runs \X Levels
=============================================================================
