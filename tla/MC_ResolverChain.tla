-------------------------- MODULE MC_ResolverChain --------------------------
(* ResolverChain instantiated for TLC: NewClient with two endpoints, a    *)
(* pool of two workers whose task queue holds one task, the result        *)
(* channel of capacity 8, and at most three ticks of the health checker.  *)
EXTENDS ResolverChain, TLC

CONSTANTS e1, e2, w1, w2

MCEndpoints == {e1, e2}
MCInitEndpoints == <<e1, e2>>
MCWorkers == {w1, w2}

\* NewClient with eleven endpoints and one worker: more dial tasks than the
\* result channel (8), the worker (1) and the task queue (1) can hold.
MCManyEndpoints == 1..11
MCManyInitEndpoints == [i \in 1..11 |-> i]
MCOneWorker == {w1}
====
