------------------------- MODULE MC_CircuitBreaker -------------------------
(* Model-checking instance of CircuitBreaker: two caller threads, a        *)
(* window of two update intervals, and a threshold of one half.            *)
EXTENDS CircuitBreaker, TLC

CONSTANTS t1, t2

MCThreads == {t1, t2}

\* Callers are interchangeable: no property names a thread.
ThreadSymmetry == Permutations(MCThreads)

\* The locals of an idle thread are dead: Start overwrites op and lst, and
\* tick, bkt, nxt and cnt are written before they are read in every call.
\* States that differ only in them are the same state.
LiveLocals(th) ==
  IF pc[th] = "idle" THEN "idle"
  ELSE <<pc[th], op[th], lst[th], tick[th], bkt[th], nxt[th], cnt[th]>>

MCView == <<now, st, cb, bk, trimmed, lsState, lsCount, ops,
            [th \in Threads |-> LiveLocals(th)]>>
=============================================================================
