--------------------------- MODULE MC_LinkedQueue ---------------------------
(* LinkedQueue instantiated for TLC: two threads, up to three values.      *)
EXTENDS LinkedQueue, TLC

CONSTANTS t1, t2, v1, v2, v3

MCThreads == {t1, t2}
MCValues == {v1, v2, v3}

ThreadSymmetry == Permutations(MCThreads)

\* The program of the iterator run: t1 only offers, polls and peeks, t2 only
\* iterates or calls Size, so t2's walks go over a list t1 is changing.  Only
\* the choice of calls is restricted; every call runs as in Spec.
MutatorAndIteratorNext ==
    \/ \E v \in Values : OfferStart(t1, v)
    \/ PollStart(t1) \/ PeekStart(t1) \/ IterStart(t2) \/ SizeStart(t2)
    \/ \E th \in Threads : Step(th)

MutatorAndIteratorSpec ==
    Init /\ [][MutatorAndIteratorNext]_vars /\ \A th \in Threads : WF_vars(Step(th))
====
