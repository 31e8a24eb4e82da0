---------------------------- MODULE MC_LongAdder ----------------------------
(* LongAdder instantiated for TLC: three threads adding 1 (Inc).           *)
EXTENDS LongAdder, TLC

CONSTANTS t1, t2, t3

MCThreeThreads == {t1, t2, t3}
ThreeSymmetry == Permutations(MCThreeThreads)
====
