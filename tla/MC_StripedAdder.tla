--------------------------- MODULE MC_StripedAdder ---------------------------
(* StripedAdder instantiated for TLC: two threads adding 1 (Inc).          *)
EXTENDS StripedAdder, TLC

CONSTANTS t1, t2

MCThreads == {t1, t2}
====
