------------------------------ MODULE LongAdder ------------------------------
(***************************************************************************)
(* NewLongAdder(t) of src/adder/pkg.go: the LongAdder interface and the    *)
(* four adders behind it.  The adder is built once, from a Type, and every *)
(* call then runs on it: JDKAdder is StripedAdder, the others are          *)
(* SimpleAdders.  StripedAdder's frame variable others holds the state of  *)
(* the other adders (sa of SimpleAdders), so that no JDKAdder step changes *)
(* it, and no SimpleAdders step changes JDKAdder's variables.  No call is  *)
(* ever started on an adder that was not built: its call budget starts    *)
(* used up.                                                                *)
(***************************************************************************)
EXTENDS StripedAdder

CONSTANT CellCount

Simple == INSTANCE SimpleAdders
          WITH sa <- others, rest <- <<base, busy, cells, arrs, cellv, ops, lc>>

\* The adder NewLongAdder built: "jdk", or the type of the simple adder.
adder == others.typ

\* The Type constants: JDKAdderType, RandomCellAdderType, AtomicAdderType,
\* MutexAdderType, JDKF64AdderType, AtomicF64AdderType.
Types == 0..5

NewLongAdder(t) ==
    CASE t = 3 -> "mutex"
      [] t = 2 -> "atomic"
      [] t = 1 -> "random"
      [] OTHER -> "jdk"

LongAdderInit ==
    \E t \in Types :
        LET ty == NewLongAdder(t) IN
        /\ NewJDKAdder
        /\ ops = IF ty = "jdk" THEN 0 ELSE MaxOps
        /\ others = Simple!NewAdder(ty, IF ty = "jdk" THEN 0 ELSE MaxOps)

LongAdderNext == Next \/ Simple!Next

\* A step of th inside a call.
CallStep(th) == Step(th) \/ Simple!Step(th)

LongAdderSpec ==
    LongAdderInit /\ [][LongAdderNext]_vars /\ \A th \in Threads : WF_vars(CallStep(th))

(***************************************************************************)
(* Properties                                                              *)
(***************************************************************************)
LongAdderTypeOK ==
    /\ adder \in {"jdk"} \cup Simple!SimpleTypes
    /\ TypeOK
    /\ Simple!StateOK

\* Whatever the Type, every Add adds its argument exactly once, at one
\* instant of the call, and Store (Reset, SumAndReset) sets the sum.
LongAdderAbstract == INSTANCE AdderSpec WITH
    total <- IF adder = "jdk" THEN Stored ELSE Simple!Stored,
    pend <- [th \in Threads |-> IF adder = "jdk" THEN Pending(th)
                                ELSE Simple!Pending(th)]
LongAdderImplementsSpec == LongAdderAbstract!Spec

\* Sum returns a value between the sum at its start and at its return;
\* SumAndReset returns the sum it reset: on JDKAdder and on the others.
SumsWithinCall == SumWithinCall /\ Simple!SumWithinCall

====
