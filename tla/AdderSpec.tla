------------------------------ MODULE AdderSpec ------------------------------
(***************************************************************************)
(* What the LongAdder interface of src/adder/pkg.go promises of Add: each  *)
(* call adds its argument to the sum exactly once, at one instant between  *)
(* its invocation and its return; Store(v), with no Add in progress, sets  *)
(* the sum to v.  pend[th] is the amount th's current Add has still to     *)
(* add, or None when th is not inside an Add.                              *)
(***************************************************************************)
EXTENDS Integers

CONSTANTS Threads, Deltas, StoreValues, None

VARIABLES total, pend

Init == total = 0 /\ pend = [th \in Threads |-> None]

\* Add(x) is invoked.
Call(th, x) ==
    /\ pend[th] = None
    /\ pend' = [pend EXCEPT ![th] = x]
    /\ UNCHANGED total

\* Store(v) (Reset is Store(0)), called with no Add in progress.
Store(v) ==
    /\ \A th \in Threads : pend[th] = None
    /\ total' = v
    /\ UNCHANGED pend

\* The call takes effect and returns.
Apply(th) ==
    /\ pend[th] \in Deltas
    /\ total' = total + pend[th]
    /\ pend' = [pend EXCEPT ![th] = None]

Next ==
    \/ \E th \in Threads : Apply(th) \/ \E x \in Deltas : Call(th, x)
    \/ \E v \in StoreValues : Store(v)

Spec == Init /\ [][Next]_<<total, pend>>
====
