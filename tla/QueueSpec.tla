------------------------------ MODULE QueueSpec ------------------------------
(***************************************************************************)
(* What the Queue interface of src/queue promises: a FIFO sequence of      *)
(* values.  Offer appends; Poll takes the head or finds the queue empty;   *)
(* Peek reads the head or finds it empty; an iterator's Remove takes out   *)
(* an element wherever it is.  res[p] is the result of process p's last    *)
(* Poll or Peek: Pending while one is in progress, NoVal for nil.          *)
(***************************************************************************)
EXTENDS Sequences, SequencesExt

CONSTANTS Procs, Values, NoVal, Pending

VARIABLES q, res

Init == q = <<>> /\ res = [p \in Procs |-> NoVal]

Offer(v) == q' = Append(q, v) /\ UNCHANGED res

Begin(p) == res' = [res EXCEPT ![p] = Pending] /\ UNCHANGED q

Poll(p) ==
    /\ res[p] = Pending
    /\ q /= <<>>
    /\ res' = [res EXCEPT ![p] = Head(q)]
    /\ q' = Tail(q)

Peek(p) ==
    /\ res[p] = Pending
    /\ q /= <<>>
    /\ res' = [res EXCEPT ![p] = Head(q)]
    /\ UNCHANGED q

FoundEmpty(p) ==
    /\ res[p] = Pending
    /\ q = <<>>
    /\ res' = [res EXCEPT ![p] = NoVal]
    /\ UNCHANGED q

Unlink(v) ==
    /\ Contains(q, v)
    /\ q' = SelectSeq(q, LAMBDA x : x /= v)
    /\ UNCHANGED res

Next ==
    \/ \E v \in Values : Offer(v) \/ Unlink(v)
    \/ \E p \in Procs : Begin(p) \/ Poll(p) \/ Peek(p) \/ FoundEmpty(p)

Spec == Init /\ [][Next]_<<q, res>>
====
