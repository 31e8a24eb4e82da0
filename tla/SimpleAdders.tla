----------------------------- MODULE SimpleAdders -----------------------------
(***************************************************************************)
(* The LongAdders of src/adder other than JDKAdder: AtomicAdder (one int64 *)
(* updated with atomics), MutexAdder (an int64 under a sync.RWMutex) and   *)
(* RandomCellAdder (a fixed array of cells, each Add on a random one).     *)
(* sa.typ says which one the behaviour runs; it never changes.  Every      *)
(* atomic load, store or add is one step, and so is every statement inside *)
(* the mutex; the store that ends a critical section and its Unlock (or    *)
(* the read and its RUnlock) are one step.                                 *)
(*                                                                         *)
(* The whole state is the one record sa, so that a composition can carry   *)
(* it in another model's frame.  A call is [pc, op, x, v, acc, i, lo,      *)
(* wrote]: pc "call" once it is invoked; op one of "add", "sum", "sar"     *)
(* (SumAndReset), "store" (Reset is Store(0): every adder's Reset makes    *)
(* the same stores as its Store(0)).                                       *)
(***************************************************************************)
EXTENDS Integers, FiniteSets, FiniteSetsExt

CONSTANTS Threads, Deltas, StoreValues, CellCount, MaxOps, None

VARIABLES
    sa,     \* [typ, value, rcells, wlock, readers, sops, sl]:
            \*   typ      "atomic", "mutex" or "random"
            \*   value    AtomicAdder.value, MutexAdder.value
            \*   rcells   RandomCellAdder.cells: 0..CellCount-1 -> int64
            \*   wlock    MutexAdder.lock: the writer that holds it, or None
            \*   readers  MutexAdder.lock: the readers that hold it
            \*   sops     calls started so far
            \*   sl       sl[th]: th's current call
    rest    \* the rest of the system, which no step of these adders changes

svars == <<sa, rest>>

SimpleTypes == {"atomic", "mutex", "random"}
CellIdx == 0..(CellCount - 1)

IdleCall == [pc |-> "idle", op |-> "sum", x |-> 0, v |-> 0, acc |-> 0, i |-> 0,
             lo |-> 0, wrote |-> FALSE]

Value == IF sa.typ = "random" THEN MapThenSumSet(LAMBDA c : sa.rcells[c], CellIdx)
         ELSE sa.value

\* sl with th's call replaced by r (an idle call is reset).
Put(th, r) == [sa.sl EXCEPT ![th] = IF r.pc = "idle" THEN IdleCall ELSE r]
Goto(th, pc) == Put(th, [sa.sl[th] EXCEPT !.pc = pc])

Calling(th, ty, ops) == sa.typ = ty /\ sa.sl[th].pc = "call" /\ sa.sl[th].op \in ops

\* Add, Sum, SumAndReset, Store or Reset is invoked.
Start(th, op, x) ==
    /\ sa.sl[th].pc = "idle"
    /\ sa.sops < MaxOps
    /\ sa' = [sa EXCEPT !.sops = @ + 1,
                        !.sl = Put(th, [IdleCall EXCEPT !.pc = "call", !.op = op,
                                                        !.x = x, !.lo = Value])]
    /\ UNCHANGED rest

(***************************************************************************)
(* AtomicAdder                                                             *)
(***************************************************************************)
\* atomic.AddInt64(&a.value, x)
AtomicAdd(th) ==
    /\ Calling(th, "atomic", {"add"})
    /\ sa' = [sa EXCEPT !.value = @ + sa.sl[th].x, !.sl = Goto(th, "idle")]
    /\ UNCHANGED rest

\* Sum and SumAndReset: atomic.LoadInt64(&a.value).
AtomicLoad(th) ==
    /\ Calling(th, "atomic", {"sum", "sar"})
    /\ sa' = [sa EXCEPT !.sl = Put(th, [sa.sl[th] EXCEPT !.pc = "s_ret", !.acc = sa.value])]
    /\ UNCHANGED rest

\* Store(v), Reset, and the Reset that ends SumAndReset: StoreInt64.
AtomicStore(th) ==
    /\ \/ Calling(th, "atomic", {"store"})
       \/ sa.typ = "atomic" /\ sa.sl[th].pc = "reset"
    /\ sa' = [sa EXCEPT !.value = sa.sl[th].x, !.sl = Goto(th, "idle")]
    /\ UNCHANGED rest

(***************************************************************************)
(* MutexAdder.  A writer takes lock while no writer holds it; it then      *)
(* waits for the readers to leave, and no new reader enters (Go's RWMutex  *)
(* blocks RLock while a writer is pending).                                *)
(***************************************************************************)
\* Mutant: the critical section is entered without m.lock.Lock().
MutexLockSkipped(th) ==
    /\ Calling(th, "mutex", {"add", "store", "sar"})
    /\ sa' = [sa EXCEPT !.sl = Goto(th, "m_held")]
    /\ UNCHANGED rest

\* m.lock.Lock() in Add, Reset, SumAndReset and Store.
MutexLock(th) ==
    /\ Calling(th, "mutex", {"add", "store", "sar"})
    /\ sa.wlock = None
    /\ sa' = [sa EXCEPT !.wlock = th, !.sl = Goto(th, "m_held")]
    /\ UNCHANGED rest

\* The first load of the critical section: m.value (of += x, or sum =).
MutexLoad(th) ==
    LET l == sa.sl[th] IN
    /\ l.pc = "m_held" /\ l.op \in {"add", "sar"}
    /\ sa.readers = {}
    /\ sa' = [sa EXCEPT !.sl = Put(th, IF l.op = "add"
                                      THEN [l EXCEPT !.pc = "m_store", !.v = sa.value]
                                      ELSE [l EXCEPT !.pc = "m_store", !.acc = sa.value])]
    /\ UNCHANGED rest

\* The store that ends the critical section, then m.lock.Unlock().
MutexStore(th) ==
    LET l == sa.sl[th] IN
    /\ \/ l.pc = "m_store"
       \/ l.pc = "m_held" /\ l.op = "store" /\ sa.readers = {}
    /\ sa' = [sa EXCEPT !.value = CASE l.op = "add" -> l.v + l.x
                                    [] l.op = "store" -> l.x
                                    [] l.op = "sar" -> 0,
                        !.wlock = None,
                        !.sl = Goto(th, IF l.op = "sar" THEN "s_ret" ELSE "idle")]
    /\ UNCHANGED rest

\* Sum: m.lock.RLock().
MutexRLock(th) ==
    /\ Calling(th, "mutex", {"sum"})
    /\ sa.wlock = None
    /\ sa' = [sa EXCEPT !.readers = @ \cup {th}, !.sl = Goto(th, "m_read")]
    /\ UNCHANGED rest

\* sum = m.value, then m.lock.RUnlock().
MutexRead(th) ==
    /\ sa.sl[th].pc = "m_read"
    /\ sa' = [sa EXCEPT !.readers = @ \ {th},
                        !.sl = Put(th, [sa.sl[th] EXCEPT !.pc = "s_ret", !.acc = sa.value])]
    /\ UNCHANGED rest

(***************************************************************************)
(* RandomCellAdder                                                         *)
(***************************************************************************)
\* atomic.AddInt64(&r.cells[getRandomInt()&randomCellSizeMinus], x)
RandomAdd(th) ==
    /\ Calling(th, "random", {"add"})
    /\ \E c \in CellIdx :
          sa' = [sa EXCEPT !.rcells[c] = @ + sa.sl[th].x, !.sl = Goto(th, "idle")]
    /\ UNCHANGED rest

\* One iteration of the loop of Sum and SumAndReset, Sum ending after cell
\* last; SumAndReset goes on to its store of 0.
LoadStep(th, last) ==
    LET l == sa.sl[th]
        l2 == [l EXCEPT !.acc = l.acc + sa.rcells[l.i]]
    IN /\ Calling(th, "random", {"sum", "sar"})
       /\ sa' = [sa EXCEPT !.sl = Put(th, CASE l.op = "sar" -> [l2 EXCEPT !.pc = "zero"]
                                            [] l.i = last -> [l2 EXCEPT !.pc = "s_ret"]
                                            [] OTHER -> [l2 EXCEPT !.i = l.i + 1])]
       /\ UNCHANGED rest

\* Mutant: the walk of Sum stops before the last cell.
RandomLoadShort(th) == LoadStep(th, CellCount - 2)

\* sum += atomic.LoadInt64(&r.cells[i]) for i in range r.cells.
RandomLoad(th) == LoadStep(th, CellCount - 1)

\* SumAndReset: atomic.StoreInt64(&r.cells[i], 0), then the next cell.
RandomZero(th) ==
    LET l == sa.sl[th] IN
    /\ sa.typ = "random" /\ l.pc = "zero"
    /\ sa' = [sa EXCEPT !.rcells[l.i] = 0,
                        !.sl = Put(th, [l EXCEPT !.pc = IF l.i + 1 = CellCount
                                                        THEN "s_ret" ELSE "call",
                                                 !.i = l.i + 1, !.wrote = TRUE])]
    /\ UNCHANGED rest

\* One store of Store(v): cells[0] := v, then cells[i] := 0, up to cell last.
StoreStep(th, last) ==
    LET l == sa.sl[th] IN
    /\ Calling(th, "random", {"store"})
    /\ sa' = [sa EXCEPT !.rcells[l.i] = IF l.i = 0 THEN l.x ELSE 0,
                        !.sl = Put(th, IF l.i = last THEN [l EXCEPT !.pc = "idle"]
                                       ELSE [l EXCEPT !.i = l.i + 1, !.wrote = TRUE])]
    /\ UNCHANGED rest

\* Mutant: the loop of Store runs to i <= randomCellSize.
RandomStorePastEnd(th) == StoreStep(th, CellCount)

\* Store(v): cells[0] := v, then cells[i] := 0 for i from 1 (Reset stores
\* 0 into every cell from 0, the same stores as Store(0)).
RandomStore(th) == StoreStep(th, CellCount - 1)

\* Sum and SumAndReset return; AtomicAdder's SumAndReset calls Reset.
SumRet(th) ==
    /\ sa.sl[th].pc = "s_ret"
    /\ sa' = [sa EXCEPT !.sl = IF sa.typ = "atomic" /\ sa.sl[th].op = "sar"
                               THEN Put(th, [sa.sl[th] EXCEPT !.pc = "reset", !.x = 0])
                               ELSE Goto(th, "idle")]
    /\ UNCHANGED rest

(***************************************************************************)
(* Specification.  Store, Reset and SumAndReset are started, as for        *)
(* JDKAdder, only with no other call in progress and nothing else starts   *)
(* until they return: AtomicAdder's and RandomCellAdder's comments make    *)
(* them "only effective if there are no concurrent updates".  MutexAdder's *)
(* would not need it; the model keeps the one contract of the interface.   *)
(***************************************************************************)
Quiescent(th) == \A o \in Threads \ {th} : sa.sl[o].pc = "idle"
NoStoreRunning == \A o \in Threads : sa.sl[o].pc = "idle" \/ sa.sl[o].op \in {"add", "sum"}

\* The state of a new adder of type ty, with n calls left to make:
\* NewAtomicAdder, NewMutexAdder, NewRandomCellAdder.
NewAdder(ty, n) ==
    [typ |-> ty, value |-> 0, rcells |-> [c \in CellIdx |-> 0], wlock |-> None,
     readers |-> {}, sops |-> MaxOps - n, sl |-> [th \in Threads |-> IdleCall]]

Init == \E ty \in SimpleTypes : sa = NewAdder(ty, MaxOps) /\ rest = <<>>

Step(th) ==
    \/ AtomicAdd(th) \/ AtomicLoad(th) \/ AtomicStore(th)
    \/ MutexLock(th) \/ MutexLoad(th) \/ MutexStore(th) \/ MutexRLock(th) \/ MutexRead(th)
    \/ RandomAdd(th) \/ RandomLoad(th) \/ RandomZero(th) \/ RandomStore(th)
    \/ SumRet(th)

Next ==
    \E th \in Threads :
        \/ Step(th)
        \/ NoStoreRunning /\ \E x \in Deltas : Start(th, "add", x)
        \/ NoStoreRunning /\ Start(th, "sum", 0)
        \/ Quiescent(th) /\ \E v \in StoreValues : Start(th, "store", v)
        \/ StoreValues /= {} /\ Quiescent(th) /\ Start(th, "sar", 0)

Spec == Init /\ [][Next]_svars /\ \A th \in Threads : WF_svars(Step(th))

(***************************************************************************)
(* Properties                                                              *)
(***************************************************************************)
Pcs == {"idle", "call", "m_held", "m_store", "m_read", "zero", "s_ret", "reset"}

StateOK ==
    /\ sa.rcells \in [CellIdx -> Int]
    /\ sa.wlock \in Threads \cup {None}
    /\ sa.readers \subseteq Threads
    /\ sa.sops \in 0..MaxOps
    /\ \A th \in Threads :
          /\ sa.sl[th].pc \in Pcs
          /\ sa.sl[th].op \in {"add", "sum", "sar", "store"}
          /\ sa.sl[th].i \in CellIdx \cup {CellCount}
          /\ sa.sl[th].pc \in {"call", "zero"} => sa.sl[th].i \in CellIdx

TypeOK == sa.typ \in SimpleTypes /\ StateOK

\* An Add is pending from its invocation until its atomic add (its store
\* under the mutex).  A Store takes effect at its first store into a cell,
\* a RandomCellAdder SumAndReset at its first store of 0.
Pending(th) == IF sa.sl[th].pc /= "idle" /\ sa.sl[th].op = "add" THEN sa.sl[th].x ELSE None
Stored == IF \E th \in Threads : sa.sl[th].wrote
          THEN sa.sl[CHOOSE th \in Threads : sa.sl[th].wrote].x
          ELSE Value

\* Sum returns a value between the adder's value when it started and its
\* value when it returns (all arguments positive); SumAndReset, under its
\* contract, returns exactly the value the adder had when it started.
SumWithinCall ==
    \A th \in Threads :
        sa.sl[th].pc = "s_ret" =>
            IF sa.sl[th].op = "sar" THEN sa.sl[th].acc = sa.sl[th].lo
            ELSE sa.sl[th].lo <= sa.sl[th].acc /\ sa.sl[th].acc <= Value
====
