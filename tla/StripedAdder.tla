----------------------------- MODULE StripedAdder -----------------------------
(***************************************************************************)
(* JDKAdder (src/adder/jdkAdder.go) over striped64                         *)
(* (src/adder/striped64.go): Add's hot path, accumulate's contention path  *)
(* (table initialisation, cell attachment, cell CAS, table growth under    *)
(* cellsBusy, base fallback) and Sum's walk.  Every atomic load, store or  *)
(* CAS of base, cellsBusy, cells, a table slot or a cell is one step; the  *)
(* loads and stores a thread makes while it holds cellsBusy, on words only *)
(* the holder writes, are one step.                                        *)
(*                                                                         *)
(* A table is a backing array (an index into arrs: cap and slots) and a    *)
(* length, as a Go slice is; cells = NoCells is a nil table.  A slot holds *)
(* a cell (an index into cellv, the cells' values) or 0 for nil.           *)
(***************************************************************************)
EXTENDS Integers, Sequences, FiniteSets, FiniteSetsExt, Bitwise

CONSTANTS Threads, Deltas, StoreValues, MaxCells, MaxOps, None

VARIABLES
    base,       \* striped64.base
    busy,       \* striped64.cellsBusy
    cells,      \* striped64.cells: [arr, len]
    arrs,       \* the backing arrays allocated: [cap, slot]
    cellv,      \* the value of every cell allocated
    ops,        \* calls started so far
    lc,         \* lc[th]: the locals of th's current call
    others      \* the rest of the system, which no step of the adder changes

vars == <<base, busy, cells, arrs, cellv, ops, lc, others>>

NoCells == [arr |-> 0, len |-> 0]

(* The probe.  getRandomInt seeds it with a random int, of which only the  *)
(* low bits ever index a table: "random" with those bits v.  `index &= n`  *)
(* makes it a small int ("masked").  xorshift keeps the low four bits of   *)
(* an int below 16, so one rehash of a masked index keeps its slot in      *)
(* every table the model has ("once"); a further rehash gives bits no      *)
(* simpler than random ones.                                               *)
Slots == 0..(2 * MaxCells - 1)
RandomIdx == {[k |-> "random", v |-> s] : s \in Slots}
Masked(v) == [k |-> "masked", v |-> v]
Rehashed(i) == IF i.k = "masked" THEN {[i EXCEPT !.k = "once"]} ELSE RandomIdx
SlotOf(i, n) == i.v & n

Cap(p) == arrs[p.arr].cap
SlotAt(p, j) == arrs[p.arr].slot[j]

IdleLocals ==
    [pc |-> "idle", x |-> 0, idx |-> Masked(0), unc |-> FALSE, collide |-> FALSE,
     as |-> NoCells, a |-> 0, v |-> 0, acc |-> 0, i |-> 0, lo |-> 0, reset |-> FALSE]

Set(th, r) == lc' = [lc EXCEPT ![th] = IF r.pc = "idle" THEN IdleLocals ELSE r]
Goto(th, pc) == Set(th, [lc[th] EXCEPT !.pc = pc])

\* Continue the loop of accumulate after `index` is rehashed.
Again(th, l) == \E i \in Rehashed(l.idx) : Set(th, [l EXCEPT !.pc = "c_load", !.idx = i])

\* accumulate(index, x, nil, wasUncontended): index 0 is reseeded.
Accumulate(th, l, idx, unc) ==
    LET zero == idx = Masked(0) IN
    \E i \in (IF zero THEN RandomIdx ELSE {idx}) :
        Set(th, [l EXCEPT !.pc = "c_load", !.idx = i, !.unc = unc \/ zero,
                          !.collide = FALSE])

\* A new cell holding x, installed in slot j of array p.
NewCell(p, j, x) ==
    /\ cellv' = Append(cellv, x)
    /\ arrs' = [arrs EXCEPT ![p].slot[j] = Len(cellv) + 1]

(***************************************************************************)
(* JDKAdder.Add                                                            *)
(***************************************************************************)
\* _as := cells.Load().
AddStart(th, x) ==
    /\ lc[th].pc = "idle"
    /\ ops < MaxOps
    /\ Set(th, [IdleLocals EXCEPT !.pc = IF cells = NoCells THEN "a_base" ELSE "a_slot",
                                  !.x = x, !.as = cells])
    /\ ops' = ops + 1
    /\ UNCHANGED <<base, busy, cells, arrs, cellv, others>>

AddBase(th) ==
    /\ lc[th].pc = "a_base"
    /\ Set(th, [lc[th] EXCEPT !.pc = "a_casbase", !.v = base])
    /\ UNCHANGED <<base, busy, cells, arrs, cellv, ops, others>>

\* casBase(b, b+x); on failure accumulate(getRandomInt(), x, nil, true).
AddCasBase(th) ==
    LET l == lc[th] IN
    /\ l.pc = "a_casbase"
    /\ \/ /\ base = l.v
          /\ base' = l.v + l.x
          /\ Goto(th, "idle")
       \/ /\ base /= l.v
          /\ \E i \in RandomIdx : Accumulate(th, l, i, TRUE)
          /\ UNCHANGED base
    /\ UNCHANGED <<busy, cells, arrs, cellv, ops, others>>

\* probe := getRandomInt() & m; a nil slot goes to accumulate at once.
AddSlot(th) ==
    LET l == lc[th] IN
    /\ l.pc = "a_slot"
    /\ \E p \in 0..(l.as.len - 1) :
          IF SlotAt(l.as, p) = 0
          THEN Accumulate(th, l, Masked(p), TRUE)
          ELSE Set(th, [l EXCEPT !.pc = "a_val", !.a = SlotAt(l.as, p), !.idx = Masked(p)])
    /\ UNCHANGED <<base, busy, cells, arrs, cellv, ops, others>>

AddVal(th) ==
    /\ lc[th].pc = "a_val"
    /\ Set(th, [lc[th] EXCEPT !.pc = "a_cas", !.v = cellv[lc[th].a]])
    /\ UNCHANGED <<base, busy, cells, arrs, cellv, ops, others>>

\* a.cas(v, v+x); on failure accumulate(probe, x, nil, false).
AddCas(th) ==
    LET l == lc[th] IN
    /\ l.pc = "a_cas"
    /\ \/ /\ cellv[l.a] = l.v
          /\ cellv' = [cellv EXCEPT ![l.a] = l.v + l.x]
          /\ Goto(th, "idle")
       \/ /\ cellv[l.a] /= l.v
          /\ Accumulate(th, l, l.idx, FALSE)
          /\ UNCHANGED cellv
    /\ UNCHANGED <<base, busy, cells, arrs, ops, others>>

(***************************************************************************)
(* striped64.accumulate                                                    *)
(***************************************************************************)
\* _as := cells.Load(): a nil table goes to checkCells.
AccLoad(th) ==
    /\ lc[th].pc = "c_load"
    /\ Set(th, [lc[th] EXCEPT !.pc = IF cells = NoCells THEN "c_init_try" ELSE "c_slot",
                              !.as = cells])
    /\ UNCHANGED <<base, busy, cells, arrs, cellv, ops, others>>

\* a := as[index & n]: attach to a nil slot, rehash once after a known
\* CAS failure, else mask the index and CAS the cell.
AccSlot(th) ==
    LET l == lc[th]
        n == l.as.len - 1
        a == SlotAt(l.as, SlotOf(l.idx, n))
    IN /\ l.pc = "c_slot"
       /\ CASE a = 0 -> Goto(th, "c_attach_try")
            [] ~l.unc -> Again(th, [l EXCEPT !.unc = TRUE])
            [] OTHER -> Set(th, [l EXCEPT !.pc = "c_val", !.a = a,
                                          !.idx = Masked(SlotOf(l.idx, n))])
       /\ UNCHANGED <<base, busy, cells, arrs, cellv, ops, others>>

\* cellsBusy == 0 && casCellsBusy(); on failure collide = false, rehash.
AccAttachTry(th) ==
    LET l == lc[th] IN
    /\ l.pc = "c_attach_try"
    /\ IF busy = 0
       THEN busy' = 1 /\ Goto(th, "c_attach")
       ELSE UNCHANGED busy /\ Again(th, [l EXCEPT !.collide = FALSE])
    /\ UNCHANGED <<base, cells, arrs, cellv, ops, others>>

\* Mutant: the new cell is installed without the recheck of the slot.
AccAttachNoRecheck(th) ==
    LET l == lc[th]
        j == SlotOf(l.idx, cells.len - 1)
    IN /\ l.pc = "c_attach"
       /\ NewCell(cells.arr, j, l.x)
       /\ Goto(th, "c_unlock_done")
       /\ UNCHANGED <<base, busy, cells, ops, others>>

\* Under cellsBusy: recheck rs[index & m] and install the new cell.
AccAttach(th) ==
    LET l == lc[th]
        j == SlotOf(l.idx, cells.len - 1)
    IN /\ l.pc = "c_attach"
       /\ IF SlotAt(cells, j) = 0
          THEN NewCell(cells.arr, j, l.x) /\ Goto(th, "c_unlock_done")
          ELSE UNCHANGED <<arrs, cellv>> /\ Goto(th, "c_unlock_retry")
       /\ UNCHANGED <<base, busy, cells, ops, others>>

\* Mutant of AccUnlock: cellsBusy is not released after an attach or init.
AccUnlockKeepsBusy(th) ==
    /\ lc[th].pc \in {"c_unlock_done", "c_unlock_retry"}
    /\ Goto(th, IF lc[th].pc = "c_unlock_done" THEN "idle" ELSE "c_load")
    /\ UNCHANGED <<base, busy, cells, arrs, cellv, ops, others>>

\* cellsBusy := 0, then break or continue (without rehash).
AccUnlock(th) ==
    /\ lc[th].pc \in {"c_unlock_done", "c_unlock_retry"}
    /\ busy' = 0
    /\ Goto(th, IF lc[th].pc = "c_unlock_done" THEN "idle" ELSE "c_load")
    /\ UNCHANGED <<base, cells, arrs, cellv, ops, others>>

AccVal(th) ==
    /\ lc[th].pc = "c_val"
    /\ Set(th, [lc[th] EXCEPT !.pc = "c_cas", !.v = cellv[lc[th].a]])
    /\ UNCHANGED <<base, busy, cells, arrs, cellv, ops, others>>

AccCas(th) ==
    LET l == lc[th] IN
    /\ l.pc = "c_cas"
    /\ IF cellv[l.a] = l.v
       THEN cellv' = [cellv EXCEPT ![l.a] = l.v + l.x] /\ Goto(th, "idle")
       ELSE UNCHANGED cellv /\ Goto(th, "c_stale")
    /\ UNCHANGED <<base, busy, cells, arrs, ops, others>>

\* After a failed cell CAS: at max size or stale table, clear collide; else
\* set collide; else try to grow.  All but growth rehash and retry.
AccStale(th) ==
    LET l == lc[th] IN
    /\ l.pc = "c_stale"
    /\ CASE l.as.len - 1 >= MaxCells \/ cells.arr /= l.as.arr ->
                Again(th, [l EXCEPT !.collide = FALSE])
         [] ~l.collide -> Again(th, [l EXCEPT !.collide = TRUE])
         [] OTHER -> Goto(th, "c_grow_try")
    /\ UNCHANGED <<base, busy, cells, arrs, cellv, ops, others>>

AccGrowTry(th) ==
    /\ lc[th].pc = "c_grow_try"
    /\ IF busy = 0
       THEN busy' = 1 /\ Goto(th, "c_grow")
       ELSE UNCHANGED busy /\ Again(th, lc[th])
    /\ UNCHANGED <<base, cells, arrs, cellv, ops, others>>

\* The table doubled: a table that still has the backing array as grows
\* into its capacity (rs[:cap]); a full one is copied into a new array of
\* length 2*cap and capacity 4*cap.
\* Mutant: the table is resliced to twice its capacity.
ExtendedTooFar(p) == [arr |-> p.arr, len |-> 2 * Cap(p)]
Extended(p) == [arr |-> p.arr, len |-> Cap(p)]
Grown(p) == [cap |-> 4 * Cap(p),
             slot |-> [j \in 0..(4 * Cap(p) - 1) |-> IF j < p.len THEN SlotAt(p, j) ELSE 0]]

AccGrow(th) ==
    LET as == lc[th].as IN
    /\ lc[th].pc = "c_grow"
    /\ CASE cells.arr /= as.arr -> UNCHANGED <<cells, arrs>>
         [] as.len < Cap(as) -> cells' = Extended(cells) /\ UNCHANGED arrs
         [] OTHER -> /\ arrs' = Append(arrs, Grown(as))
                     /\ cells' = [arr |-> Len(arrs) + 1, len |-> 2 * Cap(as)]
    /\ Goto(th, "c_grow_unlock")
    /\ UNCHANGED <<base, busy, cellv, ops, others>>

AccGrowUnlock(th) ==
    /\ lc[th].pc = "c_grow_unlock"
    /\ busy' = 0
    /\ Set(th, [lc[th] EXCEPT !.pc = "c_load", !.collide = FALSE])
    /\ UNCHANGED <<base, cells, arrs, cellv, ops, others>>

\* checkCells: cellsBusy == 0 && cells.Load() == nil, then casCellsBusy();
\* any failure falls back on base.
AccInitTry(th) ==
    /\ lc[th].pc = "c_init_try"
    /\ Goto(th, IF busy = 0 /\ cells = NoCells THEN "c_init_cas" ELSE "c_base")
    /\ UNCHANGED <<base, busy, cells, arrs, cellv, ops, others>>

AccInitCas(th) ==
    /\ lc[th].pc = "c_init_cas"
    /\ IF busy = 0
       THEN busy' = 1 /\ Goto(th, "c_init")
       ELSE UNCHANGED busy /\ Goto(th, "c_base")
    /\ UNCHANGED <<base, cells, arrs, cellv, ops, others>>

\* Under cellsBusy: a table of length 2, capacity 4, with x in slot index&1.
AccInit(th) ==
    LET l == lc[th] IN
    /\ l.pc = "c_init"
    /\ IF cells = NoCells
       THEN /\ arrs' = Append(arrs, [cap |-> 4,
                         slot |-> [j \in 0..3 |-> IF j = SlotOf(l.idx, 1)
                                                  THEN Len(cellv) + 1 ELSE 0]])
            /\ cellv' = Append(cellv, l.x)
            /\ cells' = [arr |-> Len(arrs) + 1, len |-> 2]
            /\ Goto(th, "c_unlock_done")
       ELSE UNCHANGED <<arrs, cellv, cells>> /\ Goto(th, "c_unlock_retry")
    /\ UNCHANGED <<base, busy, ops, others>>

AccBase(th) ==
    /\ lc[th].pc = "c_base"
    /\ Set(th, [lc[th] EXCEPT !.pc = "c_casbase", !.v = base])
    /\ UNCHANGED <<base, busy, cells, arrs, cellv, ops, others>>

AccCasBase(th) ==
    LET l == lc[th] IN
    /\ l.pc = "c_casbase"
    /\ IF base = l.v
       THEN base' = l.v + l.x /\ Goto(th, "idle")
       ELSE UNCHANGED base /\ Goto(th, "c_load")
    /\ UNCHANGED <<busy, cells, arrs, cellv, ops, others>>

(***************************************************************************)
(* JDKAdder.Sum: base, then every non-nil cell of the table it loads.      *)
(* lo is the adder's value when the call starts (a history variable).      *)
(***************************************************************************)
CellsOf(p) == {SlotAt(p, j) : j \in 0..(p.len - 1)} \ {0}
Value == base + MapThenSumSet(LAMBDA c : cellv[c], CellsOf(cells))

SumStart(th) ==
    /\ lc[th].pc = "idle"
    /\ ops < MaxOps
    /\ Set(th, [IdleLocals EXCEPT !.pc = "s_tab", !.acc = base, !.lo = Value])
    /\ ops' = ops + 1
    /\ UNCHANGED <<base, busy, cells, arrs, cellv, others>>

\* Mutant: the walk of the table starts at slot 1.
SumTabFromOne(th) ==
    /\ lc[th].pc = "s_tab"
    /\ Set(th, [lc[th] EXCEPT !.pc = IF cells = NoCells THEN "s_ret" ELSE "s_slot",
                              !.as = cells, !.i = 1])
    /\ UNCHANGED <<base, busy, cells, arrs, cellv, ops, others>>

SumTab(th) ==
    /\ lc[th].pc = "s_tab"
    /\ Set(th, [lc[th] EXCEPT !.pc = IF cells = NoCells THEN "s_ret" ELSE "s_slot",
                              !.as = cells, !.i = 0])
    /\ UNCHANGED <<base, busy, cells, arrs, cellv, ops, others>>

\* as[i].Load(): a nil slot is skipped.
SumSlot(th) ==
    LET l == lc[th]
        a == SlotAt(l.as, l.i)
        last == l.i + 1 = l.as.len
    IN /\ l.pc = "s_slot"
       /\ Set(th, IF a /= 0 THEN [l EXCEPT !.pc = "s_cell", !.a = a]
                  ELSE [l EXCEPT !.pc = IF last THEN "s_ret" ELSE "s_slot", !.i = l.i + 1])
       /\ UNCHANGED <<base, busy, cells, arrs, cellv, ops, others>>

SumCell(th) ==
    LET l == lc[th] IN
    /\ l.pc = "s_cell"
    /\ Set(th, [l EXCEPT !.pc = IF l.i + 1 = l.as.len THEN "s_ret" ELSE "s_slot",
                         !.acc = l.acc + cellv[l.a], !.i = l.i + 1])
    /\ UNCHANGED <<base, busy, cells, arrs, cellv, ops, others>>

\* Sum returns; inside SumAndReset, Reset (Store(0)) follows.
SumRet(th) ==
    /\ lc[th].pc = "s_ret"
    /\ Set(th, IF lc[th].reset THEN [lc[th] EXCEPT !.pc = "r_base", !.x = 0]
               ELSE [lc[th] EXCEPT !.pc = "idle"])
    /\ UNCHANGED <<base, busy, cells, arrs, cellv, ops, others>>

(***************************************************************************)
(* JDKAdder.Store, Reset (Store(0)) and SumAndReset (Sum, then Reset).     *)
(* Their comments make them "only effective if there are no concurrent     *)
(* updates": Next starts one only when every other thread is idle, and     *)
(* starts nothing else until it returns (NoStoreRunning).                  *)
(***************************************************************************)
Quiescent(th) == \A o \in Threads \ {th} : lc[o].pc = "idle"
StorePcs == {"r_base", "r_tab"}
NoStoreRunning ==
    \A o \in Threads : lc[o].pc \notin StorePcs /\ ~lc[o].reset

StoreStart(th, v) ==
    /\ lc[th].pc = "idle"
    /\ ops < MaxOps
    /\ Set(th, [IdleLocals EXCEPT !.pc = "r_base", !.x = v])
    /\ ops' = ops + 1
    /\ UNCHANGED <<base, busy, cells, arrs, cellv, others>>

SumAndResetStart(th) ==
    /\ lc[th].pc = "idle"
    /\ ops < MaxOps
    /\ Set(th, [IdleLocals EXCEPT !.pc = "s_tab", !.acc = base, !.lo = Value,
                                  !.reset = TRUE])
    /\ ops' = ops + 1
    /\ UNCHANGED <<base, busy, cells, arrs, cellv, others>>

\* atomic.StoreInt64(&u.base, v).
StoreBase(th) ==
    /\ lc[th].pc = "r_base"
    /\ base' = lc[th].x
    /\ Goto(th, "r_tab")
    /\ UNCHANGED <<busy, cells, arrs, cellv, ops, others>>

\* A non-nil table is replaced by a new one of the same length (a new
\* backing array, capacity = length) whose every slot holds a new zero cell.
StoreTab(th) ==
    LET n == cells.len IN
    /\ lc[th].pc = "r_tab"
    /\ IF cells = NoCells
       THEN UNCHANGED <<cells, arrs, cellv>>
       ELSE /\ cellv' = cellv \o [j \in 1..n |-> 0]
            /\ arrs' = Append(arrs, [cap |-> n,
                                     slot |-> [j \in 0..(n - 1) |-> Len(cellv) + j + 1]])
            /\ cells' = [arr |-> Len(arrs) + 1, len |-> n]
    /\ Goto(th, "idle")
    /\ UNCHANGED <<base, busy, ops, others>>

(***************************************************************************)
(* Specification                                                           *)
(***************************************************************************)
\* NewJDKAdder: base 0, cellsBusy 0, no table; every thread idle.
NewJDKAdder ==
    /\ base = 0
    /\ busy = 0
    /\ cells = NoCells
    /\ arrs = <<>>
    /\ cellv = <<>>
    /\ lc = [th \in Threads |-> IdleLocals]

Init == NewJDKAdder /\ ops = 0 /\ others = <<>>

Step(th) ==
    \/ AddBase(th) \/ AddCasBase(th) \/ AddSlot(th) \/ AddVal(th) \/ AddCas(th)
    \/ AccLoad(th) \/ AccSlot(th) \/ AccAttachTry(th) \/ AccAttach(th)
    \/ AccUnlock(th) \/ AccVal(th) \/ AccCas(th) \/ AccStale(th)
    \/ AccGrowTry(th) \/ AccGrow(th) \/ AccGrowUnlock(th)
    \/ AccInitTry(th) \/ AccInitCas(th) \/ AccInit(th) \/ AccBase(th)
    \/ AccCasBase(th)
    \/ SumTab(th) \/ SumSlot(th) \/ SumCell(th) \/ SumRet(th)
    \/ StoreBase(th) \/ StoreTab(th)

Next ==
    \E th \in Threads :
        \/ Step(th)
        \/ NoStoreRunning /\ SumStart(th)
        \/ NoStoreRunning /\ \E x \in Deltas : AddStart(th, x)
        \/ Quiescent(th) /\ \E v \in StoreValues : StoreStart(th, v)
        \/ StoreValues /= {} /\ Quiescent(th) /\ SumAndResetStart(th)

Spec == Init /\ [][Next]_vars /\ \A th \in Threads : WF_vars(Step(th))

(***************************************************************************)
(* Properties                                                              *)
(***************************************************************************)
AddPcs == {"a_base", "a_casbase", "a_slot", "a_val", "a_cas", "c_load", "c_slot",
           "c_attach_try", "c_attach", "c_unlock_retry", "c_val", "c_cas",
           "c_stale", "c_grow_try", "c_grow", "c_grow_unlock", "c_init_try",
           "c_init_cas", "c_init", "c_base", "c_casbase"}
Pcs == AddPcs \cup StorePcs \cup {"idle", "c_unlock_done", "s_tab", "s_slot", "s_cell", "s_ret"}
Idx == RandomIdx \cup {[k |-> k, v |-> s] : k \in {"masked", "once"}, s \in Slots}
Ptr == {NoCells} \cup [arr : 1..Len(arrs), len : {2 ^ e : e \in 1..8}]

TypeOK ==
    /\ busy \in {0, 1}
    /\ cells \in Ptr
    /\ \A p \in 1..Len(arrs) :
          arrs[p].slot \in [0..(arrs[p].cap - 1) -> 0..Len(cellv)]
    /\ cells /= NoCells => cells.len <= Cap(cells)
    /\ \A th \in Threads :
          /\ lc[th].pc \in Pcs
          /\ lc[th].idx \in Idx
          /\ lc[th].as \in Ptr
          /\ lc[th].a \in 0..Len(cellv)
          /\ lc[th].reset \in BOOLEAN

\* Add is atomic: every call of Add adds its argument to base plus the
\* cells of the current table exactly once, at the CAS on base or a cell
\* or the store of a new cell, and nothing else changes that sum; in
\* particular the table growth and the racing cell attachments under
\* cellsBusy carry every cell over.
Pending(th) == IF lc[th].pc \in AddPcs THEN lc[th].x ELSE None
\* A Store takes effect at its store of base; until its new table is
\* published the old cells still count in Value, and are not part of the sum.
Stored == IF \E th \in Threads : lc[th].pc = "r_tab"
          THEN lc[CHOOSE th \in Threads : lc[th].pc = "r_tab"].x
          ELSE Value
Abstract == INSTANCE AdderSpec WITH total <- Stored,
                                    pend <- [th \in Threads |-> Pending(th)]
AdderImplementsSpec == Abstract!Spec

\* Sum, which is not a snapshot, returns a value between the adder's value
\* when it started and its value when it returns (all arguments positive).
SumWithinCall ==
    \A th \in Threads :
        lc[th].pc = "s_ret" => lc[th].lo <= lc[th].acc /\ lc[th].acc <= Value

\* The cells table never grows beyond maxCells slots (spec section 2:
\* "may double up to maxCells"); the code stops growing when
\* len(as) - 1 >= maxCells.
TableWithinMaxCells == cells.len <= MaxCells

\* Every Add returns: accumulate's retries end once the other threads stop,
\* and cellsBusy is always released.
AddReturns == \A th \in Threads : lc[th].pc \in AddPcs ~> lc[th].pc = "idle"
====
