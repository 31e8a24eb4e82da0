--------------------------- MODULE CircuitBreaker ---------------------------
(***************************************************************************)
(* NonBlockingCircuitBreaker (src/circuit-breaker/nonBlockingCircuitBreaker.go) *)
(* together with the SlidingWindowCounter that its Closed states own      *)
(* (src/circuit-breaker/slidingWindowCounter.go).                          *)
(*                                                                         *)
(* The breaker holds a pointer to an immutable state record and replaces   *)
(* it by CAS.  A state is identified here by its index in the sequence     *)
(* `st` of every state ever allocated, so a CAS succeeds iff the current   *)
(* index is still the one the caller loaded; no index is ever reused,      *)
(* which is what the garbage-collected pointers of the code guarantee.    *)
(* Every Closed state owns a fresh sliding-window counter (cur bucket,     *)
(* reservoir, snapshot), stored in the same record.  Buckets are shared    *)
(* mutable objects, kept in `bk` and referred to by index.                 *)
(*                                                                         *)
(* Each caller thread runs OnSuccess, OnFailure or CanRequest; every      *)
(* atomic load, CAS, store, queue offer and listener call is one step.    *)
(* trimAndSum is one step: the lock-free queue it iterates is modelled in  *)
(* its own module.  A bucket's striped adders are atomic increments here;  *)
(* the adder is modelled in its own module.                               *)
(***************************************************************************)
EXTENDS Integers, Sequences, FiniteSets, SequencesExt

CONSTANTS
  Threads,          \* caller goroutines
  UpdateInterval,   \* counterUpdateInterval (ticks)
  SlidingWindow,    \* counterSlidingWindow (ticks)
  OpenWindow,       \* circuitOpenWindow (ticks)
  TrialInterval,    \* trialRequestInterval (ticks)
  MinRequests,      \* minimumRequestThreshold
  ThrNum, ThrDen,   \* failureRateThreshold = ThrNum / ThrDen
  MaxTime,          \* bound: last value of the ticker
  MaxOps,           \* bound: number of breaker calls in a behaviour
  MaxStates,        \* bound: number of state records allocated
  MaxBuckets        \* bound: number of buckets allocated

\* CircuitBreakerConfig.Validate, on a config whose durations are in ticks
\* and whose failureRateThreshold is thrNum / thrDen.  minimumRequestThreshold
\* is not checked.
Validate(c) ==
  /\ 0 < c.thrNum /\ c.thrNum <= c.thrDen
  /\ c.trial > 0
  /\ c.open > 0
  /\ c.slide > 0
  /\ c.update > 0
  /\ c.slide > c.update

\* NewCircuitBreakerBuilder: the defaults of consts.go, with a tick of one
\* second (0.8, 10, 3s, 10s, 20s, 1s).
NewCircuitBreakerBuilder ==
  [thrNum |-> 4, thrDen |-> 5, minReq |-> 10,
   trial |-> 3, open |-> 10, slide |-> 20, update |-> 1]

\* The builder's setters: SetFailureRateThreshold stores the rate, and each
\* other setter (SetMinimumRequestThreshold, SetTrialRequestInterval, ...)
\* stores its field; all return the builder.
SetFailureRateThreshold(bld, num, den) == [bld EXCEPT !.thrNum = num, !.thrDen = den]
SetField(bld, f, v) == [bld EXCEPT ![f] = v]

\* Build: NewNonBlockingCircuitBreaker on a config of the builder's fields,
\* which returns an error (BuildFailed) unless the config passes Validate.
BuildFailed == [thrNum |-> 0, thrDen |-> 0, minReq |-> 0,
                trial |-> 0, open |-> 0, slide |-> 0, update |-> 0]
Build(bld) == IF Validate(bld) THEN bld ELSE BuildFailed

\* The modelled breaker's config, built from NewCircuitBreakerBuilder.
Config ==
  LET fields == <<<<"minReq", MinRequests>>, <<"trial", TrialInterval>>,
                  <<"open", OpenWindow>>, <<"slide", SlidingWindow>>,
                  <<"update", UpdateInterval>>>>
  IN Build(FoldLeft(LAMBDA b, p : SetField(b, p[1], p[2]),
                    SetFailureRateThreshold(NewCircuitBreakerBuilder, ThrNum, ThrDen),
                    fields))

\* The model's breaker is one that Build returns, not an error.  The
\* builder's defaults build too: NewClient's test Build with
\* defaultCircuitBreakerBuilder succeeds, and setupCB, which drops Build's
\* error, never gets a nil breaker from it.
ASSUME /\ Config /= BuildFailed /\ MinRequests \in Nat
       /\ Build(NewCircuitBreakerBuilder) /= BuildFailed

Closed == "Closed"
Open == "Open"
HalfOpen == "HalfOpen"

VARIABLES
  now,      \* the Ticker's current value
  st,       \* every nonBlockingCircuitBreakerState allocated, by index
  cb,       \* nb.s: index of the current state
  bk,       \* every bucket allocated: [ts, s, f, g] (g = owning state)
  trimmed,  \* buckets removed from a reservoir by trimAndSum (history)
  lsState,  \* last state passed to the listener's OnStateChanged
  lsCount,  \* last count passed to the listener's OnEventCountUpdated
  ops,      \* breaker calls started so far
  pc,       \* per thread: where in its call it is
  op,       \* per thread: "success", "failure" or "canRequest"
  lst,      \* per thread: currentState loaded (then the state it installed)
  tick,     \* per thread: tickerNanos read by onEvent
  bkt,      \* per thread: currentBucket loaded by onEvent
  nxt,      \* per thread: nextBucket created by onEvent
  cnt       \* per thread: EventCount returned by onEvent

vars == <<now, st, cb, bk, trimmed, lsState, lsCount, ops,
          pc, op, lst, tick, bkt, nxt, cnt>>
locals == <<pc, op, lst, tick, bkt, nxt, cnt>>

EventCountZero == [s |-> 0, f |-> 0]
NoCount == [s |-> -1, f |-> -1]           \* onEvent returned nil

Ops == {"success", "failure", "canRequest"}
Pcs == {"idle", "sw_tick", "sw_cur", "sw_add", "sw_cas", "sw_offer",
        "sw_trim", "sw_store", "trip", "cas_close", "cas_open", "cas_half",
        "notify_state", "notify_count"}

-----------------------------------------------------------------------------
(* State records and buckets.                                              *)

\* newBucket(ts) followed by bucket.add(succ)
NewBucket(ts, g, succ) ==
  [ts |-> ts, g |-> g, s |-> IF succ THEN 1 ELSE 0, f |-> IF succ THEN 0 ELSE 1]

\* A counter is its current bucket cur, its reservoir res and its snapshot
\* snap; snapAt is history: the tick of the trimAndSum whose result snap holds.
\* NewSlidingWindowCounter: the bucket cur (newBucket(ticker.Tick())), an
\* empty reservoir, snapshot.Store(EventCountZero).
NewSlidingWindowCounter(cur) ==
  [cur |-> cur, res |-> <<>>, snap |-> EventCountZero, snapAt |-> now]

\* noOpCounter: no bucket (cur = 0); Count is EventCountZero and its
\* OnSuccess and OnFailure return nil.
NoOpCounter == [cur |-> 0, res |-> <<>>, snap |-> EventCountZero, snapAt |-> now]

\* newNonBlockingCircuitBreakerState: timeout = Tick() + timedOutTimeNanos.
StateRec(cs, wait, ctr) ==
  [cs |-> cs, wait |-> wait, timeout |-> now + wait, cur |-> ctr.cur,
   res |-> ctr.res, snap |-> ctr.snap, snapAt |-> ctr.snapAt]

\* newOpenState / newHalfOpenState: no-op counter (cur = 0).
AllocTripped(cs, wait) ==
  /\ st' = Append(st, StateRec(cs, wait, NoOpCounter))
  /\ cb' = Len(st) + 1
  /\ UNCHANGED bk

\* newClosedState: a fresh sliding-window counter whose current bucket is
\* newBucket(ticker.Tick()) with no event in it.
AllocClosed ==
  /\ bk' = Append(bk, [ts |-> now, g |-> Len(st) + 1, s |-> 0, f |-> 0])
  /\ st' = Append(st, StateRec(Closed, 0, NewSlidingWindowCounter(Len(bk) + 1)))
  /\ cb' = Len(st) + 1

\* checkTimeout
TimedOut(s) == s.wait > 0 /\ s.timeout <= now

\* checkIfExceedingFailureThreshold, with the float comparison
\* failureRateThreshold < failure/total done on integers.
Exceeds(c) ==
  LET total == c.s + c.f
  IN  /\ 0 < total
      /\ MinRequests <= total
      /\ ThrNum * total < c.f * ThrDen

Succ(th) == op[th] = "success"

SetPc(th, p) == pc' = [pc EXCEPT ![th] = p]

Busy == {th \in Threads : pc[th] /= "idle"}

-----------------------------------------------------------------------------
(* The calls.  Each starts by loading nb.state() and dispatching on it.    *)

\* OnSuccess / OnFailure / CanRequest: currentState := nb.state().
\* A Closed CanRequest returns true at once; OnSuccess/OnFailure on an
\* Open state do nothing.
Start(th, o) ==
  LET k == st[cb].cs
  IN
  /\ pc[th] = "idle"
  /\ ops < MaxOps
  /\ Len(st) + Cardinality(Busy) < MaxStates
  /\ Len(bk) + Cardinality(Busy) < MaxBuckets
  /\ ops' = ops + 1
  /\ op' = [op EXCEPT ![th] = o]
  /\ lst' = [lst EXCEPT ![th] = cb]
  /\ SetPc(th,
       CASE k = Closed   /\ o = "canRequest" -> "idle"
         [] k = Closed                        -> "sw_tick"
         [] o = "canRequest"                  -> "cas_half"
         [] k = HalfOpen /\ o = "success"     -> "cas_close"
         [] k = HalfOpen /\ o = "failure"     -> "cas_open"
         [] OTHER                             -> "idle")
  /\ UNCHANGED <<now, st, cb, bk, trimmed, lsState, lsCount, tick, bkt, nxt, cnt>>

CasHalf(th) ==
  /\ pc[th] = "cas_half"
  /\ IF TimedOut(st[lst[th]]) /\ cb = lst[th]
       THEN /\ AllocTripped(HalfOpen, TrialInterval)
            /\ lst' = [lst EXCEPT ![th] = Len(st) + 1]
            /\ SetPc(th, "notify_state")
       ELSE /\ SetPc(th, "idle")
            /\ UNCHANGED <<st, cb, bk, lst>>
  /\ UNCHANGED <<now, trimmed, lsState, lsCount, ops, op, tick, bkt, nxt, cnt>>

\* OnSuccess on HalfOpen: casState(cur, newClosedState()).
CasClose(th) ==
  /\ pc[th] = "cas_close"
  /\ IF cb = lst[th]
       THEN /\ AllocClosed
            /\ lst' = [lst EXCEPT ![th] = Len(st) + 1]
            /\ SetPc(th, "notify_state")
       ELSE /\ SetPc(th, "idle")
            /\ UNCHANGED <<st, cb, bk, lst>>
  /\ UNCHANGED <<now, trimmed, lsState, lsCount, ops, op, tick, bkt, nxt, cnt>>

\* OnFailure on HalfOpen: casState(cur, newOpenState()).
CasOpen(th) ==
  /\ pc[th] = "cas_open"
  /\ IF cb = lst[th]
       THEN /\ AllocTripped(Open, OpenWindow)
            /\ lst' = [lst EXCEPT ![th] = Len(st) + 1]
            /\ SetPc(th, "notify_state")
       ELSE /\ SetPc(th, "idle")
            /\ UNCHANGED <<st, cb, bk, lst>>
  /\ UNCHANGED <<now, trimmed, lsState, lsCount, ops, op, tick, bkt, nxt, cnt>>

\* OnFailure on Closed once the counter returned a count:
\* checkIfExceedingFailureThreshold(count) && casState(cur, newOpenState()),
\* else notifyCountUpdated(count).
Trip(th) ==
  /\ pc[th] = "trip"
  /\ IF Exceeds(cnt[th]) /\ cb = lst[th]
       THEN /\ AllocTripped(Open, OpenWindow)
            /\ lst' = [lst EXCEPT ![th] = Len(st) + 1]
            /\ SetPc(th, "notify_state")
       ELSE /\ SetPc(th, "notify_count")
            /\ UNCHANGED <<st, cb, bk, lst>>
  /\ UNCHANGED <<now, trimmed, lsState, lsCount, ops, op, tick, bkt, nxt, cnt>>

\* notifyStateChanged: OnStateChanged(state) then OnEventCountUpdated(zero).
NotifyState(th) ==
  /\ pc[th] = "notify_state"
  /\ lsState' = st[lst[th]].cs
  /\ lsCount' = EventCountZero
  /\ SetPc(th, "idle")
  /\ UNCHANGED <<now, st, cb, bk, trimmed, ops, op, lst, tick, bkt, nxt, cnt>>

\* notifyCountUpdated(count)
NotifyCount(th) ==
  /\ pc[th] = "notify_count"
  /\ lsCount' = cnt[th]
  /\ SetPc(th, "idle")
  /\ UNCHANGED <<now, st, cb, bk, trimmed, lsState, ops, op, lst, tick, bkt, nxt, cnt>>

-----------------------------------------------------------------------------
(* SlidingWindowCounter.onEvent on the counter of Closed state lst[th].    *)

\* Mutant of Return: the breaker forgets the updatedCount != nil check and
\* notifies (or checks the threshold of) a nil count.
ReturnNoNilCheck(th, c) ==
  /\ cnt' = [cnt EXCEPT ![th] = c]
  /\ SetPc(th, IF Succ(th) THEN "notify_count" ELSE "trip")

\* What the breaker does with onEvent's result: nil ends the call.
Return(th, c) ==
  /\ cnt' = [cnt EXCEPT ![th] = c]
  /\ SetPc(th, IF c = NoCount THEN "idle"
               ELSE IF Succ(th) THEN "notify_count" ELSE "trip")

\* tickerNanos := s.ticker.Tick()
SwTick(th) ==
  /\ pc[th] = "sw_tick"
  /\ tick' = [tick EXCEPT ![th] = now]
  /\ SetPc(th, "sw_cur")
  /\ UNCHANGED <<now, st, cb, bk, trimmed, lsState, lsCount, ops, op, lst, bkt, nxt, cnt>>

\* currentBucket := s.current(), then the three branches of onEvent.
\* A bucket younger than the tick read (another thread rolled over in
\* between) makes an instant bucket that is offered to the reservoir.
SwCur(th) ==
  LET g == lst[th]
      c == st[g].cur
      t == tick[th]
      new == NewBucket(t, g, Succ(th))
  IN
  /\ pc[th] = "sw_cur"
  /\ bkt' = [bkt EXCEPT ![th] = c]
  /\ CASE t < bk[c].ts ->
            /\ bk' = Append(bk, new)
            /\ st' = [st EXCEPT ![g].res = Append(@, Len(bk) + 1)]
            /\ Return(th, NoCount)
            /\ UNCHANGED nxt
       [] t < bk[c].ts + UpdateInterval ->
            /\ SetPc(th, "sw_add")
            /\ UNCHANGED <<bk, st, nxt, cnt>>
       [] OTHER ->
            /\ bk' = Append(bk, new)
            /\ nxt' = [nxt EXCEPT ![th] = Len(bk) + 1]
            /\ SetPc(th, "sw_cas")
            /\ UNCHANGED <<st, cnt>>
  /\ UNCHANGED <<now, cb, trimmed, lsState, lsCount, ops, op, lst, tick>>

\* currentBucket.add(succ): an atomic add on one of its adders.
SwAdd(th) ==
  LET b == bkt[th]
  IN
  /\ pc[th] = "sw_add"
  /\ bk' = IF Succ(th) THEN [bk EXCEPT ![b].s = @ + 1]
                       ELSE [bk EXCEPT ![b].f = @ + 1]
  /\ Return(th, NoCount)
  /\ UNCHANGED <<now, st, cb, trimmed, lsState, lsCount, ops, op, lst, tick, bkt, nxt>>

\* Mutant of SwCas: the loser of the CAS drops its next bucket instead of
\* offering it to the reservoir.
SwCasLoserDropped(th) ==
  LET g == lst[th]
  IN
  /\ pc[th] = "sw_cas"
  /\ IF st[g].cur = bkt[th]
       THEN /\ st' = [st EXCEPT ![g].cur = nxt[th]]
            /\ SetPc(th, "sw_offer")
            /\ UNCHANGED cnt
       ELSE /\ UNCHANGED st
            /\ Return(th, NoCount)
  /\ UNCHANGED <<now, cb, bk, trimmed, lsState, lsCount, ops, op, lst, tick, bkt, nxt>>

\* casCurrent(currentBucket, nextBucket); the loser offers nextBucket as an
\* instant bucket and returns nil.
SwCas(th) ==
  LET g == lst[th]
  IN
  /\ pc[th] = "sw_cas"
  /\ IF st[g].cur = bkt[th]
       THEN /\ st' = [st EXCEPT ![g].cur = nxt[th]]
            /\ SetPc(th, "sw_offer")
            /\ UNCHANGED cnt
       ELSE /\ st' = [st EXCEPT ![g].res = Append(@, nxt[th])]
            /\ Return(th, NoCount)
  /\ UNCHANGED <<now, cb, bk, trimmed, lsState, lsCount, ops, op, lst, tick, bkt, nxt>>

\* s.reservoir.Offer(currentBucket)
SwOffer(th) ==
  LET g == lst[th]
  IN
  /\ pc[th] = "sw_offer"
  /\ st' = [st EXCEPT ![g].res = Append(@, bkt[th])]
  /\ SetPc(th, "sw_trim")
  /\ UNCHANGED <<now, cb, bk, trimmed, lsState, lsCount, ops, op, lst, tick, bkt, nxt, cnt>>

\* trimAndSum(tickerNanos): remove buckets older than tick - window, sum
\* the success and failure counts of the others.
SwTrim(th) ==
  LET g     == lst[th]
      limit == tick[th] - SlidingWindow
      Keep(i) == bk[i].ts >= limit
      kept  == SelectSeq(st[g].res, Keep)
      gone  == ToSet(st[g].res) \ ToSet(kept)
      Sum(fld) == FoldSeq(LAMBDA i, acc : acc + bk[i][fld], 0, kept)
  IN
  /\ pc[th] = "sw_trim"
  /\ st' = [st EXCEPT ![g].res = kept]
  /\ trimmed' = trimmed \cup gone
  /\ cnt' = [cnt EXCEPT ![th] = [s |-> Sum("s"), f |-> Sum("f")]]
  /\ SetPc(th, "sw_store")
  /\ UNCHANGED <<now, cb, bk, lsState, lsCount, ops, op, lst, tick, bkt, nxt>>

\* s.snapshot.Store(e); onEvent returns e.
SwStore(th) ==
  LET g == lst[th]
  IN
  /\ pc[th] = "sw_store"
  /\ st' = [st EXCEPT ![g].snap = cnt[th], ![g].snapAt = tick[th]]
  /\ Return(th, cnt[th])
  /\ UNCHANGED <<now, cb, bk, trimmed, lsState, lsCount, ops, op, lst, tick, bkt, nxt>>

-----------------------------------------------------------------------------
\* The monotonic ticker advances.
Tick ==
  /\ now < MaxTime
  /\ now' = now + 1
  /\ UNCHANGED <<st, cb, bk, trimmed, lsState, lsCount, ops, locals>>

\* NewNonBlockingCircuitBreaker: a Closed state, notified to the listener.
Init ==
  /\ now = 0
  /\ bk = <<[ts |-> 0, g |-> 1, s |-> 0, f |-> 0]>>
  /\ st = <<StateRec(Closed, 0, NewSlidingWindowCounter(1))>>
  /\ cb = 1
  /\ trimmed = {}
  /\ lsState = Closed
  /\ lsCount = EventCountZero
  /\ ops = 0
  /\ pc = [th \in Threads |-> "idle"]
  /\ op = [th \in Threads |-> "canRequest"]
  /\ lst = [th \in Threads |-> 1]
  /\ tick = [th \in Threads |-> 0]
  /\ bkt = [th \in Threads |-> 1]
  /\ nxt = [th \in Threads |-> 1]
  /\ cnt = [th \in Threads |-> NoCount]

Next ==
  \/ Tick
  \/ \E th \in Threads :
       \/ \E o \in Ops : Start(th, o)
       \/ CasHalf(th) \/ CasClose(th) \/ CasOpen(th) \/ Trip(th)
       \/ NotifyState(th) \/ NotifyCount(th)
       \/ SwTick(th) \/ SwCur(th) \/ SwAdd(th) \/ SwCas(th)
       \/ SwOffer(th) \/ SwTrim(th) \/ SwStore(th)

Spec == Init /\ [][Next]_vars

-----------------------------------------------------------------------------
(* Properties.                                                             *)

Kinds == {Closed, Open, HalfOpen}
Count == [s : Nat, f : Nat]

TypeOK ==
  /\ now \in 0..MaxTime
  /\ cb \in 1..Len(st)
  /\ \A i \in 1..Len(st) :
       /\ st[i].cs \in Kinds
       /\ st[i].res \in Seq(1..Len(bk))
       /\ st[i].snap \in Count
  /\ \A i \in 1..Len(bk) : bk[i].g \in 1..Len(st)
  /\ trimmed \subseteq 1..Len(bk)
  /\ lsState \in Kinds /\ lsCount \in Count
  /\ pc \in [Threads -> Pcs]
  /\ op \in [Threads -> Ops]
  /\ cnt \in [Threads -> Count \cup {NoCount}]

\* The breaker implements CircuitBreakerSpec: seen through the current
\* state record, every step of the callers is a step of the one-state
\* table (Closed->Open, Open/HalfOpen->HalfOpen once the deadline has
\* passed, HalfOpen->Closed, HalfOpen->Open) with the deadline it sets, or
\* leaves the breaker as it was.  A caller that acts on a state it loaded
\* before another caller replaced it must lose its CAS for this to hold.
Abstract == INSTANCE CircuitBreakerSpec
              WITH state <- st[cb].cs, deadline <- st[cb].timeout

Held(th, i) ==
  \/ pc[th] = "sw_cas" /\ nxt[th] = i
  \/ pc[th] = "sw_offer" /\ bkt[th] = i

NoBucketLost ==
  st[cb].cs = Closed =>
    \A i \in 1..Len(bk) :
      bk[i].g = cb =>
        \/ i = st[cb].cur
        \/ Contains(st[cb].res, i)
        \/ i \in trimmed
        \/ \E th \in Threads : Held(th, i)

\* Spec section 5: "Sliding-window snapshot publications are totally ordered
\* by CAS on the current-bucket pointer."  Then Count() never goes back to
\* a snapshot older than one it already returned: the trimAndSum tick of the
\* published snapshot never decreases.  onEvent stores the snapshot after
\* the CAS, the Offer and the trim, as separate steps.
SnapshotPublishedInOrder ==
  [][\A g \in 1..Len(st) : st'[g].snapAt >= st[g].snapAt]_vars

\* A listener that tracks the breaker by OnStateChanged ends up with the
\* breaker's state: once no call is in progress, the last state notified is
\* the current one.  The CAS and the notification are separate steps.
ListenerSeesCurrentState ==
  Busy = {} => lsState = st[cb].cs

=============================================================================
