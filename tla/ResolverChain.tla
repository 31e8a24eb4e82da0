---------------------------- MODULE ResolverChain ----------------------------
(***************************************************************************)
(* The resolver chain of a Client built by NewClient with its endpoints    *)
(* and no user resolvers (resolver_chain.go, client.go): the chain's three *)
(* pipes of capacity 1; the health checker goroutine (healthChecker.Resolve, *)
(* resolver_healthchecker.go) fanning one dial task per endpoint out to    *)
(* the worker pool and the results back in through a channel of capacity  *)
(* 8; the LB installer goroutine (Client.Resolve); and the caller's push,  *)
(* wait and Close.  The worker pool's source is not in the repository: it  *)
(* is modelled from the spec (4.5): a bounded task queue that Do blocks    *)
(* on, consumed by NumberWorker workers, stopped by Stop.                  *)
(*                                                                         *)
(* Breakers are represented by a generation per endpoint: setupCB gives    *)
(* the endpoint a fresh breaker.                                           *)
(***************************************************************************)
EXTENDS Integers, Sequences, SequencesExt

CONSTANTS
    Endpoints,      \* the *Endpoint objects
    InitEndpoints,  \* the endpoints given to NewClient, a sequence
    Workers,        \* the pool's workers (NumberWorker = numCPU)
    QueueCap,       \* capacity of the pool's task queue
    ChCap,          \* capacity of the health checker's result channel (8)
    MaxTicks        \* bound on the health checker's ticker

VARIABLES
    pipe,       \* pipe[i]: chain.pipes[i], [buf, closed], i \in 0..2
    caller,     \* the NewClient/Close caller: [pc, ready]
    latch,      \* resolverChain.ready
    wg,         \* chain.wg: resolver goroutines still running
    hc,         \* health checker locals: [pc, eps, sub, got, resolved]
    ticks,      \* ticks of the health checker's ticker so far
    queue,      \* the pool's task queue: endpoint indices
    stopped,    \* the pool was stopped
    wk,         \* wk[w]: [pc, res], the worker's dial result
    ch,         \* the health checker's result channel
    inst,       \* installer locals: [pc, eps, current]
    lb,         \* the endpoints of the published LB (c.lb)
    chainReady, \* c.chainReady
    gen         \* gen[e]: generation of e's breaker

vars == <<pipe, caller, latch, wg, hc, ticks, queue, stopped, wk, ch, inst,
          lb, chainReady, gen>>

\* NewClient: no endpoints and no user resolvers is ErrNoEndpoints; else
\* the chain runs the user resolvers, then the default health checker, then
\* the client itself (the LB installer).  The model's client has no user
\* resolvers.
ErrNoEndpoints == "ErrNoEndpoints"
NewClientResolvers(eps, resolvers) ==
    IF Len(eps) = 0 /\ resolvers = <<>> THEN ErrNoEndpoints
    ELSE resolvers \o <<"healthChecker", "client">>
Resolvers == NewClientResolvers(InitEndpoints, <<>>)
ASSUME Resolvers /= ErrNoEndpoints

\* newResolverChain: n resolvers and n + 1 pipes.
Pipes == 0..Len(Resolvers)
Nil == <<>>     \* the nil Endpoints Client.Resolve signals readiness with

\* A send on a pipe of capacity 1 and a receive from it.
CanSend(i) == Len(pipe[i].buf) < 1
Send(i, v) == pipe' = [pipe EXCEPT ![i].buf = Append(@, v)]
Recv(i) == pipe' = [pipe EXCEPT ![i].buf = Tail(@)]
Close(i) == pipe' = [pipe EXCEPT ![i].closed = TRUE]
\* A receive from a closed, drained pipe returns at once with ok = false.
Drained(i) == pipe[i].closed /\ pipe[i].buf = <<>>

\* The worker pool (spec 4.5): Do blocks until the task fits in the queue;
\* Stop ends the workers.
PoolQueue == Len(queue) < QueueCap
PoolStop == stopped' = TRUE

Init ==
    /\ pipe = [i \in Pipes |-> [buf |-> <<>>, closed |-> FALSE]]
    /\ caller = [pc |-> IF Len(InitEndpoints) > 0 THEN "push" ELSE "wait", ready |-> FALSE]
    /\ latch = 0
    /\ wg = Len(Resolvers)
    /\ hc = [pc |-> "select", eps |-> <<>>, sub |-> 0, got |-> 0, resolved |-> <<>>]
    /\ ticks = 0
    /\ queue = <<>>
    /\ stopped = FALSE
    /\ wk = [w \in Workers |-> [pc |-> "idle", res |-> -1]]
    /\ ch = <<>>
    /\ inst = [pc |-> "recv", eps |-> <<>>, current |-> <<>>]
    /\ lb = <<>>
    /\ chainReady = 0
    /\ gen = [e \in Endpoints |-> 0]

chainVars == <<latch, wg>>
hcVars == <<hc, ticks, queue, stopped, wk, ch>>
instVars == <<inst, lb, chainReady, gen>>

(***************************************************************************)
(* The caller: NewClient pushes its endpoints into pipe 0 and waits for    *)
(* the chain with a timeout; Close closes pipe 0 and waits for the         *)
(* resolver goroutines.                                                    *)
(***************************************************************************)
Push ==
    /\ caller.pc = "push"
    /\ CanSend(0)
    /\ Send(0, InitEndpoints)
    /\ caller' = [caller EXCEPT !.pc = "wait"]
    /\ UNCHANGED <<chainVars, hcVars, instVars>>

\* wait: the first caller wins the latch CAS and blocks.
WaitStart ==
    /\ caller.pc = "wait"
    /\ latch = 0
    /\ latch' = 1
    /\ caller' = [caller EXCEPT !.pc = "waiting"]
    /\ UNCHANGED <<pipe, wg, hcVars, instVars>>

WaitReady ==
    /\ caller.pc = "waiting"
    /\ pipe[Len(Resolvers)].buf /= <<>> \/ pipe[Len(Resolvers)].closed
    /\ IF pipe[Len(Resolvers)].buf /= <<>> THEN Recv(Len(Resolvers)) ELSE UNCHANGED pipe
    /\ latch' = 2
    /\ caller' = [pc |-> "run", ready |-> TRUE]
    /\ UNCHANGED <<wg, hcVars, instVars>>

WaitTimeout ==
    /\ caller.pc = "waiting"
    /\ latch' = 0
    /\ caller' = [pc |-> "run", ready |-> FALSE]
    /\ UNCHANGED <<pipe, wg, hcVars, instVars>>

CloseStart ==
    /\ caller.pc = "run"
    /\ Close(0)
    /\ caller' = [caller EXCEPT !.pc = "closing"]
    /\ UNCHANGED <<chainVars, hcVars, instVars>>

CloseWait ==
    /\ caller.pc = "closing"
    /\ wg = 0
    /\ caller' = [caller EXCEPT !.pc = "closed"]
    /\ UNCHANGED <<pipe, chainVars, hcVars, instVars>>

(***************************************************************************)
(* The health checker goroutine.  do(endpoints) submits one dial task per  *)
(* endpoint (pc "do", sub tasks submitted), then reads as many results     *)
(* (got), then forwards the healthy endpoints if there are any.            *)
(***************************************************************************)
StartDo(eps) ==
    IF Len(eps) > 0
    THEN hc' = [pc |-> "do", eps |-> eps, sub |-> 0, got |-> 0, resolved |-> <<>>]
    ELSE hc' = [hc EXCEPT !.eps = eps]

\* case eps, ok := <-in: a non-empty list (NewClient normalized it) becomes
\* the endpoints and is checked at once.
HealthRecv ==
    /\ hc.pc = "select"
    /\ pipe[0].buf /= <<>>
    /\ Recv(0)
    /\ IF Len(Head(pipe[0].buf)) > 0 THEN StartDo(Head(pipe[0].buf)) ELSE UNCHANGED hc
    /\ UNCHANGED <<caller, chainVars, ticks, queue, stopped, wk, ch, instVars>>

\* case <-ticker.C: check the current endpoints again.
HealthTick ==
    /\ hc.pc = "select"
    /\ ticks < MaxTicks
    /\ ticks' = ticks + 1
    /\ StartDo(hc.eps)
    /\ UNCHANGED <<pipe, caller, chainVars, queue, stopped, wk, ch, instVars>>

\* !ok: stop the ticker and the pool and return; the chain goroutine then
\* closes pipe 1 and calls wg.Done.
HealthExit ==
    /\ hc.pc = "select"
    /\ Drained(0)
    /\ PoolStop
    /\ Close(1)
    /\ wg' = wg - 1
    /\ hc' = [hc EXCEPT !.pc = "done"]
    /\ UNCHANGED <<caller, latch, ticks, queue, wk, ch, instVars>>

\* Mutant of HealthSubmit: the task is built with index i+1 for endpoints[i].
HealthSubmitIndexOffByOne ==
    /\ hc.pc = "do"
    /\ hc.sub < Len(hc.eps)
    /\ PoolQueue
    /\ queue' = Append(queue, hc.sub + 1)
    /\ hc' = [hc EXCEPT !.sub = @ + 1]
    /\ UNCHANGED <<pipe, caller, chainVars, ticks, stopped, wk, ch, instVars>>

\* h.workers.Do(doHealthCheck(i, ...)): blocks while the task queue is full.
HealthSubmit ==
    /\ hc.pc = "do"
    /\ hc.sub < Len(hc.eps)
    /\ PoolQueue
    /\ queue' = Append(queue, hc.sub)
    /\ hc' = [hc EXCEPT !.sub = @ + 1]
    /\ UNCHANGED <<pipe, caller, chainVars, ticks, stopped, wk, ch, instVars>>

\* ind := <-ch: a healthy index adds endpoints[ind] to resolved.
HealthCollect ==
    /\ hc.pc = "do"
    /\ hc.sub = Len(hc.eps) /\ hc.got < Len(hc.eps)
    /\ ch /= <<>>
    /\ ch' = Tail(ch)
    /\ hc' = [hc EXCEPT !.got = @ + 1,
                        !.resolved = IF Head(ch) >= 0
                                     THEN Append(@, hc.eps[Head(ch) + 1]) ELSE @]
    /\ UNCHANGED <<pipe, caller, chainVars, ticks, queue, stopped, wk, instVars>>

\* Mutant of HealthSend: do() stops collecting one result short.
HealthSendEarly ==
    /\ hc.pc = "do"
    /\ hc.sub = Len(hc.eps) /\ hc.got = Len(hc.eps) - 1
    /\ \/ hc.resolved /= <<>> /\ CanSend(1) /\ Send(1, hc.resolved)
       \/ hc.resolved = <<>> /\ UNCHANGED pipe
    /\ hc' = [hc EXCEPT !.pc = "select"]
    /\ UNCHANGED <<caller, chainVars, ticks, queue, stopped, wk, ch, instVars>>

\* out <- resolved, when some endpoint answered; blocks while pipe 1 is full.
HealthSend ==
    /\ hc.pc = "do"
    /\ hc.sub = Len(hc.eps) /\ hc.got = Len(hc.eps)
    /\ \/ hc.resolved /= <<>> /\ CanSend(1) /\ Send(1, hc.resolved)
       \/ hc.resolved = <<>> /\ UNCHANGED pipe
    /\ hc' = [hc EXCEPT !.pc = "select"]
    /\ UNCHANGED <<caller, chainVars, ticks, queue, stopped, wk, ch, instVars>>

(***************************************************************************)
(* A worker of the pool: dequeue a task and dial, then out <- index or -1, *)
(* blocking while the result channel is full.                              *)
(***************************************************************************)
WorkerDial(w) ==
    /\ wk[w].pc = "idle"
    /\ ~stopped
    /\ queue /= <<>>
    /\ queue' = Tail(queue)
    /\ \E ok \in BOOLEAN :
          wk' = [wk EXCEPT ![w] = [pc |-> "send", res |-> IF ok THEN Head(queue) ELSE -1]]
    /\ UNCHANGED <<pipe, caller, chainVars, hc, ticks, stopped, ch, instVars>>

WorkerSend(w) ==
    /\ wk[w].pc = "send"
    /\ Len(ch) < ChCap
    /\ ch' = Append(ch, wk[w].res)
    /\ wk' = [wk EXCEPT ![w].pc = "idle"]
    /\ UNCHANGED <<pipe, caller, chainVars, hc, ticks, queue, stopped, instVars>>

(***************************************************************************)
(* The LB installer goroutine, Client.Resolve: a list that differs from    *)
(* currentEndpoints (Endpoints.Equal compares position by position)        *)
(* becomes current and gets a fresh breaker on every endpoint; then the LB *)
(* is stored; then the first install signals the chain.                    *)
(***************************************************************************)
\* Endpoints.Equal: same length and Endpoint.Equal position by position; an
\* endpoint is a model value standing for its host, scheme, user and metadata.
EndpointsEqual(a, b) ==
    Len(a) = Len(b) /\ \A i \in 1..Len(a) : a[i] = b[i]

\* Mutant of InstallRecv: chain-ready is signalled before the LB is stored.
InstallRecvSignalFirst ==
    /\ inst.pc = "recv"
    /\ pipe[1].buf /= <<>>
    /\ Recv(1)
    /\ LET eps == Head(pipe[1].buf) IN
       \/ /\ Len(eps) > 0 /\ ~EndpointsEqual(eps, inst.current)
          /\ inst' = [pc |-> "signal", eps |-> eps, current |-> eps]
          /\ gen' = [e \in Endpoints |-> IF e \in ToSet(eps) THEN gen[e] + 1 ELSE gen[e]]
       \/ /\ Len(eps) = 0 \/ EndpointsEqual(eps, inst.current)
          /\ UNCHANGED <<inst, gen>>
    /\ UNCHANGED <<caller, chainVars, hcVars, lb, chainReady>>

InstallRecv ==
    /\ inst.pc = "recv"
    /\ pipe[1].buf /= <<>>
    /\ Recv(1)
    /\ LET eps == Head(pipe[1].buf) IN
       \/ /\ Len(eps) > 0 /\ ~EndpointsEqual(eps, inst.current)
          /\ inst' = [pc |-> "store", eps |-> eps, current |-> eps]
          /\ gen' = [e \in Endpoints |-> IF e \in ToSet(eps) THEN gen[e] + 1 ELSE gen[e]]
       \/ /\ Len(eps) = 0 \/ EndpointsEqual(eps, inst.current)
          /\ UNCHANGED <<inst, gen>>
    /\ UNCHANGED <<caller, chainVars, hcVars, lb, chainReady>>

InstallStore ==
    /\ inst.pc = "store"
    /\ lb' = inst.eps
    /\ inst' = [inst EXCEPT !.pc = "signal"]
    /\ UNCHANGED <<pipe, caller, chainVars, hcVars, chainReady, gen>>

\* Mutant of InstallSignal: every install sends nil, without the CAS.
InstallSignalEvery ==
    /\ inst.pc = "signal"
    /\ CanSend(2) /\ Send(2, Nil) /\ chainReady' = 1
    /\ inst' = [inst EXCEPT !.pc = "recv"]
    /\ UNCHANGED <<caller, chainVars, hcVars, lb, gen>>

\* if atomic.CompareAndSwapInt32(&c.chainReady, 0, 1) { out <- nil }
InstallSignal ==
    /\ inst.pc = "signal"
    /\ \/ chainReady = 0 /\ CanSend(2) /\ Send(2, Nil) /\ chainReady' = 1
       \/ chainReady /= 0 /\ UNCHANGED <<pipe, chainReady>>
    /\ inst' = [inst EXCEPT !.pc = "recv"]
    /\ UNCHANGED <<caller, chainVars, hcVars, lb, gen>>

\* The range over pipe 1 ends; the chain goroutine closes pipe 2, wg.Done.
InstallExit ==
    /\ inst.pc = "recv"
    /\ Drained(1)
    /\ Close(2)
    /\ wg' = wg - 1
    /\ inst' = [inst EXCEPT !.pc = "done"]
    /\ UNCHANGED <<caller, latch, hcVars, lb, chainReady, gen>>

(***************************************************************************)
(* Each goroutine's steps, the timer of wait included, are weakly fair.    *)
(* The ticker and the caller's decision to Close are the environment.      *)
(***************************************************************************)
CallerStep == Push \/ WaitStart \/ WaitReady \/ WaitTimeout \/ CloseWait
HealthStep == HealthRecv \/ HealthExit \/ HealthSubmit \/ HealthCollect \/ HealthSend
InstallStep == InstallRecv \/ InstallStore \/ InstallSignal \/ InstallExit

Next ==
    \/ CallerStep \/ CloseStart
    \/ HealthStep \/ HealthTick
    \/ \E w \in Workers : WorkerDial(w) \/ WorkerSend(w)
    \/ InstallStep

Spec ==
    /\ Init /\ [][Next]_vars
    /\ WF_vars(CallerStep) /\ WF_vars(HealthStep) /\ WF_vars(InstallStep)
    /\ \A w \in Workers : WF_vars(WorkerDial(w) \/ WorkerSend(w))

(***************************************************************************)
(* Properties                                                              *)
(***************************************************************************)
EndpointSeqs ==
    UNION {{s \in [1..n -> Endpoints] : Len(s) = Cardinality(ToSet(s))} :
              n \in 0..Cardinality(Endpoints)}

TypeOK ==
    /\ \A i \in Pipes : Len(pipe[i].buf) <= 1
    /\ pipe[0].buf \in Seq(EndpointSeqs) /\ pipe[1].buf \in Seq(EndpointSeqs)
    /\ caller \in [pc : {"push", "wait", "waiting", "run", "closing", "closed"},
                   ready : BOOLEAN]
    /\ latch \in 0..2 /\ wg \in 0..2
    /\ hc.pc \in {"select", "do", "done"}
    /\ hc.sub \in 0..Len(hc.eps) /\ hc.got \in 0..hc.sub
    /\ Len(queue) <= QueueCap /\ Len(ch) <= ChCap
    /\ wk \in [Workers -> [pc : {"idle", "send"}, res : -1..Len(InitEndpoints) - 1]]
    /\ inst.pc \in {"recv", "store", "signal", "done"}
    /\ lb \in EndpointSeqs /\ chainReady \in 0..1
    /\ gen \in [Endpoints -> Nat]

\* NewClient reports the chain ready only once an LB is published, and every
\* endpoint of that LB already has its breaker (Client.Resolve stores the LB
\* before the chainReady CAS sends nil; wait reads that nil).
ReadyMeansInstalled ==
    caller.ready => lb /= <<>> /\ \A i \in DOMAIN lb : gen[lb[i]] > 0

\* Close returns: closing pipe 0 ends the health checker, whose goroutine
\* closes pipe 1, which ends the installer, so wg.Wait returns, whatever the
\* health checker, the workers and the installer were doing.
CloseReturns == caller.pc = "closing" ~> caller.pc = "closed"

\* When Close returns, no goroutine of the chain is left: both resolver
\* goroutines have returned, the pool is stopped, and no dial task waits in
\* the queue, runs in a worker or has a result unread in the channel, since
\* the health checker only leaves do() after reading one result per task.
ClosedLeavesNothingRunning ==
    caller.pc = "closed" =>
        /\ hc.pc = "done" /\ inst.pc = "done" /\ stopped
        /\ queue = <<>> /\ ch = <<>>
        /\ \A w \in Workers : wk[w].pc = "idle"
====
