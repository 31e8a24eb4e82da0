------------------------------- MODULE Client -------------------------------
(***************************************************************************)
(* The load-balanced request dispatcher of src/http-client: Client.Do,     *)
(* judge, instrument and exec (client_do.go) run by concurrent request     *)
(* goroutines, together with the LB installer Client.Resolve (client.go)   *)
(* that publishes a new round-robin LB and replaces the circuit breaker of *)
(* every endpoint of a changed endpoint list.                              *)
(*                                                                         *)
(* Each endpoint's breaker is the abstract breaker of CircuitBreakerSpec   *)
(* applied atomically: breaker_core shows NonBlockingCircuitBreaker        *)
(* changes its state by single CASes that implement that table.  Whether   *)
(* a failure trips a Closed breaker depends on its sliding-window counter, *)
(* which is abstracted to a nondeterministic choice.  The server's answer  *)
(* (transport error, cancelled context, status judged by the request's     *)
(* header predicate, transform and decode errors) is an input chosen by    *)
(* \E at each exec.                                                        *)
(***************************************************************************)
EXTENDS Integers, Sequences, FiniteSets, SequencesExt, Backoff

CONSTANTS
    Endpoints,      \* the *Endpoint objects handed to the resolver chain
    Reqs,           \* goroutines, each making one call of Client.Do
    HeaderActs,     \* values req.onRespHeader may return (None if it is nil)
    CtxActs,        \* values req.onRequestCtxCanceledOrTimeout may return
    ClientBackoff,  \* c.backoff, a Backoff value (Backoff.tla)
    OpenWindow,     \* circuitOpenWindow of the breaker builder
    TrialInterval,  \* trialRequestInterval of the breaker builder
    IdxBits,        \* width of RoundRobinLB.index (uint32 in the code)
    MaxTime,        \* bound on the ticker
    MaxInstalls     \* bound on endpoint lists received by Client.Resolve

\* EndpointAction (actions.go)
None == "None"
NextEndpoint == "NextEndpoint"
Retrying == "Retrying"
Actions == {None, NextEndpoint, Retrying}

ASSUME HeaderActs \subseteq Actions /\ CtxActs \subseteq Actions
ASSUME IdxBits \in Nat \ {0}
\* Only an attempt limit bounds a call's retries, so the model needs the
\* AttemptLimitingBackoff outermost, as defaultBackoff builds it.
ASSUME ClientBackoff.type = "limit"

Closed == "Closed"
Open == "Open"
HalfOpen == "HalfOpen"

VARIABLES
    now,        \* the breakers' ticker
    brk,        \* brk[e]: e.breaker, [cs, deadline, gen]
    lb,         \* c.lb: the published LB [eps, index], or NoLB
    current,    \* currentEndpoints of Client.Resolve
    pending,    \* endpoint list Resolve is installing, <<>> when idle
    nextLB,     \* the LB Resolve built for pending
    setupAt,    \* index of the next endpoint whose breaker Resolve replaces
    installs,   \* endpoint lists received so far
    frame       \* frame[r]: the locals of the Do call of goroutine r

\* A frame holds pc; eps, the endpoints Do read from the LB; picked
\* (pickedEndpoint); ind; need, the action of the last instrument; loop, TRUE
\* once judge runs; retry (retryCount); lastErr, the multierror as a set of
\* errors; err and got, the Response's error and whether it holds a
\* response; seen, the errors met on every endpoint judge moved away from
\* (a history variable).

vars == <<now, brk, lb, current, pending, nextLB, setupAt, installs, frame>>
installer == <<current, pending, nextLB, setupAt, installs>>

NoLB == [eps |-> <<>>, index |-> 0]
\* An error is its kind and the endpoint whose attempt produced it (judge
\* tries each endpoint once per traversal and a retry resets the response).
NoErr == [k |-> "nil", at |-> "none"]
Err(k, e) == [k |-> k, at |-> e]
Width == 2 ^ IdxBits

\* The endpoint lists the health checker can forward: the endpoints that
\* passed a dial, in the order the dials finished.  Resolve skips empty lists.
EndpointLists ==
    UNION {{s \in [1..n -> Endpoints] : Len(s) = Cardinality(ToSet(s))} :
              n \in 1..Cardinality(Endpoints)}

(***************************************************************************)
(* The circuit breaker of one endpoint.                                    *)
(***************************************************************************)
FreshBreaker(g) == [cs |-> Closed, deadline |-> 0, gen |-> g]

\* CanRequest: Closed admits; Open or HalfOpen past its deadline admits
\* after a CAS to a new HalfOpen state; otherwise the request is rejected.
CanRequest(b) == b.cs = Closed \/ b.deadline <= now
AfterCanRequest(b) ==
    IF b.cs = Closed THEN b
    ELSE IF b.deadline <= now
         THEN [b EXCEPT !.cs = HalfOpen, !.deadline = now + TrialInterval]
         ELSE b

\* OnSuccess: a HalfOpen breaker closes.
AfterSuccess(b) ==
    IF b.cs = HalfOpen THEN [b EXCEPT !.cs = Closed, !.deadline = now] ELSE b

\* OnFailure: a HalfOpen breaker reopens; a Closed one opens when its
\* counter is over the threshold (trip); an Open one is left alone.
AfterFailure(b, trip) ==
    IF b.cs = HalfOpen \/ (b.cs = Closed /\ trip)
    THEN [b EXCEPT !.cs = Open, !.deadline = now + OpenWindow]
    ELSE b

(***************************************************************************)
(* Client.Resolve: a non-empty list that differs from currentEndpoints     *)
(* (Endpoints.Equal compares element by element) becomes current, each of  *)
(* its endpoints gets a new breaker, then the new LB is stored.            *)
(***************************************************************************)
\* Endpoints.Equal: same length and Endpoint.Equal position by position.
EndpointsEqual(a, b) ==
    Len(a) = Len(b) /\ \A i \in 1..Len(a) : a[i] = b[i]

Receive ==
    /\ pending = <<>>
    /\ installs < MaxInstalls
    /\ \E l \in EndpointLists, start \in 0..Width - 1 :
          /\ ~EndpointsEqual(l, current)
          /\ current' = l
          /\ pending' = l
          /\ nextLB' = [eps |-> l, index |-> start]
          /\ setupAt' = 1
    /\ installs' = installs + 1
    /\ UNCHANGED <<now, brk, lb, frame>>

SetupCB ==
    /\ setupAt \in 1..Len(pending)
    /\ LET e == pending[setupAt] IN
         brk' = [brk EXCEPT ![e] = FreshBreaker(brk[e].gen + 1)]
    /\ setupAt' = setupAt + 1
    /\ UNCHANGED <<now, lb, current, pending, nextLB, installs, frame>>

StoreLB ==
    /\ pending /= <<>>
    /\ setupAt = Len(pending) + 1
    /\ lb' = nextLB
    /\ pending' = <<>>
    /\ UNCHANGED <<now, brk, current, nextLB, setupAt, installs, frame>>

(***************************************************************************)
(* Client.Do, one goroutine per request.                                   *)
(***************************************************************************)
IdleFrame ==
    [pc |-> "idle", eps |-> <<>>, picked |-> 0, ind |-> 0, need |-> None,
     loop |-> FALSE, retry |-> 0, lastErr |-> {}, err |-> NoErr,
     got |-> FALSE, seen |-> {}]

\* resp.reset()
Reset(f) == [f EXCEPT !.err = NoErr, !.got = FALSE]

Endpoint(f) == f.eps[f.ind + 1]     \* endpoints[ind], ind counted from 0

Return(r, f) == frame' = [frame EXCEPT ![r] = [f EXCEPT !.pc = "done"]]

\* RoundRobinLB.Pick: atomic.AddUint32(&index, 1) % n; the index wraps.
PickIndex(l) == (l.index + 1) % Width
Pick(l) == PickIndex(l) % Len(l.eps)

\* Do: load the LB; no LB or no endpoints fails with ErrNoEndpoints, else
\* the LB picks an endpoint and it is instrumented.
DoStart(r) ==
    /\ frame[r].pc = "idle"
    /\ IF lb.eps = <<>>
       THEN /\ Return(r, [frame[r] EXCEPT !.err = Err("NoEndpoints", "none")])
            /\ UNCHANGED lb
       ELSE LET i == PickIndex(lb)
                p == Pick(lb)
            IN /\ lb' = [lb EXCEPT !.index = i]
               /\ frame' = [frame EXCEPT ![r] = [@ EXCEPT !.pc = "admit",
                              !.eps = lb.eps, !.picked = p, !.ind = p]]
    /\ UNCHANGED <<now, brk, installer>>

\* instrument: endpoint.canRequest(); a rejected request needs NextEndpoint.
Admit(r) ==
    LET f == frame[r]
        e == Endpoint(f)
    IN /\ f.pc = "admit"
       /\ brk' = [brk EXCEPT ![e] = AfterCanRequest(brk[e])]
       /\ frame' = [frame EXCEPT ![r] =
             IF CanRequest(brk[e]) THEN [f EXCEPT !.pc = "exec"]
             ELSE [f EXCEPT !.pc = "judge", !.need = NextEndpoint]]
       /\ UNCHANGED <<now, lb, installer>>

\* exec: the HTTP call and its outcome.  A transport success reports
\* OnSuccess; a header predicate answer other than None returns at once,
\* else transform and decode errors are recorded.  A cancelled or timed-out
\* context takes the request's predicate.  Any other transport error reports
\* OnFailure and needs NextEndpoint.
Exec(r) ==
    LET f == frame[r]
        e == Endpoint(f)
        g == [f EXCEPT !.pc = "judge"]
    IN /\ f.pc = "exec"
       /\ \/ /\ brk' = [brk EXCEPT ![e] = AfterSuccess(brk[e])]
             /\ \E h \in HeaderActs :
                  \/ /\ h /= None
                     /\ frame' = [frame EXCEPT ![r] = [g EXCEPT !.need = h]]
                  \/ /\ h = None
                     /\ \E out \in {[err |-> NoErr, got |-> TRUE],
                                    [err |-> Err("Transform", e), got |-> FALSE],
                                    [err |-> Err("Decoding", e), got |-> TRUE]} :
                          frame' = [frame EXCEPT ![r] = [g EXCEPT !.need = None,
                                      !.err = out.err, !.got = out.got]]
          \/ /\ \E act \in CtxActs :
                  frame' = [frame EXCEPT ![r] = [g EXCEPT !.need = act,
                              !.err = Err("CtxCanceledOrTimeout", e)]]
             /\ UNCHANGED brk
          \/ /\ \E trip \in BOOLEAN :
                  brk' = [brk EXCEPT ![e] = AfterFailure(brk[e], trip)]
             /\ frame' = [frame EXCEPT ![r] = [g EXCEPT !.need = NextEndpoint,
                              !.err = Err("Connection", e)]]
       /\ UNCHANGED <<now, lb, installer>>

\* Do returns without judge when nothing is needed or there is a single
\* endpoint; inside judge, None leaves the loop.
DoReturn(r) ==
    LET f == frame[r] IN
    /\ f.pc = "judge"
    /\ \/ f.need = None
       \/ ~f.loop /\ Len(f.eps) <= 1
    /\ Return(r, f)
    /\ UNCHANGED <<now, brk, lb, installer>>

InJudge(f) == f.pc = "judge" /\ (f.loop \/ Len(f.eps) > 1)

\* The delays c.backoff.NextDelayMillis(k) may return, for every attempt k a
\* call can ask about (one past the limit, for a limit that lets one more
\* through).  A constant, so it is computed once.
DelaysOf == [k \in 1..ClientBackoff.limit + 1 |-> NextDelayMillis(ClientBackoff, k)]

\* NextDelayMillis(k) may return a delay (>= 0), or may return the negative
\* value that ends the retries.
MayDelay(k) == \E d \in DelaysOf[k] : d >= 0
MayStop(k) == \E d \in DelaysOf[k] : d < 0

\* Mutant of Retry: retryCount is not incremented.
RetryNoCount(r) ==
    LET f == frame[r] IN
    /\ InJudge(f)
    /\ f.need = Retrying
    /\ MayDelay(f.retry + 1)
    /\ frame' = [frame EXCEPT ![r] = [Reset(f) EXCEPT !.pc = "admit",
                    !.loop = TRUE]]
    /\ UNCHANGED <<now, brk, lb, installer>>

\* judge, case Retrying: count the retry; while the backoff allows, reset the
\* response and instrument the same endpoint again.
Retry(r) ==
    LET f == frame[r] IN
    /\ InJudge(f)
    /\ f.need = Retrying
    /\ MayDelay(f.retry + 1)
    /\ frame' = [frame EXCEPT ![r] = [Reset(f) EXCEPT !.pc = "admit",
                    !.loop = TRUE, !.retry = f.retry + 1]]
    /\ UNCHANGED <<now, brk, lb, installer>>

\* Mutant of RetryExhausted: the response's error is left nil.
RetryExhaustedNoErr(r) ==
    LET f == frame[r] IN
    /\ InJudge(f)
    /\ f.need = Retrying
    /\ MayStop(f.retry + 1)
    /\ Return(r, [f EXCEPT !.loop = TRUE, !.retry = f.retry + 1])
    /\ UNCHANGED <<now, brk, lb, installer>>

\* judge, case Retrying, backoff exhausted: a response without an error gets
\* the retry-exhausted error.
RetryExhausted(r) ==
    LET f == frame[r] IN
    /\ InJudge(f)
    /\ f.need = Retrying
    /\ MayStop(f.retry + 1)
    /\ Return(r, [f EXCEPT !.loop = TRUE, !.retry = f.retry + 1,
                   !.err = IF f.err = NoErr THEN Err("RetryExhausted", Endpoint(f))
                           ELSE f.err])
    /\ UNCHANGED <<now, brk, lb, installer>>

\* Mutant of Next1: ind is incremented without wrapping to 0 at n.
Next1NoWrap(f) == f.ind + 1
\* ind++; if ind == n { ind = 0 }
Next1(f) == (f.ind + 1) % Len(f.eps)
Errors(f) == IF f.err = NoErr THEN {} ELSE {f.err}

\* judge, case NextEndpoint: reset the retry count and move to the next
\* endpoint; until back at the picked one, record the error in lastErr,
\* reset the response and instrument that endpoint.
Failover(r) ==
    LET f == frame[r] IN
    /\ InJudge(f)
    /\ f.need = NextEndpoint
    /\ Next1(f) /= f.picked
    /\ frame' = [frame EXCEPT ![r] = [Reset(f) EXCEPT !.pc = "admit",
                    !.loop = TRUE, !.retry = 0, !.ind = Next1(f),
                    !.lastErr = f.lastErr \cup Errors(f),
                    !.seen = f.seen \cup Errors(f)]]
    /\ UNCHANGED <<now, brk, lb, installer>>

\* judge, case NextEndpoint, back at the picked endpoint: fail with the
\* aggregated lastErr, or ErrEndpointsUnavailable when it is empty.
FailoverExhausted(r) ==
    LET f == frame[r] IN
    /\ InJudge(f)
    /\ f.need = NextEndpoint
    /\ Next1(f) = f.picked
    /\ Return(r, [f EXCEPT !.loop = TRUE, !.retry = 0, !.ind = Next1(f),
                   !.seen = f.seen \cup Errors(f),
                   !.err = IF f.lastErr /= {} THEN Err("Aggregated", "none")
                           ELSE Err("EndpointsUnavailable", "none")])
    /\ UNCHANGED <<now, brk, lb, installer>>

Tick ==
    /\ now < MaxTime
    /\ now' = now + 1
    /\ UNCHANGED <<brk, lb, installer, frame>>

Init ==
    /\ now = 0
    /\ brk = [e \in Endpoints |-> FreshBreaker(0)]
    /\ lb = NoLB
    /\ current = <<>>
    /\ pending = <<>>
    /\ nextLB = NoLB
    /\ setupAt = 1
    /\ installs = 0
    /\ frame = [r \in Reqs |-> IdleFrame]

Request(r) ==
    \/ Admit(r) \/ Exec(r) \/ DoReturn(r) \/ Retry(r) \/ RetryExhausted(r)
    \/ Failover(r) \/ FailoverExhausted(r)

Next ==
    \/ Receive \/ SetupCB \/ StoreLB \/ Tick
    \/ \E r \in Reqs : DoStart(r) \/ Request(r)

\* Go schedules every runnable goroutine, and the transport returns (the
\* request's context bounds the HTTP call); a caller may never call Do, and
\* resolvers and the clock need not move.
Spec == Init /\ [][Next]_vars /\ \A r \in Reqs : WF_vars(Request(r))
(***************************************************************************)
(* Properties                                                              *)
(***************************************************************************)
Kinds == {Closed, Open, HalfOpen}
ErrKinds == {"nil", "NoEndpoints", "Connection", "CtxCanceledOrTimeout",
             "Transform", "Decoding", "RetryExhausted", "Aggregated",
             "EndpointsUnavailable"}
Errs == [k : ErrKinds, at : Endpoints \cup {"none"}]
Frames ==
    [pc : {"idle", "admit", "exec", "judge", "done"},
     eps : {<<>>} \cup EndpointLists, picked : Nat, ind : Nat,
     need : Actions, loop : BOOLEAN, retry : Nat,
     lastErr : SUBSET Errs, err : Errs, got : BOOLEAN, seen : SUBSET Errs]

TypeOK ==
    /\ now \in 0..MaxTime
    /\ brk \in [Endpoints -> [cs : Kinds, deadline : Nat, gen : Nat]]
    /\ lb \in [eps : {<<>>} \cup EndpointLists, index : 0..Width - 1]
    /\ frame \in [Reqs -> Frames]
    /\ \A r \in Reqs : frame[r].pc \in {"admit", "exec"} =>
          frame[r].ind \in 0..Len(frame[r].eps) - 1

\* Do answers every call: when it returns, the Response carries an error or
\* a received response (spec 4.8: a breaker refusal fails over and ends in
\* "all endpoints unavailable", retries end in "retry exhausted").
DoAnswers ==
    \A r \in Reqs : frame[r].pc = "done" =>
        frame[r].err /= NoErr \/ frame[r].got

\* The same, for calls that read more than one endpoint from the LB, where
\* Do runs judge's retry and failover loop.
FailoverAnswers ==
    \A r \in Reqs : frame[r].pc = "done" /\ Len(frame[r].eps) > 1 =>
        frame[r].err /= NoErr \/ frame[r].got

\* judge's failover accumulates every error it meets while traversing the
\* endpoints into the final error (spec 4.8, failover invariant).
FailoverReportsAllErrors ==
    \A r \in Reqs :
        frame[r].pc = "done"
        /\ frame[r].err.k \in {"Aggregated", "EndpointsUnavailable"}
        => frame[r].seen \subseteq frame[r].lastErr

\* The attempt-limiting backoff "limits the number of attempts up to the
\* specified value", and defaultBackoff (util.go) documents "limit: 3 (try 3
\* times)": judge never tries an endpoint more than limit times in a row, and
\* a call that gives up retrying has tried it exactly limit times.  Here
\* retryCount, counted before NextDelayMillis is asked, is that number.
AttemptsAsLimited ==
    \A r \in Reqs :
      /\ frame[r].retry <= ClientBackoff.limit
      /\ frame[r].pc = "done" /\ frame[r].loop /\ frame[r].need = Retrying
         => frame[r].retry = ClientBackoff.limit

\* The sleep before each retry of a call lies within the jitter range of
\* spec 4.6 around the delay of the backoff that defaultBackoff's jitter
\* wraps, [tmp*(1+minRate), tmp*(1+maxRate)], the lower end up to int64
\* truncation.  JitterAddingBackoff adds nextRandomInt64IncludingZero(
\* maxJitter - minJitter + 1) to minJitter, which stays within maxJitter only
\* because that helper returns [0, bound-1], not the [0, bound] its comment
\* promises.
RetrySleepsWithinJitter ==
    LET j == ClientBackoff.delegate IN
    \A r \in Reqs : \A k \in 1..frame[r].retry :
        \A d \in DelaysOf[k] : d >= 0 =>
            \E tmp \in NextDelayMillis(j.delegate, k) :
                /\ 100 * d <= tmp * (100 + j.maxRate)
                /\ 100 * (d + 1) >= tmp * (100 + j.minRate)

\* Every call of Do returns: judge's retry loop ends when the backoff's
\* attempt limit is reached and its failover loop when it comes back to the
\* picked endpoint, however breakers and the installer interleave.
DoReturns ==
    \A r \in Reqs : frame[r].pc /= "idle" ~> frame[r].pc = "done"
====
