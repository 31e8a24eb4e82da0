----------------------------- MODULE MC_Client -----------------------------
(* Client instantiated for TLC: two endpoints, two concurrent Do calls.    *)
EXTENDS Client, TLC

CONSTANTS e1, e2, r1, r2

MCEndpoints == {e1, e2}
MCReqs == {r1, r2}
\* One Do call, for the liveness run (symmetry is unsound there).
MCOneReq == {r1}
\* OnStatus5xx: 502 asks for a retry, 500 and 503 for the next endpoint.
MCHeaderActs == {None, Retrying, NextEndpoint}
\* No onRequestCtxCanceledOrTimeout predicate: the default None.
MCCtxActs == {None}

\* DefaultBackoff (defaultBackoff of util.go: exponential 50..5000 ms by
\* 1.15, jitter 0.1) with a limit of 2 attempts instead of 3.  The value is
\* written out so that TLC does not rebuild it at each use; the ASSUME checks
\* that it is DefaultBackoff with the limit lowered, and that DefaultBackoff
\* builds (no error dropped by defaultBackoff).
MCBackoff ==
    [type |-> "limit", limit |-> 2,
     delegate |-> [type |-> "jitter", minRate |-> -10, maxRate |-> 10,
                   delegate |-> [type |-> "exponential", initial |-> 50,
                                 max |-> 5000, mult |-> 115]]]

ASSUME /\ DefaultBackoff /= Failed
       /\ MCBackoff = [DefaultBackoff EXCEPT !.limit = 2]

ReqSymmetry == Permutations(MCReqs)

\* What a frame's future and client_core's properties depend on: seen is a
\* history variable only FailoverReportsAllErrors reads; every step and
\* every property of the run tests err only against NoErr and lastErr only
\* against {} (Reset, RetryExhausted, Errors, FailoverExhausted); once a
\* call is done its picked, ind and lastErr are never read again.  nextLB is
\* dead while no list is pending (Receive writes it before StoreLB reads it).
LiveFrame(f) ==
    IF f.pc = "done"
    THEN [f EXCEPT !.picked = 0, !.ind = 0, !.lastErr = FALSE, !.seen = {},
                   !.err = (@ /= NoErr)]
    ELSE [f EXCEPT !.lastErr = (@ /= {}), !.seen = {}, !.err = (@ /= NoErr)]

CoreView == <<now, brk, lb, current, pending,
              IF pending = <<>> THEN NoLB ELSE nextLB, setupAt, installs,
              [r \in Reqs |-> LiveFrame(frame[r])]>>
====
