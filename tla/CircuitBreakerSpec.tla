------------------------- MODULE CircuitBreakerSpec -------------------------
(***************************************************************************)
(* What a circuit breaker promises its callers, with no counter and no    *)
(* concurrency: one state at a time, and the table of spec section 4.4.   *)
(* Whether a failure trips the breaker is the counter's decision, so Trip  *)
(* is left unconstrained here.  CircuitBreaker implements this module     *)
(* (state <- kind of the current state record, deadline <- its timeout).  *)
(***************************************************************************)
EXTENDS Integers

CONSTANTS OpenWindow, TrialInterval

VARIABLES now, state, deadline

Closed == "Closed"
Open == "Open"
HalfOpen == "HalfOpen"

svars == <<now, state, deadline>>

\* A Closed state's timeout is Tick() + 0.
Init == now = 0 /\ state = Closed /\ deadline = 0

\* Closed --OnFailure, threshold exceeded--> Open until now + circuitOpenWindow
Trip ==
  /\ state = Closed
  /\ state' = Open /\ deadline' = now + OpenWindow
  /\ UNCHANGED now

\* Open or HalfOpen --CanRequest, deadline passed--> HalfOpen (one trial)
Probe ==
  /\ state \in {Open, HalfOpen}
  /\ deadline <= now
  /\ state' = HalfOpen /\ deadline' = now + TrialInterval
  /\ UNCHANGED now

\* HalfOpen --OnSuccess--> Closed
Close ==
  /\ state = HalfOpen
  /\ state' = Closed /\ deadline' = now
  /\ UNCHANGED now

\* HalfOpen --OnFailure--> Open
Reopen ==
  /\ state = HalfOpen
  /\ state' = Open /\ deadline' = now + OpenWindow
  /\ UNCHANGED now

\* Time passes.
Advance ==
  /\ now' = now + 1
  /\ UNCHANGED <<state, deadline>>

Next == Trip \/ Probe \/ Close \/ Reopen \/ Advance

Spec == Init /\ [][Next]_svars
=============================================================================
