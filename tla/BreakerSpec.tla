----------------------------- MODULE BreakerSpec -----------------------------
(***************************************************************************)
(* What a per-service circuit breaker promises (spec.md 4.5), with no      *)
(* clock, no counters other than the half-open probe tally, and no         *)
(* concurrency: the three states and the only moves between them.          *)
(*                                                                         *)
(*   Closed   --Trip-->        Open                                        *)
(*   Open     --Expire-->      HalfOpen                                    *)
(*   HalfOpen --ProbeFails-->  Open                                        *)
(*   HalfOpen --Recover-->     Closed, on the MaxRequests-th probe success *)
(*                                                                         *)
(* CircuitBreaker.tla is shown to implement this module.                   *)
(***************************************************************************)
EXTENDS Naturals

CONSTANT MaxRequests    \* successes needed in HalfOpen to close again

VARIABLES state, probes

Init == state = "closed" /\ probes = 0

Trip ==
    /\ state = "closed"
    /\ state' = "open"
    /\ UNCHANGED probes

Expire ==
    /\ state = "open"
    /\ state' = "half-open"
    /\ probes' = 0

\* A probe succeeds but the breaker still needs more successes.
ProbeSucceeds ==
    /\ state = "half-open"
    /\ probes + 1 < MaxRequests
    /\ probes' = probes + 1
    /\ UNCHANGED state

\* The success that completes the tally closes the breaker.
Recover ==
    /\ state = "half-open"
    /\ probes + 1 >= MaxRequests
    /\ state' = "closed"
    /\ probes' = 0

ProbeFails ==
    /\ state = "half-open"
    /\ state' = "open"
    /\ probes' = 0

Next == Trip \/ Expire \/ ProbeSucceeds \/ Recover \/ ProbeFails

Spec == Init /\ [][Next]_<<state, probes>>

=============================================================================
