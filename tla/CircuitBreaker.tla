---------------------------- MODULE CircuitBreaker ----------------------------
(***************************************************************************)
(* One per-service circuit breaker as built by NewCircuitBreaker           *)
(* (src/unnamed/part_000): a gobreaker.CircuitBreaker with                 *)
(*   MaxRequests = cfg.HalfOpenRequests   (0 means 1 in gobreaker),        *)
(*   Interval    = cfg.RecoveryTimeout    (Closed counts are cleared on    *)
(*                                         every interval),               *)
(*   Timeout     = cfg.RecoveryTimeout    (how long Open lasts),           *)
(*   ReadyToTrip = ConsecutiveFailures >= cfg.FailureThreshold.            *)
(*                                                                         *)
(* The breaker state is one record `cb` mutated under the breaker's mutex; *)
(* every action below is one critical section.  Execute is split in the   *)
(* two critical sections gobreaker takes (beforeRequest, afterRequest)     *)
(* with the call to the upstream in between, so several goroutines (Reqs)  *)
(* interleave.  Transitions on timeouts are lazy: gobreaker re-evaluates   *)
(* the state (currentState) whenever it is locked, including from State(), *)
(* which the /health handler calls.  Time is an integer clock `now`.       *)
(***************************************************************************)
EXTENDS Integers, FiniteSets

CONSTANTS
    Reqs,              \* goroutines that call Execute concurrently
    FailureThreshold,  \* cfg.FailureThreshold
    HalfOpenRequests,  \* cfg.HalfOpenRequests
    RecoveryTimeout,   \* cfg.RecoveryTimeout, in clock ticks
    MaxTime,           \* bound: last clock value explored
    MaxCalls           \* bound: number of Execute calls explored

ASSUME FailureThreshold \in Nat \ {0}
ASSUME HalfOpenRequests \in Nat
ASSUME RecoveryTimeout \in Nat \ {0}
ASSUME MaxTime \in Nat /\ MaxCalls \in Nat

Closed   == "closed"
HalfOpen == "half-open"
Open     == "open"
States   == {Closed, HalfOpen, Open}

\* The zero time.Time: "no expiry".
Zero == -1

\* gobreaker.Settings as filled in by NewCircuitBreaker.
MaxRequests == IF HalfOpenRequests = 0 THEN 1 ELSE HalfOpenRequests
Interval    == RecoveryTimeout
Timeout     == RecoveryTimeout

\* A variant of ReadyToTrip that trips one failure late.
ReadyToTripOffByOne(b) == b.consecutiveFailures > FailureThreshold

ReadyToTrip(b) == b.consecutiveFailures >= FailureThreshold

\* A variant of TooManyRequests with the budget compared by > instead of >=.
TooManyRequestsOffByOne(b) == b.state = HalfOpen /\ b.requests > MaxRequests

\* beforeRequest's ErrTooManyRequests test.
TooManyRequests(b) == b.state = HalfOpen /\ b.requests >= MaxRequests

VARIABLES
    cb,         \* [state, generation, requests, consecutiveSuccesses,
                \*  consecutiveFailures, expiry]: the gobreaker fields
    now,        \* the clock
    pc,         \* pc[r] \in {"idle", "running"}: r is inside the upstream call
    reqGen,     \* generation returned to r by beforeRequest
    calls,      \* number of Execute calls so far (bounded by MaxCalls)
    \* History variables, read only by the properties:
    hoStint,    \* number of times the breaker has entered HalfOpen
    probeOf,    \* probeOf[r] = the HalfOpen stint r was admitted in, or 0
    probeOk,    \* successes reported by probes of the current stint
    consecFails \* failed calls reported in a row while Closed (spec.md 4.5)

vars == <<cb, now, pc, reqGen, calls, hoStint, probeOf, probeOk,
          consecFails>>

-----------------------------------------------------------------------------
(* gobreaker internals, each a function of the breaker record.            *)

\* toNewGeneration: bump the generation, clear the counts, set the expiry.
NewGeneration(b, t) ==
    [b EXCEPT !.generation = @ + 1,
              !.requests = 0,
              !.consecutiveSuccesses = 0,
              !.consecutiveFailures = 0,
              !.expiry = CASE b.state = Closed -> t + Interval
                           [] b.state = Open   -> t + Timeout
                           [] OTHER            -> Zero]

SetState(b, s, t) ==
    IF b.state = s THEN b ELSE NewGeneration([b EXCEPT !.state = s], t)

\* A variant of CurrentState that closes an expired Open breaker directly.
CurrentStateSkipsHalfOpen(b, t) ==
    CASE b.state = Closed /\ b.expiry # Zero /\ b.expiry < t -> NewGeneration(b, t)
      [] b.state = Open /\ b.expiry < t -> SetState(b, Closed, t)
      [] OTHER -> b

\* currentState: the lazy transitions taken whenever the breaker is locked.
CurrentState(b, t) ==
    CASE b.state = Closed /\ b.expiry # Zero /\ b.expiry < t -> NewGeneration(b, t)
      [] b.state = Open /\ b.expiry < t -> SetState(b, HalfOpen, t)
      [] OTHER -> b

OnSuccess(b, t) ==
    LET c == [b EXCEPT !.consecutiveSuccesses = @ + 1,
                       !.consecutiveFailures = 0]
    IN CASE b.state = Closed -> c
         [] b.state = HalfOpen ->
               IF c.consecutiveSuccesses >= MaxRequests
               THEN SetState(c, Closed, t) ELSE c
         [] OTHER -> b

OnFailure(b, t) ==
    LET c == [b EXCEPT !.consecutiveFailures = @ + 1,
                       !.consecutiveSuccesses = 0]
    IN CASE b.state = Closed ->
               IF ReadyToTrip(c) THEN SetState(c, Open, t) ELSE c
         [] b.state = HalfOpen -> SetState(b, Open, t)
         [] OTHER -> b

\* A variant of AfterRequest without the generation check.
AfterRequestAnyGeneration(b, g, ok, t) ==
    IF ok THEN OnSuccess(b, t) ELSE OnFailure(b, t)

\* afterRequest: a result from an older generation is dropped.
AfterRequest(b, g, ok, t) ==
    IF b.generation # g THEN b
    ELSE IF ok THEN OnSuccess(b, t) ELSE OnFailure(b, t)

-----------------------------------------------------------------------------
(* History bookkeeping shared by the actions that lock the breaker: b is   *)
(* the record after currentState, inc the probe success this step reports. *)
EntersHalfOpen(b) == b.state = HalfOpen /\ cb.state # HalfOpen

StintAfter(b) == IF EntersHalfOpen(b) THEN hoStint + 1 ELSE hoStint

TrackProbes(b, inc) ==
    /\ hoStint' = StintAfter(b)
    /\ probeOk' = IF EntersHalfOpen(b) THEN 0 ELSE probeOk + inc

Init ==
    /\ cb = [state |-> Closed, generation |-> 0, requests |-> 0,
             consecutiveSuccesses |-> 0, consecutiveFailures |-> 0,
             expiry |-> 0 + Interval]
    /\ now = 0
    /\ pc = [r \in Reqs |-> "idle"]
    /\ reqGen = [r \in Reqs |-> 0]
    /\ calls = 0
    /\ hoStint = 0
    /\ probeOf = [r \in Reqs |-> 0]
    /\ probeOk = 0
    /\ consecFails = 0

\* beforeRequest admits r: the breaker is not Open and, in HalfOpen, fewer
\* than MaxRequests requests were admitted in this generation.
Admit(r) ==
    /\ pc[r] = "idle"
    /\ calls < MaxCalls
    /\ LET b == CurrentState(cb, now) IN
         /\ b.state # Open
         /\ ~TooManyRequests(b)
         /\ cb' = [b EXCEPT !.requests = @ + 1]
         /\ reqGen' = [reqGen EXCEPT ![r] = b.generation]
         /\ probeOf' = [probeOf EXCEPT ![r] =
                          IF b.state = HalfOpen THEN StintAfter(b) ELSE 0]
         /\ TrackProbes(b, 0)
    /\ pc' = [pc EXCEPT ![r] = "running"]
    /\ calls' = calls + 1
    /\ UNCHANGED <<now, consecFails>>

\* beforeRequest returns ErrOpenState; the gateway answers 503.
RejectOpen(r) ==
    /\ pc[r] = "idle"
    /\ calls < MaxCalls
    /\ LET b == CurrentState(cb, now) IN
         /\ b.state = Open
         /\ cb' = b
         /\ TrackProbes(b, 0)
    /\ calls' = calls + 1
    /\ UNCHANGED <<now, pc, reqGen, probeOf, consecFails>>

\* beforeRequest returns ErrTooManyRequests; the gateway answers 503.
RejectTooMany(r) ==
    /\ pc[r] = "idle"
    /\ calls < MaxCalls
    /\ LET b == CurrentState(cb, now) IN
         /\ TooManyRequests(b)
         /\ cb' = b
         /\ TrackProbes(b, 0)
    /\ calls' = calls + 1
    /\ UNCHANGED <<now, pc, reqGen, probeOf, consecFails>>

\* The function r passed to Call returns: ok when it returned nil and did
\* not panic; afterRequest.
CompleteWith(r, ok) ==
    /\ pc[r] = "running"
    /\ LET b == CurrentState(cb, now) IN
         /\ cb' = AfterRequest(b, reqGen[r], ok, now)
         /\ TrackProbes(b, IF ok /\ probeOf[r] # 0 /\ probeOf[r] = StintAfter(b)
                           THEN 1 ELSE 0)
         /\ consecFails' = IF b.state = Closed /\ ~ok
                           THEN consecFails + 1 ELSE 0
    /\ pc' = [pc EXCEPT ![r] = "idle"]
    /\ UNCHANGED <<now, reqGen, calls, probeOf>>

\* The upstream call of r returns, with either outcome.
Complete(r) == \E ok \in BOOLEAN : CompleteWith(r, ok)

\* CircuitBreaker.State(): called by IsOpen from the /health handler and by
\* GetAllStates; it takes the lazy transitions too.
StateQuery ==
    LET b == CurrentState(cb, now) IN
      /\ cb' = b
      /\ TrackProbes(b, 0)
      /\ UNCHANGED <<now, pc, reqGen, calls, probeOf, consecFails>>

Tick ==
    /\ now < MaxTime
    /\ now' = now + 1
    /\ UNCHANGED <<cb, pc, reqGen, calls, hoStint, probeOf, probeOk,
                   consecFails>>

\* Manager.ResetBreaker only logs and returns nil: it changes no state, so
\* it is a stuttering step and needs no action.
Next ==
    \/ \E r \in Reqs : Admit(r) \/ RejectOpen(r) \/ RejectTooMany(r)
    \/ \E r \in Reqs : Complete(r)
    \/ StateQuery
    \/ Tick

Spec == Init /\ [][Next]_vars

-----------------------------------------------------------------------------
(* Properties                                                              *)

\* The breaker fields stay in range; in particular the failure tally never
\* reaches the threshold, since the failure that reaches it trips the
\* breaker and the new generation clears it.
TypeOK ==
    /\ cb.state \in States
    /\ cb.generation \in Nat
    /\ {cb.requests, cb.consecutiveSuccesses} \subseteq Nat
    /\ cb.consecutiveFailures \in 0..FailureThreshold - 1
    /\ cb.expiry \in Nat \cup {Zero}
    /\ now \in 0..MaxTime
    /\ pc \in [Reqs -> {"idle", "running"}]
    /\ reqGen \in [Reqs -> Nat]
    /\ calls \in 0..MaxCalls
    /\ probeOf \in [Reqs -> 0..hoStint]
    /\ probeOk \in Nat /\ consecFails \in Nat

\* spec.md 4.5: HalfOpen lets at most probe_budget (MaxRequests) requests
\* through at once.  Concurrent goroutines racing through beforeRequest while
\* earlier probes are still in the upstream call must not exceed it.
HalfOpenProbeBudget ==
    cb.state = HalfOpen =>
        Cardinality({r \in Reqs : pc[r] = "running" /\ reqGen[r] = cb.generation})
            <= MaxRequests

\* The breaker closes only after MaxRequests requests admitted during the
\* current HalfOpen stint have succeeded: a slow request admitted while
\* Closed (before the trip) or during an earlier HalfOpen stint that reports
\* success late must not count as a probe (gobreaker's generation check).
ProbesDecideRecovery ==
    [][cb.state # Closed /\ cb'.state = Closed => probeOk' >= MaxRequests]_vars

\* The breaker implements the abstract three-state machine of spec.md 4.5:
\* Closed -> Open -> HalfOpen -> (Open | Closed after MaxRequests successes),
\* whatever the interleaving of callers, health probes and the clock.
Abstract == INSTANCE BreakerSpec WITH
                state  <- cb.state,
                probes <- IF cb.state = HalfOpen THEN cb.consecutiveSuccesses ELSE 0

BreakerRefinement == Abstract!Spec

\* spec.md 4.5 / 8.5: FailureThreshold consecutive failed calls while Closed
\* open the breaker; a success is the only thing that resets the tally.
ThresholdTrips == cb.state = Closed => consecFails < FailureThreshold

=============================================================================
