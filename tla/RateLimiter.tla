------------------------------ MODULE RateLimiter ------------------------------
(***************************************************************************)
(* The in-process rate-limit algorithms of src/internal/ratelimit          *)
(* (TokenBucket, SlidingWindow, FixedWindow) behind Manager.CheckLimit,    *)
(* for one key.  Keys never share state (each algorithm keeps a map from   *)
(* key to its own limiter), so one key shows every behaviour of the        *)
(* algorithm; how the middleware picks keys is modelled in the pipeline.   *)
(*                                                                         *)
(* TokenBucket.Allow holds tb.mu for the whole call: one atomic step.      *)
(* SlidingWindow.Allow and FixedWindow.Allow are two critical sections:    *)
(* the lookup-or-create of the key's state under the map mutex, then the   *)
(* decision under the state's own mutex.  Concurrent Callers interleave    *)
(* between the two, and a Reset in between deletes the map entry, so a     *)
(* caller may decide on an instance the map no longer holds.  The          *)
(* instances are the slots Instances; `gen` is the one the map holds.  A   *)
(* slot no caller holds is reused for the next instance, which keeps       *)
(* Reset always enabled with finitely many slots.                          *)
(*                                                                         *)
(* A clock tick is 1/TicksPerSecond of a second.  The token bucket is      *)
(* golang.org/x/time/rate with rate.Limit(Requests): Requests tokens per   *)
(* second, refilled continuously, so the model counts tokens in units of   *)
(* 1/TicksPerSecond token, exact at every tick.  The history variable      *)
(* `granted` counts the allowed calls per instance and tick; the           *)
(* properties compare the decisions with it.                               *)
(***************************************************************************)
EXTENDS Integers, FiniteSets, Sequences, Functions, TLC

CONSTANTS
    Configured, \* the RateLimitConfig.Algorithm values explored
    Requests,   \* RateLimitRule.Requests
    Window,     \* RateLimitRule.Window, in seconds
    TicksPerSecond, \* clock resolution
    Burst,      \* RateLimitRule.Burst
    Callers,    \* goroutines calling CheckLimit for the key concurrently
    MaxTime,    \* bound: last clock value explored
    MaxCalls    \* bound: number of CheckLimit calls explored

Algorithms == {"token_bucket", "sliding_window", "fixed_window"}

ASSUME Configured \subseteq Algorithms
ASSUME Requests \in Nat /\ Burst \in Nat /\ Window \in Nat \ {0}
ASSUME MaxTime \in Nat /\ MaxCalls \in Nat /\ TicksPerSecond \in Nat \ {0}

\* The rule's window and one token, in ticks and token units.
WindowTicks == Window * TicksPerSecond
Token == TicksPerSecond

\* rate.Limiter's zero `last` time: the first call refills a full bucket.
Never == -1

\* Enough slots that one is always free: the map's, one per caller, a spare.
Instances == 0..Cardinality(Callers) + 1

VARIABLES
    algorithm,\* the default algorithm initializeAlgorithms built
    now,      \* the clock, in ticks
    gen,      \* the instance the key's map entry points to
    tb,       \* TokenBucket limiter: [tokens, last, burst]
    sw,       \* per instance, SlidingWindow window.requests, oldest first
    fw,       \* per instance, FixedWindow counter: [exists, count, window]
    pc,       \* per caller: "idle", or "looked_up" between the two sections
    held,     \* per caller: the instance its lookup returned
    calls,    \* CheckLimit calls so far (bounded by MaxCalls)
    granted   \* history: granted[i][t] = calls instance i allowed at tick t

vars == <<algorithm, now, gen, tb, sw, fw, pc, held, calls, granted>>

Ticks == 0..MaxTime

NoGrants == [t \in Ticks |-> 0]

\* Calls instance i allowed at ticks in S.
GrantedIn(i, S) == SumFunctionOnSet(granted[i], S \cap Ticks)

-----------------------------------------------------------------------------
(* Token bucket: rate.Limiter.Allow() == reserveN(now, 1, 0).ok           *)

NewTokenBucket == [tokens |-> 0, last |-> Never, burst |-> Burst]

\* A variant of Advance that forgets the cap at the burst.
AdvanceUncapped(l, t) ==
    IF l.last = Never THEN l.burst * Token
    ELSE l.tokens + (t - l.last) * Requests

\* rate.Limiter.advance: tokens refilled for the time since `last` at
\* Requests per second (Requests units per tick), capped at the burst.
Advance(l, t) ==
    IF l.last = Never THEN l.burst * Token
    ELSE LET refill == l.tokens + (t - l.last) * Requests
         IN IF refill > l.burst * Token THEN l.burst * Token ELSE refill

\* reserveN with maxFutureReserve 0.  A zero rate spends the burst itself.
TokenBucketOk(l, t) ==
    IF Requests = 0 THEN l.burst >= 1
    ELSE 1 <= l.burst /\ Advance(l, t) - Token >= 0

TokenBucketAfter(l, t) ==
    IF Requests = 0 THEN [l EXCEPT !.burst = @ - 1]
    ELSE [l EXCEPT !.tokens = Advance(l, t) - Token, !.last = t]

-----------------------------------------------------------------------------
(* Sliding window: drop the timestamps before now - window, then allow iff *)
(* fewer than limit remain, appending now.                                 *)

\* A variant of Trim that also drops the entries exactly at the cutoff.
TrimInclusive(log, t) == SelectSeq(log, LAMBDA x : ~(x <= t - WindowTicks))

\* The entries that are not Before(cutoff).
Trim(log, t) == SelectSeq(log, LAMBDA x : ~(x < t - WindowTicks))

\* A variant of SlidingWindowOk that admits one call too many.
SlidingWindowOkOffByOne(log) == Len(log) <= Requests

\* if len(window.requests) >= sw.limit { return false }
SlidingWindowOk(log) == Len(log) < Requests

-----------------------------------------------------------------------------
(* Fixed window: time.Truncate(window) is relative to the zero time.       *)

Truncate(t) == t - (t % WindowTicks)

NoCounter == [exists |-> FALSE, count |-> 0, window |-> 0]

\* &Counter{count: 0, window: time.Now().Truncate(fw.window)}, made at the
\* lookup, under the map mutex.
NewCounter(t) == [exists |-> TRUE, count |-> 0, window |-> Truncate(t)]

\* A variant of FixedCounter that never starts a new window.
FixedCounterNoReset(c, t) == c

\* The window-boundary reset, under the counter's mutex: if
\* currentWindow.After(counter.window) the count restarts.
FixedCounter(c, t) ==
    IF Truncate(t) > c.window
    THEN [c EXCEPT !.count = 0, !.window = Truncate(t)]
    ELSE c

\* A variant of FixedWindowOk that admits one call too many.
FixedWindowOkOffByOne(c) == c.count <= Requests

\* if counter.count >= fw.limit { return false }
FixedWindowOk(c) == c.count < Requests

-----------------------------------------------------------------------------

Init ==
    /\ algorithm \in Configured
    /\ now = 0
    /\ gen = 0
    /\ tb = NewTokenBucket
    /\ sw = [i \in Instances |-> <<>>]
    /\ fw = [i \in Instances |-> NoCounter]
    /\ pc = [c \in Callers |-> "idle"]
    /\ held = [c \in Callers |-> 0]
    /\ calls = 0
    /\ granted = [i \in Instances |-> NoGrants]

\* Records caller c's decision on instance i in the history.
Decide(c, i, ok) ==
    /\ granted' = IF ok THEN [granted EXCEPT ![i][now] = @ + 1] ELSE granted
    /\ pc' = [pc EXCEPT ![c] = "idle"]

\* TokenBucket.Allow: get or create the key's limiter, then limiter.Allow(),
\* all under tb.mu.
AllowTokenBucket(c) ==
    /\ algorithm = "token_bucket"
    /\ pc[c] = "idle"
    /\ calls < MaxCalls
    /\ LET ok == TokenBucketOk(tb, now) IN
         /\ tb' = IF ok THEN TokenBucketAfter(tb, now) ELSE tb
         /\ Decide(c, gen, ok)
    /\ calls' = calls + 1
    /\ UNCHANGED <<sw, fw, held>>

\* The first section of SlidingWindow.Allow and FixedWindow.Allow: under
\* the map mutex, take the key's entry, creating it when Reset (or nothing
\* yet) left none.  A new sliding window is an empty log; a new counter
\* takes the window of the clock at the lookup.
Lookup(c) ==
    /\ algorithm \in {"sliding_window", "fixed_window"}
    /\ pc[c] = "idle"
    /\ calls < MaxCalls
    /\ fw' = IF algorithm = "fixed_window" /\ ~fw[gen].exists
             THEN [fw EXCEPT ![gen] = NewCounter(now)]
             ELSE fw
    /\ held' = [held EXCEPT ![c] = gen]
    /\ pc' = [pc EXCEPT ![c] = "looked_up"]
    /\ calls' = calls + 1
    /\ UNCHANGED <<tb, sw, granted>>

\* The second section of SlidingWindow.Allow, under window.mu: the trimmed
\* log is stored whether or not the call is allowed.
DecideSlidingWindow(c) ==
    /\ algorithm = "sliding_window"
    /\ pc[c] = "looked_up"
    /\ LET i   == held[c]
           log == Trim(sw[i], now)
           ok  == SlidingWindowOk(log)
       IN /\ sw' = [sw EXCEPT ![i] = IF ok THEN Append(log, now) ELSE log]
          /\ Decide(c, i, ok)
    /\ UNCHANGED <<tb, fw, held, calls>>

\* The second section of FixedWindow.Allow, under counter.mu.
DecideFixedWindow(c) ==
    /\ algorithm = "fixed_window"
    /\ pc[c] = "looked_up"
    /\ LET i  == held[c]
           k  == FixedCounter(fw[i], now)
           ok == FixedWindowOk(k)
       IN /\ fw' = [fw EXCEPT ![i] = IF ok THEN [k EXCEPT !.count = @ + 1] ELSE k]
          /\ Decide(c, i, ok)
    /\ UNCHANGED <<tb, sw, held, calls>>

\* Manager.CheckLimit(key): no per-key rule matches, so the "default"
\* algorithm built by initializeAlgorithms answers.
CheckLimit(c) ==
    /\ \/ AllowTokenBucket(c)
       \/ Lookup(c)
       \/ DecideSlidingWindow(c)
       \/ DecideFixedWindow(c)
    /\ UNCHANGED <<algorithm, now, gen>>

\* Manager.Reset(key) -> <algorithm>.Reset(key): the map entry is deleted
\* under the map mutex; the next lookup creates a fresh instance, while a
\* caller that already looked up keeps the old one.  The fresh instance
\* goes to a slot that is neither the map's nor held by a caller.
Reset ==
    LET free == Instances \ ({gen} \cup {held[c] : c \in {d \in Callers : pc[d] = "looked_up"}})
        i    == CHOOSE j \in free : \A k \in free : j <= k
    IN /\ gen' = i
       /\ tb' = NewTokenBucket
       /\ sw' = [sw EXCEPT ![i] = <<>>]
       /\ fw' = [fw EXCEPT ![i] = NoCounter]
       /\ granted' = [granted EXCEPT ![i] = NoGrants]
       /\ UNCHANGED <<algorithm, now, pc, held, calls>>

Tick ==
    /\ now < MaxTime
    /\ now' = now + 1
    /\ UNCHANGED <<algorithm, gen, tb, sw, fw, pc, held, calls, granted>>

Next == (\E c \in Callers : CheckLimit(c)) \/ Reset \/ Tick

Spec == Init /\ [][Next]_vars

\* Callers are interchangeable goroutines.
CallerSymmetry == Permutations(Callers)

-----------------------------------------------------------------------------
(* Properties                                                              *)

\* The limiter states stay in range: a bucket holds 0..burst tokens, no
\* instance's log or counter ever holds more than Requests calls.
TypeOK ==
    /\ algorithm \in Algorithms
    /\ now \in Ticks
    /\ gen \in Instances
    /\ tb \in [tokens : 0..Burst * Token, last : Ticks \cup {Never}, burst : 0..Burst]
    /\ \A i \in Instances : sw[i] \in Seq(Ticks) /\ Len(sw[i]) <= Requests
    /\ fw \in [Instances -> [exists : BOOLEAN, count : 0..Requests, window : Ticks]]
    /\ pc \in [Callers -> {"idle", "looked_up"}]
    /\ held \in [Callers -> Instances]
    /\ calls \in 0..MaxCalls
    /\ granted \in [Instances -> [Ticks -> Nat]]

\* Caller c finishes a call, and whether instance i allowed it.
Decided(c) == pc[c] = "looked_up" /\ pc'[c] = "idle"
AllowedOn(i) == granted'[i][now] > granted[i][now]

\* spec.md 8.1: whatever the spacing of the calls, a token bucket with limit
\* L per window W and burst B allows at most L + B calls in any window of
\* W seconds (since the last reset).  TokenBucket passes rate.Limit(L),
\* L per second, so this holds only for W = 1 s.
TokenBucketWindowLimit ==
    algorithm = "token_bucket" =>
        \A t \in 0..now :
            GrantedIn(gen, t - WindowTicks + 1 .. t) <= Requests + Burst

\* What TokenBucket.Allow does guarantee, through get-or-create, Resets
\* and any spacing of the calls: a key's limiter allows at most
\* B + R * d calls in any span of d seconds, R = Requests per second,
\* so the first calls spend the burst and later ones wait for the refill.
TokenBucketRate ==
    algorithm = "token_bucket" =>
        \A t1, t2 \in 0..now :
            t1 <= t2 =>
                GrantedIn(gen, t1..t2) * Token <= Burst * Token + Requests * (t2 - t1)

\* spec.md 8.2 and 4.3 ("each key's state mutation is serialized"): however
\* the lookups, decisions and Resets of concurrent callers interleave, a
\* sliding-window decision is exact for the instance it was made on: the
\* call is allowed iff that instance allowed fewer than Requests calls in
\* the trailing window (the code keeps the entry exactly Window old).
SlidingWindowExact ==
    [][\A c \in Callers :
         algorithm = "sliding_window" /\ Decided(c) =>
           (AllowedOn(held[c]) <=> GrantedIn(held[c], now - WindowTicks .. now) < Requests)]_vars

\* spec.md 4.3: a fixed-window decision is exact for the current aligned
\* window floor(now / W) of the instance it was made on, although the
\* counter took its window from the clock at the lookup, possibly ticks
\* (and idle windows) before the decision.
FixedWindowExact ==
    [][\A c \in Callers :
         algorithm = "fixed_window" /\ Decided(c) =>
           (AllowedOn(held[c]) <=> GrantedIn(held[c], Truncate(now) .. now) < Requests)]_vars

=============================================================================
