------------------------- MODULE DistributedRateLimit -------------------------
(***************************************************************************)
(* DistributedRateLimit (src/unnamed/part_000, algorithms.go): several     *)
(* gateway instances share one Redis sorted set per key.  Allow reads      *)
(* time.Now().UnixMilli() first and then runs the Lua script, which Redis  *)
(* executes atomically:                                                    *)
(*                                                                         *)
(*   zremrangebyscore key -inf (now - window * 1000)                       *)
(*   current = zcard key                                                   *)
(*   if current < limit: zadd key now now; expire key window; allow        *)
(*   else deny                                                             *)
(*                                                                         *)
(* where ARGV `window` is already in milliseconds.  The sorted set is a    *)
(* set of millisecond timestamps (member = score = now).  Time is in       *)
(* milliseconds and advances by the steps in Delays, so that both one      *)
(* millisecond and multiples of the window are reachable.                  *)
(*                                                                         *)
(* The history `grants` lists the timestamps of the allowed calls.         *)
(***************************************************************************)
EXTENDS Integers, Sequences, FiniteSets

CONSTANTS
    Instances,  \* gateway processes (or goroutines) calling Allow
    Limit,      \* drl.limit
    WindowMs,   \* drl.window in milliseconds (windowMs)
    Delays,     \* bound: clock advances explored, in ms
    MaxTime,    \* bound: last clock value explored, in ms
    MaxTicks,   \* bound: number of clock advances explored
    MaxCalls    \* bound: number of Allow calls explored

ASSUME Limit \in Nat /\ WindowMs \in Nat \ {0}
ASSUME Delays \subseteq Nat \ {0} /\ MaxTime \in Nat /\ MaxCalls \in Nat
ASSUME MaxTicks \in Nat

Times == 0..MaxTime
NoTTL == -1
NoStamp == -1

\* The script's factor on the window, which it believes is in seconds.
ScriptScale == 1000

VARIABLES
    now,     \* the clock, in ms (shared by the instances and Redis)
    zset,    \* the key's sorted set: timestamps (member = score)
    ttl,     \* the key's expiry deadline in ms, or NoTTL
    pc,      \* per instance: "idle" or "script" (time read, script pending)
    stamp,   \* per instance: the `now` read at the start of Allow
    reply,   \* per instance: what the last Allow returned
    calls,   \* Allow calls started (bounded by MaxCalls)
    grants,  \* history: the timestamps of allowed calls, in order
    inserted,\* history: the timestamps the script added, replied or not
    ticks    \* clock advances so far (bounded by MaxTicks)

vars == <<now, zset, ttl, pc, stamp, reply, calls, grants, inserted, ticks>>

-----------------------------------------------------------------------------
(* The script                                                              *)

\* zremrangebyscore key -inf (now - window*1000): the bound is inclusive.
Trimmed(z, s) == {x \in z : x > s - WindowMs * ScriptScale}

\* A variant of ScriptAllows that admits one call too many.
ScriptAllowsOffByOne(current) == current <= Limit

\* if current < limit
ScriptAllows(current) == current < Limit

\* A variant of ExpireAt that sets the expiry only when the key is created.
ExpireAtOnCreate(deadline, t) ==
    IF deadline = NoTTL THEN t + WindowMs * ScriptScale ELSE deadline

\* expire key window: ARGV window (ms) is taken as seconds.
ExpireAt(deadline, t) == t + WindowMs * ScriptScale

\* The store after the script ran with argument s at Redis time t: the
\* sorted set, its expiry and whether the call was allowed.  A key whose
\* set becomes empty no longer exists, and its expiry goes with it.
Script(s, t) ==
    LET kept == Trimmed(zset, s)
        ok   == ScriptAllows(Cardinality(kept))
        z    == IF ok THEN kept \cup {s} ELSE kept
    IN [zset |-> z,
        ttl  |-> IF z = {} THEN NoTTL
                 ELSE IF ok THEN ExpireAt(ttl, t) ELSE ttl,
        ok   |-> ok]

-----------------------------------------------------------------------------

Init ==
    /\ now = 0
    /\ zset = {}
    /\ ttl = NoTTL
    /\ pc = [i \in Instances |-> "idle"]
    /\ stamp = [i \in Instances |-> NoStamp]
    /\ reply = [i \in Instances |-> "none"]
    /\ calls = 0
    /\ grants = <<>>
    /\ inserted = <<>>
    /\ ticks = 0

\* Allow, first line: now := time.Now().UnixMilli().
ReadClock(i) ==
    /\ pc[i] = "idle"
    /\ calls < MaxCalls
    /\ pc' = [pc EXCEPT ![i] = "script"]
    /\ stamp' = [stamp EXCEPT ![i] = now]
    /\ calls' = calls + 1
    /\ UNCHANGED <<now, zset, ttl, reply, grants, inserted, ticks>>

\* script.Run succeeds: Redis runs the script atomically; Allow returns
\* (values[0] == 1, nil).
RunScript(i) ==
    /\ pc[i] = "script"
    /\ LET r == Script(stamp[i], now) IN
         /\ zset' = r.zset
         /\ ttl' = r.ttl
         /\ reply' = [reply EXCEPT ![i] = IF r.ok THEN "allowed" ELSE "denied"]
         /\ grants' = IF r.ok THEN Append(grants, stamp[i]) ELSE grants
         /\ inserted' = IF r.ok THEN Append(inserted, stamp[i]) ELSE inserted
    /\ pc' = [pc EXCEPT ![i] = "idle"]
    /\ UNCHANGED <<now, stamp, calls, ticks>>

\* script.Run returns an error: the store was unreachable (nothing ran) or
\* the reply was lost after the script ran.  Allow returns (false, err).
StoreError(i) ==
    /\ pc[i] = "script"
    /\ \E ran \in BOOLEAN :
         LET r == Script(stamp[i], now) IN
         /\ zset' = IF ran THEN r.zset ELSE zset
         /\ ttl' = IF ran THEN r.ttl ELSE ttl
         /\ inserted' = IF ran /\ r.ok THEN Append(inserted, stamp[i])
                                      ELSE inserted
    /\ reply' = [reply EXCEPT ![i] = "error"]
    /\ pc' = [pc EXCEPT ![i] = "idle"]
    /\ UNCHANGED <<now, stamp, calls, grants, ticks>>

\* Redis deletes the key when its expiry passes.
ExpireKey ==
    /\ ttl # NoTTL
    /\ now >= ttl
    /\ zset' = {}
    /\ ttl' = NoTTL
    /\ UNCHANGED <<now, pc, stamp, reply, calls, grants, inserted, ticks>>

\* DistributedRateLimit.Reset: DEL key.  The histories restart with it.
Reset ==
    /\ zset' = {}
    /\ ttl' = NoTTL
    /\ grants' = <<>>
    /\ inserted' = <<>>
    /\ UNCHANGED <<now, pc, stamp, reply, calls, ticks>>

Tick ==
    /\ ticks < MaxTicks
    /\ ticks' = ticks + 1
    /\ \E d \in Delays :
         /\ now + d <= MaxTime
         /\ now' = now + d
    /\ UNCHANGED <<zset, ttl, pc, stamp, reply, calls, grants, inserted>>

Next ==
    \/ \E i \in Instances : ReadClock(i) \/ RunScript(i) \/ StoreError(i)
    \/ ExpireKey
    \/ Reset
    \/ Tick

Spec == Init /\ [][Next]_vars

-----------------------------------------------------------------------------
(* Properties                                                              *)

TypeOK ==
    /\ now \in Times
    /\ zset \subseteq Times /\ Cardinality(zset) <= Limit
    /\ ttl \in {NoTTL} \cup Nat
    /\ pc \in [Instances -> {"idle", "script"}]
    /\ stamp \in [Instances -> Times \cup {NoStamp}]
    /\ reply \in [Instances -> {"none", "allowed", "denied", "error"}]
    /\ calls \in 0..MaxCalls
    /\ ticks \in 0..MaxTicks
    /\ grants \in Seq(Times) /\ inserted \in Seq(Times)

\* The number of entries of history h with timestamp in lo..hi.
CountIn(h, lo, hi) == Cardinality({k \in DOMAIN h : h[k] \in lo..hi})

\* spec.md 8.1: however the instances interleave their clock reads and
\* scripts, the calls allowed with timestamps in any window of WindowMs
\* milliseconds are at most Limit.
WindowLimit ==
    \A k \in DOMAIN grants :
        CountIn(grants, grants[k] - WindowMs + 1, grants[k]) <= Limit

\* spec.md 4.3: the script trims the entries older than now - W, so it denies
\* a call only when Limit calls with timestamps in the trailing window (or
\* later, from instances with a newer clock) are in the store.
NoSpuriousDenial ==
    [][\A i \in Instances :
         RunScript(i) /\ reply'[i] = "denied" =>
            CountIn(inserted, stamp[i] - WindowMs + 1, MaxTime) >= Limit]_vars

\* The expire the script sets after each insert never lets Redis delete the
\* key while it still holds a timestamp inside the trailing window, which
\* would reset the limit early.
ExpiryKeepsLiveEntries ==
    [][ExpireKey => \A x \in zset : x <= now - WindowMs]_vars

=============================================================================
