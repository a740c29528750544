------------------------------ MODULE CacheSpec ------------------------------
(***************************************************************************)
(* What a caller of the cache.Cache interface (src/internal/cache/          *)
(* redis_cache.go 15-23) may rely on, whichever implementation is behind   *)
(* it.  Each key holds at most one entry, a value and an expiration time   *)
(* (0 = never); the entry is live while now is not after its expiration.  *)
(*                                                                         *)
(*  - Get answers the entry's value while it is live and Miss otherwise;   *)
(*    Exists answers Hit or Miss the same way.  Either may instead fail   *)
(*    (Fail) without a value.  `got` is the last answer.                  *)
(*  - GetTTL answers a live entry's remaining time, -1 if it never        *)
(*    expires.  For a key without a live entry it answers Miss or a        *)
(*    duration that is neither positive nor -1 (the implementations        *)
(*    differ there: ErrCacheMiss, 0, or go-redis's -2).                    *)
(*  - Set(k, v, ttl) stores v; a positive ttl expires it ttl later, a      *)
(*    negative one never, and ttl 0 is left to the implementation (never,  *)
(*    or after its default TTL).  The interface does not say what -1       *)
(*    means, and the implementations differ: never for LRUCache and        *)
(*    go-cache (NoExpiration), while go-redis sends KEEPTTL and a live key *)
(*    keeps its old expiration.  A Set may evict entries, itself included. *)
(*  - Delete drops the entry, Clear drops every entry, and an expired      *)
(*    entry may be dropped at any time.                                    *)
(***************************************************************************)
EXTENDS Integers

CONSTANTS
    Keys, Values, TTLs, DefaultTTL,
    NoEntry,    \* a key without an entry
    NoRead,     \* no Get or Exists has answered yet
    Miss, Hit,
    Fail        \* a Get or Exists that returned an error

VARIABLES store, now, got

Entry(v, e) == [val |-> v, exp |-> e]

Live(k) == store[k] # NoEntry /\ (store[k].exp = 0 \/ now <= store[k].exp)

Expired(k) == store[k] # NoEntry /\ ~Live(k)

\* The expirations a Set of k with this ttl may give.
Expirations(k, ttl) ==
    IF ttl > 0 THEN {now + ttl}
    ELSE IF ttl = -1 /\ Live(k) THEN {0, store[k].exp}
    ELSE IF ttl < 0 THEN {0}
    ELSE {0} \cup (IF DefaultTTL > 0 THEN {now + DefaultTTL} ELSE {})

\* store with the keys of D dropped.
Without(s, D) == [k \in Keys |-> IF k \in D THEN NoEntry ELSE s[k]]

Init ==
    /\ store = [k \in Keys |-> NoEntry]
    /\ now = 0
    /\ got = NoRead

Get(k) ==
    /\ got' \in {[op |-> "get", key |-> k, res |-> r] :
                   r \in {IF Live(k) THEN store[k].val ELSE Miss, Fail}}
    /\ store' \in {store, Without(store, {x \in {k} : Expired(x)})}
    /\ UNCHANGED now

Exists(k) ==
    /\ got' \in {[op |-> "exists", key |-> k, res |-> r] :
                   r \in {IF Live(k) THEN Hit ELSE Miss, Fail}}
    /\ store' \in {store, Without(store, {x \in {k} : Expired(x)})}
    /\ UNCHANGED now

\* What GetTTL reports for a live entry: -1 when it never expires.
Remaining(k) == IF store[k].exp = 0 THEN -1 ELSE store[k].exp - now

\* The answers GetTTL may give for a key without a live entry.
DeadTTLs == {Miss} \cup {d \in -2..0 : d # -1}

GetTTL(k) ==
    /\ got' \in {[op |-> "ttl", key |-> k, res |-> r] :
                   r \in (IF Live(k) THEN {Remaining(k)} ELSE DeadTTLs)
                          \cup {Fail}}
    /\ store' \in {store, Without(store, {x \in {k} : Expired(x)})}
    /\ UNCHANGED now

Set(k, v, ttl) ==
    \E e \in Expirations(k, ttl), D \in SUBSET Keys :
        /\ store' = Without([store EXCEPT ![k] = Entry(v, e)], D)
        /\ UNCHANGED <<now, got>>

Delete(k) ==
    /\ store' = Without(store, {k})
    /\ UNCHANGED <<now, got>>

Clear ==
    /\ store' = Without(store, Keys)
    /\ UNCHANGED <<now, got>>

DropExpired ==
    \E D \in SUBSET {k \in Keys : Expired(k)} :
        /\ D # {}
        /\ store' = Without(store, D)
        /\ UNCHANGED <<now, got>>

Tick ==
    /\ now' = now + 1
    /\ UNCHANGED <<store, got>>

Next ==
    \/ \E k \in Keys : Get(k) \/ Exists(k) \/ GetTTL(k) \/ Delete(k)
    \/ \E k \in Keys, v \in Values, ttl \in TTLs : Set(k, v, ttl)
    \/ Clear
    \/ DropExpired
    \/ Tick

Spec == Init /\ [][Next]_<<store, now, got>>

=============================================================================
