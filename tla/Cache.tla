-------------------------------- MODULE Cache --------------------------------
(***************************************************************************)
(* The three implementations of cache.Cache: two in-process ones in the   *)
(* cache package carried in src/internal/ratelimit/manager.go, and         *)
(* RedisCache (src/internal/cache/redis_cache.go 25-148):                  *)
(*                                                                         *)
(*  - LRUCache (366-572): a map from key to *lruItem and a doubly linked   *)
(*    list between head and tail sentinels, most recently used first.      *)
(*    Every method holds l.mu for its whole body, so each is one step.     *)
(*    A list node is identified by its key: a key has at most one item in *)
(*    the map, and an item dropped from the map is unreachable.            *)
(*  - MemoryCache (264-362): a wrapper of go-cache, whose map of items     *)
(*    with expirations and whose janitor (DeleteExpired every cleanup      *)
(*    interval) follow that library's implementation.                      *)
(*  - RedisCache: one command per call (two for Clear) against a Redis     *)
(*    server, over go-redis.  A single cache's prefix makes buildKey       *)
(*    one-to-one, so the keyspace is again an entry per key.  Redis        *)
(*    expires keys lazily on lookup and actively at any time; a command    *)
(*    may fail before it runs or lose its reply after it ran.              *)
(*                                                                         *)
(* `impl` is the implementation a cache was built as (fixed at Init).      *)
(* `items` is l.items, or go-cache's items, as an entry per key; `next`    *)
(* and `prev` are the LRU list's pointers; `got` is the last Get or Exists *)
(* answer.  `recency` is a history variable: the recency order of the keys *)
(* in the map as an ideal LRU keeps it, most recent first.  GetTTL and    *)
(* GetStats only read and are left out.                                   *)
(***************************************************************************)
EXTENDS Integers, Sequences, FiniteSets, SequencesExt

CONSTANTS
    Impls,      \* the implementations explored: "lru", "memory", "redis"
    Keys, Values,
    TTLs,       \* the ttl arguments callers pass to Set
    Capacity,   \* NewLRUCache capacity
    DefaultTTL, \* NewMemoryCache defaultTTL (config cache.ttl)
    MaxTime,    \* bound: the clock
    MaxOps,     \* bound: calls made
    HeadN, TailN, Nil,
    NoEntry, NoRead, Miss, Hit, Fail

ASSUME Impls \subseteq {"lru", "memory", "redis"} /\ Capacity \in Nat /\ DefaultTTL \in Nat

Nodes == Keys \cup {HeadN, TailN}

VARIABLES impl, items, next, prev, now, got, ops, recency

vars == <<impl, items, next, prev, now, got, ops, recency>>

Entry(v, e) == [val |-> v, exp |-> e]

-----------------------------------------------------------------------------
(* LRUCache                                                                *)

\* An expiry test that also expires an entry at its expiration instant.
ExpiredInclusive(e) == e.exp # 0 /\ now >= e.exp

\* !item.expiration.IsZero() && time.Now().After(item.expiration)
Expired(e) == e.exp # 0 /\ now > e.exp

\* LRUCache.Set: a positive ttl expires time.Now().Add(ttl), otherwise the
\* zero time (never).
LRUExpiration(ttl) == IF ttl > 0 THEN now + ttl ELSE 0

\* addToFront(item): item.prev = head; item.next = head.next;
\* head.next.prev = item; head.next = item.
AddToFront(nx, pv, n) ==
    LET first == nx[HeadN]
    IN  [next |-> [nx EXCEPT ![n] = first, ![HeadN] = n],
         prev |-> [pv EXCEPT ![n] = HeadN, ![first] = n]]

RemoveItem(nx, pv, n) ==
    [next |-> [nx EXCEPT ![pv[n]] = nx[n]],
     prev |-> [pv EXCEPT ![nx[n]] = pv[n]]]

\* moveToFront(item): removeItem, then addToFront.
MoveToFront(nx, pv, n) ==
    LET r == RemoveItem(nx, pv, n) IN AddToFront(r.next, r.prev, n)

\* evictLRU: last := tail.prev; unless it is the head, unlink it and
\* delete it from the map.  Returns the list and the map.
EvictLRU(nx, pv, its) ==
    LET last == pv[TailN]
        r    == RemoveItem(nx, pv, last)
    IN  IF last # HeadN
          THEN [next |-> r.next, prev |-> r.prev,
                items |-> [its EXCEPT ![last] = NoEntry]]
          ELSE [next |-> nx, prev |-> pv, items |-> its]

\* len(l.items)
Size(its) == Cardinality({k \in Keys : its[k] # NoEntry})

\* The reference recency order: k moved (or added) to the front, or dropped.
Touch(s, k) == <<k>> \o SelectSeq(s, LAMBDA x : x # k)
Forget(s, k) == SelectSeq(s, LAMBDA x : x # k)

Step == /\ ops < MaxOps
        /\ ops' = ops + 1

LRUGet(k) ==
    /\ impl = "lru" /\ Step
    /\ IF items[k] = NoEntry
         THEN /\ got' = [op |-> "get", key |-> k, res |-> Miss]
              /\ UNCHANGED <<items, next, prev, recency>>
       ELSE IF Expired(items[k])
         THEN LET r == RemoveItem(next, prev, k)
              IN  /\ next' = r.next /\ prev' = r.prev
                  /\ items' = [items EXCEPT ![k] = NoEntry]
                  /\ got' = [op |-> "get", key |-> k, res |-> Miss]
                  /\ recency' = Forget(recency, k)
         ELSE LET r == MoveToFront(next, prev, k)
              IN  /\ next' = r.next /\ prev' = r.prev
                  /\ got' = [op |-> "get", key |-> k, res |-> items[k].val]
                  /\ recency' = Touch(recency, k)
                  /\ UNCHANGED items
    /\ UNCHANGED <<impl, now>>

LRUSet(k, v, ttl) ==
    /\ impl = "lru" /\ Step
    /\ LET e == Entry(v, LRUExpiration(ttl))
       IN IF items[k] # NoEntry
            THEN LET r == MoveToFront(next, prev, k)
                 IN  /\ items' = [items EXCEPT ![k] = e]
                     /\ next' = r.next /\ prev' = r.prev
                     /\ recency' = Touch(recency, k)
            ELSE LET its == [items EXCEPT ![k] = e]
                     a   == AddToFront(next, prev, k)
                     ev  == EvictLRU(a.next, a.prev, its)
                     rec == Touch(recency, k)
                 IN  IF Size(its) > Capacity
                       THEN /\ items' = ev.items
                            /\ next' = ev.next /\ prev' = ev.prev
                            /\ recency' = SubSeq(rec, 1, Len(rec) - 1)
                       ELSE /\ items' = its
                            /\ next' = a.next /\ prev' = a.prev
                            /\ recency' = rec
    /\ UNCHANGED <<impl, now, got>>

LRUDelete(k) ==
    /\ impl = "lru" /\ Step
    /\ IF items[k] # NoEntry
         THEN LET r == RemoveItem(next, prev, k)
              IN  /\ next' = r.next /\ prev' = r.prev
                  /\ items' = [items EXCEPT ![k] = NoEntry]
                  /\ recency' = Forget(recency, k)
         ELSE UNCHANGED <<items, next, prev, recency>>
    /\ UNCHANGED <<impl, now, got>>

\* Exists holds only the read lock and does not remove an expired item.
LRUExists(k) ==
    /\ impl = "lru" /\ Step
    /\ got' = [op |-> "exists", key |-> k,
               res |-> IF items[k] # NoEntry /\ ~Expired(items[k])
                       THEN Hit ELSE Miss]
    /\ UNCHANGED <<impl, items, next, prev, now, recency>>

\* Clear: a new map, head.next = tail, tail.prev = head.
\* What both in-memory GetTTLs report for an entry they hold: -1 for the
\* zero expiration, else time.Until(expiration), and 0 once that is
\* negative.
TTLOf(e) == IF e.exp = 0 THEN -1 ELSE Max({e.exp - now, 0})

\* LRUCache.GetTTL, under the read lock: ErrCacheMiss for a key the map
\* lacks; an item past its expiration answers 0 and stays where it is.
LRUGetTTL(k) ==
    /\ impl = "lru" /\ Step
    /\ got' = [op |-> "ttl", key |-> k,
               res |-> IF items[k] = NoEntry THEN Miss ELSE TTLOf(items[k])]
    /\ UNCHANGED <<impl, items, next, prev, now, recency>>

LRUClear ==
    /\ impl = "lru" /\ Step
    /\ items' = [k \in Keys |-> NoEntry]
    /\ next' = [next EXCEPT ![HeadN] = TailN]
    /\ prev' = [prev EXCEPT ![TailN] = HeadN]
    /\ recency' = <<>>
    /\ UNCHANGED <<impl, now, got>>

-----------------------------------------------------------------------------
(* MemoryCache over go-cache                                               *)

\* go-cache's Get: an item whose Expiration is set and lies before now is
\* not found (it stays in the map until the janitor runs).
GoCacheFound(k) ==
    items[k] # NoEntry /\ (items[k].exp = 0 \/ now <= items[k].exp)

\* A MemoryCache.Set that hands every duration to go-cache as a deadline.
MemoryExpirationUnchecked(ttl) ==
    now + (IF ttl = 0 THEN DefaultTTL ELSE ttl)

\* MemoryCache.Set replaces ttl 0 by defaultTTL; go-cache's Set turns a
\* positive duration into now + d and anything else into no expiration
\* (cache.New maps a zero default to NoExpiration).
MemoryExpiration(ttl) ==
    LET d == IF ttl = 0 THEN DefaultTTL ELSE ttl
    IN  IF d > 0 THEN now + d ELSE 0

MemoryGet(k) ==
    /\ impl = "memory" /\ Step
    /\ got' = [op |-> "get", key |-> k,
               res |-> IF GoCacheFound(k) THEN items[k].val ELSE Miss]
    /\ UNCHANGED <<impl, items, next, prev, now, recency>>

MemorySet(k, v, ttl) ==
    /\ impl = "memory" /\ Step
    /\ items' = [items EXCEPT ![k] = Entry(v, MemoryExpiration(ttl))]
    /\ UNCHANGED <<impl, next, prev, now, got, recency>>

MemoryDelete(k) ==
    /\ impl = "memory" /\ Step
    /\ items' = [items EXCEPT ![k] = NoEntry]
    /\ UNCHANGED <<impl, next, prev, now, got, recency>>

MemoryExists(k) ==
    /\ impl = "memory" /\ Step
    /\ got' = [op |-> "exists", key |-> k,
               res |-> IF GoCacheFound(k) THEN Hit ELSE Miss]
    /\ UNCHANGED <<impl, items, next, prev, now, recency>>

\* Clear: go-cache Flush.
\* MemoryCache.GetTTL: go-cache's GetWithExpiration does not find an item
\* past its expiration.
MemoryGetTTL(k) ==
    /\ impl = "memory" /\ Step
    /\ got' = [op |-> "ttl", key |-> k,
               res |-> IF GoCacheFound(k) THEN TTLOf(items[k]) ELSE Miss]
    /\ UNCHANGED <<impl, items, next, prev, now, recency>>

MemoryClear ==
    /\ impl = "memory" /\ Step
    /\ items' = [k \in Keys |-> NoEntry]
    /\ UNCHANGED <<impl, next, prev, now, got, recency>>

\* A cache built with cache.New(defaultTTL, 0): go-cache starts no janitor.
NoJanitor == FALSE

\* go-cache's janitor: DeleteExpired removes every expired item at once.
Janitor ==
    /\ impl = "memory"
    /\ \E k \in Keys : items[k] # NoEntry /\ ~GoCacheFound(k)
    /\ items' = [k \in Keys |-> IF GoCacheFound(k) THEN items[k] ELSE NoEntry]
    /\ UNCHANGED <<impl, next, prev, now, got, ops, recency>>

-----------------------------------------------------------------------------
(* RedisCache over go-redis                                                *)

\* go-redis's KeepTTL: Set with expiration -1 sends SET ... KEEPTTL.
KeepTTL == -1

\* How a command's round trip ends: answered, refused before it ran
\* (connection error), or run with its reply lost (timeout).
Replies == {"ok", "error", "lost"}

\* Redis lookupKey: a key past its expiration is absent (and deleted).
RedisLive(k) == items[k] # NoEntry /\ ~Expired(items[k])

\* The keyspace after a command that looked k up: an expired k is gone.
Lookup(k) == IF items[k] # NoEntry /\ ~RedisLive(k)
               THEN [items EXCEPT ![k] = NoEntry] ELSE items

\* RedisCache.Set replaces ttl 0 by defaultTTL; go-redis sends EX/PX for a
\* positive duration, KEEPTTL for -1 (the live key keeps its expiration)
\* and a plain SET, which clears any expiration, for anything else.
RedisExpiration(k, ttl) ==
    LET d == IF ttl = 0 THEN DefaultTTL ELSE ttl
    IN  IF d > 0 THEN now + d
        ELSE IF d = KeepTTL /\ RedisLive(k) THEN items[k].exp
        ELSE 0

\* The keyspace after a command with effect `eff`, given how it ended.
Applied(reply, eff) == IF reply = "error" THEN items ELSE eff

RedisGet(k) ==
    /\ impl = "redis" /\ Step
    /\ \E reply \in Replies :
          /\ items' = Applied(reply, Lookup(k))
          /\ got' = [op |-> "get", key |-> k,
                     res |-> IF reply # "ok" THEN Fail
                             ELSE IF RedisLive(k) THEN items[k].val ELSE Miss]
    /\ UNCHANGED <<impl, next, prev, now, recency>>

RedisSet(k, v, ttl) ==
    /\ impl = "redis" /\ Step
    /\ \E reply \in Replies :
          items' = Applied(reply,
                     [items EXCEPT ![k] = Entry(v, RedisExpiration(k, ttl))])
    /\ UNCHANGED <<impl, next, prev, now, got, recency>>

RedisDelete(k) ==
    /\ impl = "redis" /\ Step
    /\ \E reply \in Replies :
          items' = Applied(reply, [items EXCEPT ![k] = NoEntry])
    /\ UNCHANGED <<impl, next, prev, now, got, recency>>

RedisExists(k) ==
    /\ impl = "redis" /\ Step
    /\ \E reply \in Replies :
          /\ items' = Applied(reply, Lookup(k))
          /\ got' = [op |-> "exists", key |-> k,
                     res |-> IF reply # "ok" THEN Fail
                             ELSE IF RedisLive(k) THEN Hit ELSE Miss]
    /\ UNCHANGED <<impl, next, prev, now, recency>>

\* RedisCache.GetTTL: TTL replies -2 for a key that is absent (an expired
\* one is deleted by the lookup) and -1 for one without an expiration;
\* go-redis passes both through as durations, so neither is an error.
RedisGetTTL(k) ==
    /\ impl = "redis" /\ Step
    /\ \E reply \in Replies :
          /\ items' = Applied(reply, Lookup(k))
          /\ got' = [op |-> "ttl", key |-> k,
                     res |-> CASE reply # "ok"      -> Fail
                               [] ~RedisLive(k)     -> -2
                               [] items[k].exp = 0  -> -1
                               [] OTHER             -> items[k].exp - now]
    /\ UNCHANGED <<impl, next, prev, now, recency>>

\* Clear: KEYS prefix:* and, if any key matched, DEL of them.  A failed
\* KEYS (reply "error" or "lost") deletes nothing, and neither does a DEL
\* refused before it ran; a DEL whose reply was lost did run.  An expired
\* key is absent to KEYS and to every later lookup, so it is dropped too.
RedisClear ==
    /\ impl = "redis" /\ Step
    /\ \E reply \in Replies :
          items' = Applied(reply, [k \in Keys |-> NoEntry])
    /\ UNCHANGED <<impl, next, prev, now, got, recency>>

\* Redis's active expiry: a sampled key past its expiration is deleted.
RedisActiveExpire(k) ==
    /\ impl = "redis"
    /\ items[k] # NoEntry /\ ~RedisLive(k)
    /\ items' = [items EXCEPT ![k] = NoEntry]
    /\ UNCHANGED <<impl, next, prev, now, got, ops, recency>>

Tick ==
    /\ now < MaxTime
    /\ now' = now + 1
    /\ UNCHANGED <<impl, items, next, prev, got, ops, recency>>

-----------------------------------------------------------------------------

\* NewLRUCache (empty map, head.next = tail, tail.prev = head),
\* NewMemoryCache (an empty go-cache) or NewRedisCache (an empty prefix).
Init ==
    /\ impl \in Impls
    /\ items = [k \in Keys |-> NoEntry]
    /\ next = [n \in Nodes |-> IF n = HeadN THEN TailN ELSE Nil]
    /\ prev = [n \in Nodes |-> IF n = TailN THEN HeadN ELSE Nil]
    /\ now = 0
    /\ got = NoRead
    /\ ops = 0
    /\ recency = <<>>

Next ==
    \/ \E k \in Keys :
          \/ LRUGet(k) \/ LRUDelete(k) \/ LRUExists(k)
          \/ MemoryGet(k) \/ MemoryDelete(k) \/ MemoryExists(k)
          \/ RedisGet(k) \/ RedisDelete(k) \/ RedisExists(k)
          \/ LRUGetTTL(k) \/ MemoryGetTTL(k) \/ RedisGetTTL(k)
    \/ \E k \in Keys, v \in Values, ttl \in TTLs :
          LRUSet(k, v, ttl) \/ MemorySet(k, v, ttl) \/ RedisSet(k, v, ttl)
    \/ LRUClear \/ MemoryClear \/ RedisClear
    \/ Janitor
    \/ \E k \in Keys : RedisActiveExpire(k)
    \/ Tick

Spec == Init /\ [][Next]_vars

\* go-cache's janitor goroutine runs DeleteExpired on a ticker (every 10
\* minutes, as NewMemoryCache asks), and Redis's active expire cycle scans
\* the keyspace incrementally from serverCron: each stays enabled while an
\* expired item is present, so each is eventually taken.  No fairness is
\* assumed of callers or of the clock.
FairSpec ==
    /\ Spec
    /\ WF_vars(Janitor)
    /\ \A k \in Keys : WF_vars(RedisActiveExpire(k))

-----------------------------------------------------------------------------
(* Properties                                                              *)

TypeOK ==
    /\ impl \in Impls
    /\ items \in [Keys -> {NoEntry} \cup [val : Values, exp : Nat]]
    /\ next \in [Nodes -> Nodes \cup {Nil}]
    /\ prev \in [Nodes -> Nodes \cup {Nil}]
    /\ now \in 0..MaxTime
    /\ ops \in 0..MaxOps
    /\ recency \in Seq(Keys)

\* The nodes met following next from the head sentinel up to the tail
\* (Nil marks a walk that leaves the list or does not end).
RECURSIVE Walk(_, _, _, _)
Walk(ptr, n, stop, fuel) ==
    IF n = stop THEN <<>>
    ELSE IF fuel = 0 \/ n \notin Keys THEN <<Nil>>
    ELSE <<n>> \o Walk(ptr, ptr[n], stop, fuel - 1)

ForwardList == Walk(next, next[HeadN], TailN, Cardinality(Keys))
BackwardList == Walk(prev, prev[TailN], HeadN, Cardinality(Keys))

ExpiredEventuallyDropped ==
    \A k \in Keys :
        (impl # "lru" /\ items[k] # NoEntry /\ Expired(items[k]))
            ~> (items[k] = NoEntry \/ ~Expired(items[k]))

\* Every implementation keeps the Cache interface's contract (CacheSpec):
\* Get and Exists answer the value of the key's last Set while it is live
\* and Miss once it is deleted, cleared, evicted or past its expiration (or
\* fail), GetTTL answers a live entry's exact remaining time and never a
\* live-looking one for a dead key, and Set gives the expiration its ttl
\* asks for: a negative ttl never expires, except that -1 (go-cache's
\* NoExpiration, go-redis's KeepTTL) may leave a live key its old deadline.
CS == INSTANCE CacheSpec WITH store <- items

CacheRefinement == CS!Spec

=============================================================================
