------------------------------- MODULE MC_Cache -------------------------------
(* Cache with two keys, two values and an LRU capacity of one.           *)
EXTENDS Cache

CONSTANTS k1, k2, v1, v2

MC_Keys == {k1, k2}
\* Two values, so that a Set that keeps a key's value and changes only its
\* expiration is not a stutter.
MC_Values == {v1, v2}

\* Every kind of ttl: go-cache's NoExpiration and go-redis's KeepTTL (-1),
\* another negative one, 0 (whose meaning each implementation chooses) and
\* 1 tick.
MC_TTLs == {-2, -1, 0, 1}

=============================================================================
