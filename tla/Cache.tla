-------------------------------- MODULE Cache --------------------------------
(***************************************************************************)
(* The answer caches of dns/resolver.py: Cache, a dictionary that is swept *)
(* now and then, and LRUCache, a dictionary whose nodes are also in a ring *)
(* of prev and next links, most recently used first.  Every method holds   *)
(* the lock of the cache, so each is one step.  The statistics are left    *)
(* out.                                                                    *)
(*                                                                         *)
(* A node of the ring is named by its key; Sentinel is where the ring      *)
(* begins and ends.                                                        *)
(***************************************************************************)
EXTENDS Integers, FiniteSets, Functions

CONSTANTS
    Sentinel,           \* LRUCache.sentinel
    CleaningInterval    \* Cache.cleaning_interval

NewCache(kind, size, now) ==
    [kind |-> kind, size |-> IF size < 1 THEN 1 ELSE size, data |-> [key \in {} |-> 0],
     next |-> [key \in {Sentinel} |-> Sentinel], prev |-> [key \in {Sentinel} |-> Sentinel],
     cleaning |-> now + CleaningInterval]

Expired(value, now) == value.expiration <= now

With(f, key, value) == [k \in DOMAIN f \cup {key} |-> IF k = key THEN value ELSE f[k]]
Without(f, keys) == Restrict(f, DOMAIN f \ keys)

(* _maybe_clean.                                                           *)
Cleaned(c, now) ==
    IF now < c.cleaning THEN c
    ELSE [c EXCEPT !.data = Without(@, {key \in DOMAIN @ : Expired(@[key], now)}),
                   !.cleaning = now + CleaningInterval]

HalfMutant(c, key) ==
    [c EXCEPT !.prev = Without([@ EXCEPT ![c.next[key]] = c.prev[key]], {key}),
              !.next = Without(@, {key})]

(* LRUCacheNode.unlink and link_after(sentinel).                           *)
Unlinked(c, key) ==
    [c EXCEPT !.prev = Without([@ EXCEPT ![c.next[key]] = c.prev[key]], {key}),
              !.next = Without([@ EXCEPT ![c.prev[key]] = c.next[key]], {key})]

LinkedFirst(c, key) ==
    LET first == c.next[Sentinel]
    IN  [c EXCEPT !.prev = With(With(@, key, Sentinel), first, key),
                  !.next = With(With(@, key, first), Sentinel, key)]

Dropped(c, key) == [Unlinked(c, key) EXCEPT !.data = Without(@, {key})]

StaleMutant(c, key, now) == key \in DOMAIN c.data

(* get(): whether there is an answer, and the cache after it.              *)
Hit(c, key, now) == key \in DOMAIN c.data /\ ~Expired(c.data[key], now)

Got(c, key, now) ==
    IF c.kind = "Cache" THEN Cleaned(c, now)
    ELSE IF key \notin DOMAIN c.data THEN c
    ELSE IF Expired(c.data[key], now) THEN Dropped(c, key)
    ELSE LinkedFirst(Unlinked(c, key), key)

(* put() of LRUCache: the last of the ring make room.                      *)
Evicted(c) ==
    LET excess == Cardinality(DOMAIN c.data) - c.size + 1
        after[i \in 0 .. excess] ==
            IF i = 0 THEN c ELSE Dropped(after[i - 1], after[i - 1].prev[Sentinel])
    IN  IF excess > 0 THEN after[excess] ELSE c

Put(c, key, value, now) ==
    IF c.kind = "Cache" THEN [Cleaned(c, now) EXCEPT !.data = With(@, key, value)]
    ELSE LET room == Evicted(IF key \in DOMAIN c.data THEN Dropped(c, key) ELSE c)
         IN  [LinkedFirst(room, key) EXCEPT !.data = With(@, key, value)]

(* flush() of a key, and of everything.                                    *)
Flushed(c, key) ==
    IF key \notin DOMAIN c.data THEN c
    ELSE IF c.kind = "Cache" THEN [c EXCEPT !.data = Without(@, {key})]
    ELSE Dropped(c, key)

FlushedAll(c, now) ==
    IF c.kind = "Cache" THEN NewCache(c.kind, c.size, now)
    ELSE [NewCache(c.kind, c.size, now) EXCEPT !.cleaning = c.cleaning]

(* set_max_size: what is too much goes with the next put().                *)
Resized(c, size) == [c EXCEPT !.size = IF size < 1 THEN 1 ELSE size]

=============================================================================
