--------------------------------- MODULE Stub ---------------------------------
(***************************************************************************)
(* The stub resolver as a whole (dns/resolver.py): Resolver.resolve, which *)
(* tries the names that a search list makes of the one it is asked for and *)
(* keeps answers in a cache that threads share, and zone_for_name, which   *)
(* climbs from a name to the apex of its zone.  One exchange with the      *)
(* nameservers is a single step here; Resolution has its parts.            *)
(*                                                                         *)
(* What the nameservers say comes from a world: apexes of zones, hosts     *)
(* with an address, and aliases (CNAMEs).  The world changes, and a        *)
(* response has the TTL it has.  A name is a sequence of labels, the root  *)
(* the empty one.                                                          *)
(***************************************************************************)
EXTENDS Cache, Sequences

CONSTANTS
    Threads,
    Requests,       \* what may be asked: [labels, absolute, search, climbs], the
                    \* last for zone_for_name, with an absolute name
    Resolvers,      \* resolvers: [search, domain, ndots, cache], Unset for no
                    \* domain, or the default ndots, or as the kind of the cache
    Sizes,          \* max_size an LRUCache may be given
    Unset,
    Worlds,         \* the worlds, in the order they come
    Ttls,           \* the TTLs of responses
    MaxTtl,         \* dns.ttl.MAX_TTL
    MaxClock, MaxAsked, MaxFlushes

ASSUME StubAssumption ==
    /\ \A w \in DOMAIN Worlds : <<>> \in Worlds[w].apexes
    /\ \A ttl \in Ttls : ttl \in Nat /\ ttl <= MaxTtl
    /\ MaxTtl > MaxClock
    /\ Sizes \subseteq Int /\ \A r \in Resolvers : r.cache.size \in Int

VARIABLES
    config,     \* search, domain, ndots of the resolver
    cache,
    now, world,
    ended,      \* history: when each world that is over ended
    query,      \* of each thread: the call it makes, and where it is
    newer,      \* history: of each key of the cache, those used after it
    asked,      \* calls made
    flushed     \* calls of flush and set_max_size

stubVars == <<config, cache, now, world, ended, query, newer, asked, flushed>>

-----------------------------------------------------------------------------
(* Names, and what the nameservers say of them.                            *)

Parent(name) == Tail(name)
Above(name) == {SubSeq(name, i, Len(name)) : i \in 1 .. Len(name) + 1}

(* The apex of the zone that has the name.                                 *)
ApexOf(w, name) ==
    CHOOSE apex \in Above(name) \cap w.apexes :
        \A other \in Above(name) \cap w.apexes : Len(other) <= Len(apex)

Exists(w, name) ==
    \E other \in w.apexes \cup w.hosts \cup DOMAIN w.alias : name \in Above(other)

(* terse: a negative response without the SOA of its zone.  The TTL is of  *)
(* no matter when there is no record.                                      *)
Response(k, name, type, ttl, terse) ==
    LET w == Worlds[k]
        owner == IF name \in DOMAIN w.alias THEN w.alias[name] ELSE name
        answered == owner \in (IF type = "SOA" THEN w.apexes ELSE w.hosts)
    IN  [owner |-> owner, answer |-> answered,
         nx |-> ~Exists(w, owner),
         soa |-> IF terse \/ answered THEN Unset ELSE ApexOf(w, owner),
         ttl |-> ttl, alias |-> owner # name, world |-> k]

-----------------------------------------------------------------------------

(* _get_qnames_to_try.                                                     *)
QnamesToTry(request) ==
    LET suffixes == IF config.search # <<>> THEN config.search
                    ELSE IF config.domain \notin {Unset, <<>>} THEN <<config.domain>>
                    ELSE <<>>
        ndots == IF config.ndots = Unset THEN 1 ELSE config.ndots
        searched == [i \in DOMAIN suffixes |-> request.labels \o suffixes[i]]
    IN  IF request.absolute \/ ~request.search THEN <<request.labels>>
        ELSE IF Len(request.labels) > ndots THEN <<request.labels>> \o searched
        ELSE searched \o <<request.labels>>

(* Answer.expiration, by resolve_chaining: the least TTL of the chain, and *)
(* of the SOA of a negative response, or MAX_TTL if there is none of them. *)
Expiration(response) ==
    now + IF response.answer \/ response.alias \/ response.soa # Unset THEN response.ttl ELSE MaxTtl

(* A call of a thread: the names it has to try yet, the NXDOMAIN responses *)
(* to others, the response it has, and for zone_for_name what resolve() or *)
(* its exception told.                                                     *)
NoCall ==
    [at |-> "idle", qnames |-> <<>>, nx |-> {}, name |-> <<>>, type |-> Unset, climbs |-> FALSE,
     response |-> Unset, expiration |-> 0, how |-> Unset, responses |-> {}]

StubInit ==
    /\ config \in Resolvers
    /\ cache = NewCache(config.cache.kind, config.cache.size, 0)
    /\ now = 0 /\ world = 1 /\ ended = <<>> /\ asked = 0 /\ flushed = 0 /\ newer = [key \in {} |-> {}]
    /\ query = [t \in Threads |-> NoCall]

Moves(t, q) == query' = [query EXCEPT ![t] = q]

(* A key that is used is used after all the others.                        *)
Uses(c, key) ==
    LET keys == DOMAIN c.data
    IN  /\ cache' = c
        /\ newer' = [k \in keys |-> keys \cap (IF k = key THEN {} ELSE newer[k] \cup {key})]

Others == <<config, now, world, ended, asked, flushed>>

(* resolve(), and the first resolve() of zone_for_name.                    *)
Call(t, request) ==
    /\ query[t].at \in {"idle", "returned"} /\ asked < MaxAsked
    /\ asked' = asked + 1
    /\ Moves(t, [NoCall EXCEPT !.at = "next", !.qnames = QnamesToTry(request), !.name = request.labels,
                               !.type = IF request.climbs THEN "SOA" ELSE "A", !.climbs = request.climbs])
    /\ UNCHANGED <<config, cache, now, world, ended, newer, flushed>>

(* What resolve() returned or raised, with the responses it goes by, which *)
(* only zone_for_name looks at.                                            *)
Returned(q, how, responses) ==
    IF ~q.climbs THEN [NoCall EXCEPT !.at = "returned"]
    ELSE [NoCall EXCEPT !.at = "climb", !.climbs = TRUE, !.how = how, !.responses = responses,
                        !.name = q.name, !.type = q.type]

Noted(q, response) == IF q.climbs THEN {response} ELSE {}

Key(q) == <<Head(q.qnames), q.type>>
AnyKey(q) == <<Head(q.qnames), "ANY">>

OutOfNames(t) ==
    LET q == query[t]
    IN  /\ q.at = "next" /\ q.qnames = <<>>
        /\ Moves(t, Returned(q, "NXDOMAIN", q.nx))
        /\ UNCHANGED <<Others, cache, newer>>

Told(q, response) == Returned(q, IF response.answer THEN "answer" ELSE "NoAnswer", {response})

(* next_request: the cache is asked for the answer, then for an NXDOMAIN.  *)
AskCache(t) ==
    LET q == query[t]
    IN  /\ q.at = "next" /\ q.qnames # <<>>
        /\ IF cache.kind = Unset
           THEN Moves(t, [q EXCEPT !.at = "ask"]) /\ UNCHANGED <<cache, newer>>
           ELSE /\ Uses(Got(cache, Key(q), now), Key(q))
                /\ Moves(t, IF Hit(cache, Key(q), now)
                              THEN Told(q, cache.data[Key(q)].response)
                              ELSE [q EXCEPT !.at = "any"])
        /\ UNCHANGED Others

AskCacheForAny(t) ==
    LET q == query[t]
    IN  /\ q.at = "any"
        /\ Uses(Got(cache, AnyKey(q), now), AnyKey(q))
        /\ Moves(t, IF Hit(cache, AnyKey(q), now)
                      THEN [q EXCEPT !.at = "next", !.qnames = Tail(@),
                                     !.nx = Noted(q, cache.data[AnyKey(q)].response)]
                      ELSE [q EXCEPT !.at = "ask"])
        /\ UNCHANGED Others

(* query_result(response, Unset): an Answer is made of the response.        *)
Exchange(t) ==
    LET q == query[t]
    IN  /\ q.at = "ask"
        /\ \E ttl \in Ttls, terse \in BOOLEAN :
             LET response == Response(world, Head(q.qnames), q.type, ttl, terse)
             IN  /\ terse => ~response.answer
                 /\ Moves(t, [q EXCEPT !.at = "put", !.response = response,
                                       !.expiration = Expiration(response)])
        /\ UNCHANGED <<Others, cache, newer>>

(* ... no nameserver gave one, or the lifetime is over: resolve raises.    *)
Fails(t) ==
    /\ query[t].at = "ask"
    /\ Moves(t, [NoCall EXCEPT !.at = "returned"])
    /\ UNCHANGED <<Others, cache, newer>>

(* The Answer is put into the cache, an NXDOMAIN under the type ANY.       *)
PutAnswer(t) ==
    LET q == query[t]
        key == IF q.response.nx THEN AnyKey(q) ELSE Key(q)
    IN  /\ q.at = "put"
        /\ IF cache.kind = Unset THEN UNCHANGED <<cache, newer>>
           ELSE Uses(Put(cache, key, [response |-> q.response, expiration |-> q.expiration], now), key)
        /\ Moves(t, IF q.response.nx
                      THEN [q EXCEPT !.at = "next", !.qnames = Tail(@), !.nx = Noted(q, q.response)]
                      ELSE Told(q, q.response))
        /\ UNCHANGED Others

(* One turn of zone_for_name: an apex answers for itself; otherwise the    *)
(* SOA of the response tells, if its owner is above the name; else the     *)
(* next turn asks for the parent.                                          *)
Climb(t) ==
    LET q == query[t]
        response == CHOOSE r \in q.responses : TRUE
    IN  /\ q.at = "climb"
        /\ Moves(t, IF q.how = "answer" /\ response.owner = q.name THEN [q EXCEPT !.at = "returned"]
                    ELSE IF q.how # "answer" /\ response.soa \in Above(q.name) \ {q.name}
                      THEN [q EXCEPT !.at = "returned", !.name = response.soa]
                    ELSE IF q.name = <<>> THEN [q EXCEPT !.at = "returned", !.how = "NoRootSOA"]
                    ELSE [q EXCEPT !.at = "next", !.name = Parent(q.name),
                                   !.qnames = <<Parent(q.name)>>, !.nx = {}])
        /\ UNCHANGED <<Others, cache, newer>>

-----------------------------------------------------------------------------
(* Others use the cache's methods, time passes and the world changes.      *)

Flush ==
    /\ cache.kind # Unset /\ flushed < MaxFlushes
    /\ \/ \E key \in DOMAIN cache.data : cache' = Flushed(cache, key)
       \/ cache' = FlushedAll(cache, now)
       \/ \E size \in Sizes : cache.kind = "LRUCache" /\ cache' = Resized(cache, size)
    /\ newer' = [k \in DOMAIN cache'.data |-> newer[k] \cap DOMAIN cache'.data]
    /\ flushed' = flushed + 1
    /\ UNCHANGED <<config, now, world, ended, asked, query>>

Tick ==
    /\ now < MaxClock
    /\ now' = now + 1
    /\ UNCHANGED <<config, cache, world, ended, query, newer, asked, flushed>>

WorldChanges ==
    /\ world < Len(Worlds)
    /\ world' = world + 1 /\ ended' = Append(ended, now)
    /\ UNCHANGED <<config, cache, now, query, newer, asked, flushed>>

StubNext ==
    \/ \E t \in Threads :
         \/ \E request \in Requests : Call(t, request)
         \/ OutOfNames(t) \/ AskCache(t) \/ AskCacheForAny(t) \/ Exchange(t) \/ Fails(t)
         \/ PutAnswer(t) \/ Climb(t)
    \/ Flush \/ Tick \/ WorldChanges

StubSpec == StubInit /\ [][StubNext]_stubVars

-----------------------------------------------------------------------------

(* A ring of the keys, the same along next and along prev, that has them   *)
(* from the last used one to the first: those used after a key are those   *)
(* before it in the ring.                                                  *)
Ringed(next, prev, keys, after) ==
    LET ring == keys \cup {Sentinel}
        Before(k) == IF k = Sentinel THEN keys ELSE after[k] \cap keys
        Through(k) == IF k = Sentinel THEN {} ELSE (after[k] \cap keys) \cup {k}
    IN  /\ next \in [ring -> ring] /\ prev \in [ring -> ring]
        /\ \A k \in ring : prev[next[k]] = k /\ next[prev[k]] = k /\ Before(next[k]) = Through(k)

(* The dictionary of an LRUCache and its ring have the same keys, the ring *)
(* is the same forwards and backwards, and in the order of last use:       *)
(* whichever threads use it, and with expiry, eviction and flushes between *)
(* (dns/resolver.py:440-569).                                              *)
RingInOrder ==
    cache.kind = "LRUCache" => Ringed(cache.next, cache.prev, DOMAIN cache.data, newer)

Fresh(r) ==
    \/ r.world = world \/ now - ended[r.world] <= r.ttl
    \/ ~r.answer /\ ~r.alias /\ r.soa = Unset

(* What a call takes from the cache is what the nameservers said of a      *)
(* world that was there no longer ago than its TTL, though threads are     *)
(* slow to put what they got.  Only a negative response without a SOA,     *)
(* which has no TTL, may be older.                                         *)
AnswersFresh ==
    [][\A t \in Threads :
          LET q == query[t]
          IN  /\ q.at = "next" /\ q.qnames # <<>> /\ query'[t].at \in {"returned", "climb"}
                    => Fresh(cache.data[Key(q)].response)
              /\ q.at = "any" /\ query'[t].at = "next"
                    => Fresh(cache.data[AnyKey(q)].response)]_stubVars

=============================================================================
