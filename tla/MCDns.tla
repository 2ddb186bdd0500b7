-------------------------------- MODULE MCDns --------------------------------
(***************************************************************************)
(* Parts of dnspython side by side: a behaviour is one of a zone, of a     *)
(* stub resolver, of a message being written, or a text that is given to   *)
(* be written and read, as part says; the others' variables stay as they   *)
(* began.                                                                  *)
(*                                                                         *)
(* Zone: two names below the apex; three versions of the zone at the       *)
(* server, whose serial wraps around, a name that becomes a CNAME and      *)
(* stops to be one, and a set whose TTL changes.                           *)
(***************************************************************************)
EXTENDS Zone, Stub, Wire, Tokenizer, ZoneFile, Dnssec

CONSTANTS t1, u1, u2, r1

RR(name, type, rd) == [name |-> name, type |-> type, ttl |-> 5, rd |-> rd]

MCHistory ==
    << {Soa(7), RR("a", "A", 1), RR("b", "A", 1)},
       {Soa(1), RR("a", "CNAME", 1), RR("b", "A", 1), RR("b", "A", 2)},
       {Soa(2), RR("a", "A", 1), [RR("b", "A", 2) EXCEPT !.ttl = 3]} >>

Op(op, name, type, rd) ==
    [op |-> op, name |-> name, type |-> type, set |-> [ttl |-> 4, rdatas |-> {rd}], exact |-> FALSE]

MCOperations ==
    { Op("add", "a", "CNAME", 2), Op("load", "a", "A", 2),
      [Op("delete", "b", "A", 1) EXCEPT !.exact = TRUE],
      [op |-> "deleteType", name |-> "a", type |-> "A", exact |-> TRUE],
      [op |-> "deleteName", name |-> "b", exact |-> FALSE],
      [op |-> "serial", value |-> 1, relative |-> TRUE] }

MCPolicies == {1, 2}

-----------------------------------------------------------------------------
(* The stub resolver: two worlds, a name that is an alias in the first and *)
(* none in the second, and a zone that goes away.                          *)

World1 == [apexes |-> {<<>>, <<"z">>, <<"a", "z">>}, hosts |-> {<<"h", "z">>},
           alias |-> <<"x", "a", "z">> :> <<"h", "z">>]
World2 == [World1 EXCEPT !.apexes = {<<>>, <<"z">>}, !.hosts = {<<"h">>}, !.alias = [n \in {} |-> <<>>]]
MCWorlds == <<World1, World2>>
MCRequests ==
    {[labels |-> <<"h">>, absolute |-> FALSE, search |-> TRUE, climbs |-> FALSE],
     [labels |-> <<"h", "z">>, absolute |-> TRUE, search |-> TRUE, climbs |-> TRUE]}
MCResolvers ==
    {[search |-> <<<<"z">>>>, domain |-> Unset, ndots |-> Unset, cache |-> [kind |-> "LRUCache", size |-> 2]],
     [search |-> <<>>, domain |-> <<"z">>, ndots |-> Unset, cache |-> [kind |-> "Cache", size |-> 0]]}

(* The threads are alike: the first to ask is the same one always.  Only   *)
(* those that share an LRU cache look for zones.                           *)
FewAsk ==
    /\ asked = 0 /\ asked' = 1 => query'[CHOOSE t \in Threads : TRUE].at # "idle"
    /\ config.cache.kind = "Cache" =>
         \A t \in Threads : query'[t].at # "idle" => ~query'[t].climbs

FirstStub == StubInit /\ config = CHOOSE c \in MCResolvers : TRUE

-----------------------------------------------------------------------------
(* A message: names that share ends, some with capitals, of RRsets in      *)
(* three sections.                                                         *)

MCFold(label) == IF label = "A" THEN "a" ELSE label
MCZoneName == <<"z", "">>
MCQuestions == {<<"a", "z", "">>, <<>>}
MCRRsets ==
    { [section |-> 1, name |-> <<"A", "z", "">>, type |-> "A", rdatas |-> <<1, 2>>],
      [section |-> 1, name |-> <<"b", "a">>, type |-> "NS", rdatas |-> <<<<"b", "b", "a">>>>],
      [section |-> 2, name |-> <<"a">>, type |-> "NS", rdatas |-> <<<<"c", "">>, <<"b", "c", "">>>>],
      [section |-> 3, name |-> <<"b", "c", "">>, type |-> "A", rdatas |-> <<3>>] }
MCProfiles ==
    [edns : BOOLEAN, options : {1}, pad : {0, 5}, key : {<<>>, <<"k", "c", "">>}]

FirstWire == WireInit /\ profile = CHOOSE p \in MCProfiles : TRUE

-----------------------------------------------------------------------------
(* Names whose labels have capitals, escapes, dots and other scripts, and  *)
(* are as long as may be; strings of what a tokenizer stops at.            *)

TextLabels ==
    { <<97>>, <<65>>, <<64>>, <<46>>, <<36, 49>>, <<200>>, <<92, 48>>, <<97, 32>>, <<97, 97>>,
      Ace \o Puny(<<228>>) }

TextNames ==
    { labels \in {<<>>, RootName} \cup {<<a>> : a \in TextLabels} \cup {<<a, <<>>>> : a \in TextLabels}
                 \cup {<<a, b>> : a, b \in TextLabels} \cup {<<a, b, <<>>>> : a, b \in TextLabels} :
        MakeName(labels).err = "none" }

Strings == TextLabels \cup {<<34>>, <<40, 59>>, <<10>>, <<9, 41>>}

Few == {<<97>>, <<65>>, <<66>>, <<97, 97>>}
MCOtherNames == {<<>>, RootName} \cup {<<a>> : a \in Few} \cup {<<a, b, <<>>>> : a, b \in Few}

(* Zones with every type, a child that may hold data, a CNAME that leads   *)
(* there and TTLs that are and are not the default.                        *)
TextApex == <<<<111>>, <<>>>>
Child == <<<<115>>>> \o TextApex
Below(label) == <<label>> \o TextApex
SetOf(ttl, rdatas) == [ttl |-> ttl, rdatas |-> rdatas]

TextZones ==
    LET apex == ("SOA" :> SetOf(5, {[mname |-> Below(<<110>>), minimum |-> 7]}))
                @@ ("NS" :> SetOf(6, {Below(<<110>>), Below(<<115>>)}))
        nodes == {("A" :> SetOf(ttl, {<<49>>, <<50>>})) : ttl \in {5, 6}}
                 \cup {("CNAME" :> SetOf(7, {Child})), ("NS" :> SetOf(6, {TextApex}))}
    IN  { (TextApex :> apex) @@ [name \in names |-> node] :
            names \in SUBSET {Below(<<97>>), Child, <<<<97>>>> \o Child}, node \in nodes }

(* "$GENERATE 9-11/2 a${1,2}.s A 4${-3,3,n}"                               *)
Short ==
    [lhs |-> [text |-> <<97, 36, 46, 115>>, offset |-> 1, base |-> "d", width |-> 2],
     rhs |-> [text |-> <<52, 36>>, offset |-> 0 - 3, base |-> "n", width |-> 3],
     start |-> 9, stop |-> 11, step |-> 2, ttl |-> {}, type |-> "A"]
OneLong(name, data) ==
    <<Word("name", <<name, <<115>>>>), Word("number", 7), Word("type", "A"), Word("data", data)>>
Long == <<OneLong(<<97, 49, 48>>, <<52, 54, 46, 48>>), OneLong(<<97, 49, 50>>, <<52, 56, 46, 48>>)>>

(* Keys of every kind, some of whose numbers are shorter than their field, *)
(* of a length that takes three bytes to say, and keys that share a tag    *)
(* because two words of theirs are swapped.                                *)
Bytes(length, first) == [i \in 1..length |-> 1 + ((first + 7 * i) % 255)]
Swapped(dnskey) ==
    LET k == Len(dnskey.key) - 3 - (IF Len(dnskey.key) % 2 = 0 THEN 0 ELSE 1)
    IN  [dnskey EXCEPT !.key = [i \in DOMAIN @ |->
            IF i \in {k, k + 1} THEN @[i + 2] ELSE IF i \in {k + 2, k + 3} THEN @[i - 2] ELSE @[i]]]

Publics ==
    { [kind |-> "rsa", e |-> <<1, 0, 1>>, n |-> Bytes(64, 140), algorithm |-> 8],
      [kind |-> "rsa", e |-> Bytes(256, 3), n |-> Bytes(65, 130), algorithm |-> 10],
      [kind |-> "rsa", e |-> <<3>>, n |-> Bytes(64, 150), algorithm |-> 1],
      [kind |-> "dsa", p |-> Bytes(64, 160), q |-> Bytes(19, 1), g |-> Bytes(63, 2), y |-> Bytes(64, 4),
       r |-> Bytes(20, 5), s |-> Bytes(19, 6), algorithm |-> 3],
      [kind |-> "ec", curve |-> "P256", x |-> Bytes(31, 7), y |-> Bytes(32, 8), r |-> Bytes(30, 9),
       s |-> Bytes(32, 11), algorithm |-> 13],
      [kind |-> "ec", curve |-> "P384", x |-> Bytes(48, 7), y |-> Bytes(47, 8), r |-> Bytes(48, 9),
       s |-> Bytes(48, 11), algorithm |-> 14],
      [kind |-> "ed25519", raw |-> Bytes(32, 12), algorithm |-> 15] }
AllowAll == [denial \in DOMAIN Rfc8624 |-> {}]

SignedSets ==
    { [name |-> name, type |-> "NS", ttl |-> 5, rdatas |-> <<Below(<<98>>), Below(<<65>>), Below(<<97, 97>>)>>] :
        name \in {TextApex, Below(<<97>>), Below(Star)} }

(* Units in any order and of either case; a number of each.                *)
SomeUnits == {<<>>, <<119>>, <<115>>, <<68, 104>>, <<115, 77>>, <<104, 115, 83>>}

Texts ==
    [kind : {"ttl"}, value : {<<u, n>> : u \in SomeUnits, n \in {1, 2}}] \cup [kind : {"name"}, value : TextNames] \cup [kind : {"strings"}, value : {<<a, b>> : a, b \in Strings}]
    \cup [kind : {"signed"}, value : SignedSets \X Publics \X {AllowAll, Rfc8624}]
    \cup [kind : {"keys"}, value : Publics \X (SUBSET {1, 2, 4} \ {{}})]
    \cup [kind : {"zone"}, value : TextZones]
NoText == [kind |-> "none", value |-> <<>>]

(* Tokens are the strings, names and times that were written, however they *)
(* were laid out.                                                          *)
TokensAgree ==
    CASE given.kind = "strings" -> LayoutIsFree(given.value)
      [] given.kind = "name" -> NameIsToken(given.value)
      [] given.kind = "ttl" -> LET units == given.value[1]
                               IN  TtlIsSum([i \in DOMAIN units |-> given.value[2]], units, 90061)
      [] OTHER -> TRUE

(* A zone file means the zone it was written from, however abbreviated.    *)
ZoneFilesAgree ==
    given.kind = "zone" =>
        \A ttl \in {5, 6} : FilesAgree(given.value, TextApex, Child, ttl, Short, Long)

KeyOf(public) == MakeDnskey(public, public.algorithm, 257)

(* What a key has signed validates, however it is seen, and nothing else.  *)
SignaturesHold ==
    given.kind = "signed" =>
        \A key \in {KeyOf(given.value[2])} :
            /\ key.err = "none"
            /\ SignatureHolds(given.value[1], given.value[2], key.value, <<Swapped(key.value)>>, TextApex,
                              Below(<<120>>), given.value[3])

(* The delegations to a key fit that key at that name, and so do the       *)
(* hashes of names.                                                        *)
DelegationsHold ==
    given.kind = "keys" =>
        \A key \in {KeyOf(given.value[1]).value} :
            /\ DelegationHolds(Below(<<97>>), Below(<<65>>), TextApex, key,
                               MakeCdnskey(given.value[1], given.value[1].algorithm, 257).value, {Swapped(key)}, given.value[2])
            /\ HashesTell({Below(<<97>>), Below(<<65>>), Child}, {<<>>, <<0>>, <<0, 1>>}, 2)

-----------------------------------------------------------------------------

VARIABLE part

all == <<vars, stubVars, wireVars, given, part>>

DnsInit ==
    /\ Init
    /\ \/ part = "zone" /\ FirstStub /\ FirstWire /\ given = NoText
       \/ part = "stub" /\ StubInit /\ FirstWire /\ given = NoText
       \/ part = "wire" /\ FirstStub /\ WireInit /\ given = NoText
       \/ part = "text" /\ FirstStub /\ FirstWire /\ given \in Texts

DnsNext ==
    /\ UNCHANGED <<given, part>>
    /\ \/ part = "zone" /\ Next /\ UNCHANGED <<stubVars, wireVars>>
       \/ part = "stub" /\ StubNext /\ FewAsk /\ UNCHANGED <<vars, wireVars>>
       \/ part = "wire" /\ WireNext /\ UNCHANGED <<vars, stubVars>>

DnsSpec == DnsInit /\ [][DnsNext]_all /\ Fairness
=============================================================================
