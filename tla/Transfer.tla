------------------------------ MODULE Transfer ------------------------------
(***************************************************************************)
(* Zone transfers into a versioned zone: dns/xfr.py (the state machine of  *)
(* an AXFR or IXFR), driven by inbound_xfr of dns/query.py and             *)
(* asyncquery.py.  The server is external: it has a history of versions,   *)
(* may have a new one at any time, and chooses how to answer; the answer   *)
(* may lack a difference, and the connection may fail at any time.         *)
(*                                                                         *)
(* A stream is the sequence of records of the answer sections; where one   *)
(* message ends and the next begins makes no difference.                   *)
(***************************************************************************)
EXTENDS Versioned

CONSTANTS
    Secondaries,        \* the threads that transfer
    History,            \* the server's versions: sets of records
    UdpModes,           \* subset of {"never", "first", "only"}
    MaxTransfers        \* bound on the transfers made

VARIABLES
    server,         \* the server's current version
    xfer,           \* the state of each transfer
    transfers       \* transfers begun

transferVars == <<server, xfer, transfers>>

SoaTtl == 9
Soa(serial) == [name |-> Apex, type |-> "SOA", ttl |-> SoaTtl, rd |-> serial]
IsSoa(rr) == rr.type = "SOA" /\ rr.name = Apex
SerialOf(rrs) == (CHOOSE rr \in rrs : IsSoa(rr)).rd

(* The zone that a set of records makes.                                   *)
ZoneOf(rrs) ==
    [name \in {rr.name : rr \in rrs} |->
        [type \in {rr.type : rr \in {x \in rrs : x.name = name}} |->
            LET same == {rr \in rrs : rr.name = name /\ rr.type = type}
            IN  [ttl |-> (CHOOSE rr \in same : TRUE).ttl, rdatas |-> {rr.rd : rr \in same}]]]

(* A zone: one SOA, of the apex; one TTL for the records of a name and     *)
(* type, one record of a singleton type, and no CNAME beside other data.   *)
IsZone(rrs) ==
    /\ IsFiniteSet(rrs)
    /\ \E rr \in rrs : rr.rd \in Nat /\ rr = Soa(rr.rd)
    /\ \A rr \in rrs : /\ rr = [name |-> rr.name, type |-> rr.type, ttl |-> rr.ttl, rd |-> rr.rd]
                       /\ rr.type = "SOA" => rr.name = Apex
    /\ \A rr, other \in rrs : rr.name = other.name =>
          /\ Compatible(rr.type, other.type)
          /\ rr.type = other.type => rr.ttl = other.ttl /\ (rr.type \in Singletons => rr = other)

(* A serial number stands for one version of the server's.                 *)
ASSUME HistoryAssumption ==
    /\ None \notin Nat
    /\ History \in Seq(Range(History)) /\ History # <<>>
    /\ \A k \in DOMAIN History : IsZone(History[k])
    /\ \A j, k \in DOMAIN History : SerialOf(History[j]) = SerialOf(History[k]) => j = k

Idle == [phase |-> "idle", mode |-> "never", udp |-> FALSE, rdtype |-> "AXFR", serial |-> 0, stream |-> <<>>,
         soa |-> None, expecting |-> FALSE, deleting |-> FALSE, version |-> 0, based |-> FALSE]

TransferInit ==
    /\ server = 1
    /\ xfer = [t \in Secondaries |-> Idle]
    /\ transfers = 0

-----------------------------------------------------------------------------
(* The server.                                                             *)

Records(k) == {rr \in History[k] : ~IsSoa(rr)}
Top(k) == Soa(SerialOf(History[k]))

AxfrStream(k) == <<Top(k)>> \o SetToSeq(Records(k)) \o <<Top(k)>>

Changes(j) ==
    <<Top(j)>> \o SetToSeq(Records(j) \ Records(j + 1))
        \o <<Top(j + 1)>> \o SetToSeq(Records(j + 1) \ Records(j))

Differences(j, k) == [i \in 1 .. k - j |-> Changes(j + i - 1)]

IxfrStream(j, k) == <<Top(k)>> \o FlattenSeq(Differences(j, k)) \o <<Top(k)>>

(* The versions before the newest with the serial asked for.               *)
Known(x) == {j \in 1 .. server - 1 : x.rdtype = "IXFR" /\ SerialOf(History[j]) = x.serial}

Answers(x) ==
    (IF x.rdtype = "IXFR" /\ (x.udp \/ ~SerialLess(x.serial, SerialOf(History[server])))
        THEN {<<Top(server)>>} ELSE {})
    \cup {AxfrStream(server)} \cup {IxfrStream(j, server) : j \in Known(x)}

(* A broken answer leaves out one difference.                              *)
Broken(x) ==
    {<<Top(server)>> \o FlattenSeq(RemoveAt(Differences(p[1], server), p[2])) \o <<Top(server)>> :
        p \in {q \in Known(x) \X DOMAIN History : q[1] + q[2] <= server}}

ServerAdvances ==
    /\ server < Len(History)
    /\ server' = server + 1
    /\ UNCHANGED <<zoneVars, xfer, transfers>>

-----------------------------------------------------------------------------

Becomes(t, x) == xfer' = [xfer EXCEPT ![t] = x]

(* make_query: an IXFR from the serial of the newest version, if it has    *)
(* one; inbound_xfr then uses UDP if it may.                               *)
Begin(t) ==
    LET apex == IF Apex \in DOMAIN Newest.nodes THEN heap[Newest.nodes[Apex]] ELSE EmptyNode
        soa == "SOA" \in DOMAIN apex
    IN  /\ xfer[t].phase = "idle" /\ at[t] = "out" /\ transfers < MaxTransfers /\ Newest.id < MaxId
        /\ transfers' = transfers + 1
        /\ \E mode \in UdpModes :
             Becomes(t, [Idle EXCEPT !.phase = "sent", !.mode = mode, !.udp = soa /\ mode # "never",
                                     !.rdtype = IF soa THEN "IXFR" ELSE "AXFR",
                                     !.serial = IF soa THEN CHOOSE s \in apex["SOA"].rdatas : TRUE ELSE 0])
        /\ UNCHANGED <<zoneVars, server>>

(* The first message has come: process_message asks for a transaction.     *)
FirstMessage(t) ==
    /\ xfer[t].phase = "sent"
    /\ \E stream \in Answers(xfer[t]) \cup Broken(xfer[t]) :
         Becomes(t, [xfer[t] EXCEPT !.phase = "read", !.stream = stream, !.version = server])
    /\ Goes(t, "ask")
    /\ UNCHANGED <<heap, versions, writer, writeEvent, waiters, waited, reading, policy,
                   server, transfers>>

Replacement(t) == xfer[t].rdtype = "AXFR"

TransferAsks(t) == AskWriter(t, Replacement(t)) /\ UNCHANGED transferVars

(* The transaction starts from the version whose serial was asked for.     *)
TransferSetsUp(t) ==
    /\ SetUpVersion(t)
    /\ Becomes(t, [xfer[t] EXCEPT !.based = Replacement(t) \/
           \E k \in DOMAIN History :
               /\ SerialOf(History[k]) = xfer[t].serial
               /\ Content(heap, Newest.nodes) = ZoneOf(History[k])])
    /\ UNCHANGED <<server, transfers>>

(* An exception, or a timeout: __exit__ rolls back what is still open.     *)
Fail(t) == End(t, FALSE, Working) /\ Becomes(t, Idle)

Read(t) ==
    /\ xfer[t].phase = "read" /\ at[t] = "in"
    /\ UNCHANGED <<server, transfers>>

(* process_message, the first record.                                      *)
FirstRecord(t) ==
    LET x == xfer[t]
        rr == Head(x.stream)
    IN  /\ Read(t) /\ x.soa = None /\ x.stream # <<>>
        /\ IF ~IsSoa(rr) THEN Fail(t)
           ELSE IF x.rdtype = "IXFR" /\ (rr.rd = x.serial \/ SerialLess(rr.rd, x.serial)) THEN Fail(t)
           ELSE IF x.udp /\ Len(x.stream) = 1
                THEN /\ End(t, FALSE, Working)
                     /\ Becomes(t, IF x.mode = "only" THEN Idle
                                   ELSE [Idle EXCEPT !.phase = "sent", !.rdtype = x.rdtype,
                                                     !.serial = x.serial])
           ELSE /\ Becomes(t, [x EXCEPT !.soa = rr.rd, !.stream = Tail(@),
                                        !.expecting = x.rdtype = "IXFR"])
                /\ UNCHANGED zoneVars

EndsUncheckedMutant(t) ==
    LET x == xfer[t]
        rr == Head(x.stream)
        deleting == (x.rdtype = "IXFR") # x.deleting
        set == [ttl |-> rr.ttl, rdatas |-> {rr.rd}]
        final == rr.rd = x.soa /\ (x.rdtype = "AXFR" \/ deleting)
        wrong == ~final /\ (x.rdtype = "AXFR" \/ (deleting /\ rr.rd # x.serial))
        next == [x EXCEPT !.stream = Tail(@), !.expecting = FALSE, !.deleting = deleting]
    IN  /\ Read(t) /\ x.soa # None /\ x.stream # <<>> /\ IsSoa(rr)
        /\ IF wrong THEN Fail(t)
           ELSE IF final
                THEN End(t, TRUE, Replace(Working, rr.name, "SOA", set, FALSE)) /\ Becomes(t, Idle)
           ELSE IF deleting THEN Becomes(t, next) /\ UNCHANGED zoneVars
           ELSE /\ Work(t, Replace(Working, rr.name, "SOA", set, FALSE))
                /\ Becomes(t, [next EXCEPT !.serial = rr.rd])

(* ... the SOA of the origin after it,                                     *)
SoaRecord(t) ==
    LET x == xfer[t]
        rr == Head(x.stream)
        deleting == (x.rdtype = "IXFR") # x.deleting
        set == [ttl |-> rr.ttl, rdatas |-> {rr.rd}]
        final == rr.rd = x.soa /\ (x.rdtype = "AXFR" \/ deleting)
        wrong == IF final THEN x.expecting \/ (x.rdtype = "IXFR" /\ x.serial # rr.rd)
                 ELSE x.rdtype = "AXFR" \/ (deleting /\ rr.rd # x.serial)
        next == [x EXCEPT !.stream = Tail(@), !.expecting = FALSE, !.deleting = deleting]
    IN  /\ Read(t) /\ x.soa # None /\ x.stream # <<>> /\ IsSoa(rr)
        /\ IF wrong THEN Fail(t)
           ELSE IF final
                THEN End(t, TRUE, Replace(Working, rr.name, "SOA", set, FALSE)) /\ Becomes(t, Idle)
           ELSE IF deleting THEN Becomes(t, next) /\ UNCHANGED zoneVars
           ELSE /\ Work(t, Replace(Working, rr.name, "SOA", set, FALSE))
                /\ Becomes(t, [next EXCEPT !.serial = rr.rd])

(* ... and any other.  It shows that the answer to an IXFR is a whole zone *)
(* where the second SOA was expected.                                      *)
OtherRecord(t) ==
    LET x == xfer[t]
        rr == Head(x.stream)
        set == [ttl |-> rr.ttl, rdatas |-> {rr.rd}]
        done == IF x.deleting THEN Delete(Working, rr.name, rr.type, set, TRUE)
                              ELSE Add(Working, rr.name, rr.type, set, FALSE)
    IN  /\ Read(t) /\ x.soa # None /\ x.stream # <<>> /\ ~IsSoa(rr)
        /\ IF x.expecting
           THEN /\ End(t, FALSE, Working)
                /\ Becomes(t, [x EXCEPT !.rdtype = "AXFR", !.expecting = FALSE, !.deleting = FALSE,
                                        !.phase = "again"])
           ELSE IF done.ok THEN Work(t, done) /\ Becomes(t, [x EXCEPT !.stream = Tail(@)])
           ELSE Fail(t)

(* It then writes with a new transaction, which replaces the zone.         *)
AskAgain(t) ==
    /\ xfer[t].phase = "again" /\ at[t] = "out"
    /\ Becomes(t, [xfer[t] EXCEPT !.phase = "read"])
    /\ Goes(t, "ask")
    /\ UNCHANGED <<heap, versions, writer, writeEvent, waiters, waited, reading, policy,
                   server, transfers>>

(* No more comes: the connection is closed, or a timeout.                  *)
StreamEnds(t) == Read(t) /\ Fail(t)

(* The connection fails before there is an answer.                         *)
Unanswered(t) ==
    /\ xfer[t].phase = "sent"
    /\ Becomes(t, Idle)
    /\ UNCHANGED <<zoneVars, server, transfers>>

TransferActs(t) ==
    \/ Begin(t) \/ TransferAsks(t) \/ TransferSetsUp(t) \/ FirstMessage(t) \/ Unanswered(t)
    \/ FirstRecord(t) \/ SoaRecord(t) \/ OtherRecord(t) \/ AskAgain(t) \/ StreamEnds(t)

-----------------------------------------------------------------------------

(* A transfer adds the version it was sent or none, whatever difference    *)
(* the server left out and wherever the answer ended, when the zone it     *)
(* started from had the content its serial stands for.                     *)
TransferExact ==
    [][\A t \in Secondaries :
          versions' # versions /\ writer.thread = t /\ writer'.thread = None /\ xfer[t].based
          => Content(heap', Last(versions').nodes) = ZoneOf(History[xfer[t].version])]_<<zoneVars, transferVars>>

=============================================================================
