------------------------------- MODULE UdpRelay -------------------------------
(***************************************************************************)
(* UDP ASSOCIATE of lib/socks5_server.py: AsyncSocks5Handler.handle_udp    *)
(* and its UdpForwarder.  The relay has one socket for its clients and one *)
(* per family for the targets; it lives as long as the TCP connection that *)
(* asked for it.  Every datagram becomes a task of the event loop; a task  *)
(* runs without a pause but for the resolution of a domain.                *)
(***************************************************************************)
EXTENDS Naturals, ProxyServer

CONSTANTS
    Client,         \* addresses datagrams for the relay come from: any may send
    Target,         \* addresses of targets
    FamilyOf,       \* FamilyOf[a]: "v4" or "v6"
    Domain,         \* names that resolve to targets, or to none
    MaxDatagrams,   \* datagrams the clients send
    MaxAnswers      \* datagrams that arrive from targets

ASSUME RelayAssumption ==
    /\ FamilyOf \in [Target -> {"v4", "v6"}]
    /\ Target \cap Domain = {} /\ "malformed" \notin Target \cup Domain
    /\ MaxDatagrams \in Nat /\ MaxAnswers \in Nat

VARIABLES
    handler,        \* where handle_udp is
    control,        \* the TCP connection: open or ended by the client
    made,           \* client_conn, server_conn_ipv4 and server_conn_ipv6, once made
    connections,    \* UdpForwarder.connections
    tasks,          \* the datagrams whose tasks are not finished
    asked,          \* datagrams received from clients
    answered,       \* datagrams received from targets
    sent,           \* what was sent to targets
    delivered       \* what was sent to clients

udpvars == <<hosts, handler, control, made, connections, tasks, asked, answered, sent, delivered>>

Nobody == "nobody"
Route == {r \in Fam \X Target : r[1] = FamilyOf[r[2]]}

RelayInit ==
    /\ hosts \in SUBSET Fam
    /\ handler = "start"
    /\ control = "open"
    /\ made = {}
    /\ connections = [r \in Route |-> Nobody]
    /\ tasks = {}
    /\ asked = 0 /\ answered = 0
    /\ sent = {} /\ delivered = {}

-----------------------------------------------------------------------------

datagrams == <<connections, tasks, asked, answered, sent, delivered>>

(* Mutant of Open: close() forgets the sockets for the targets.            *)
ClosesOneMutant == IF handler = "done" THEN made \ {"client"} ELSE made

(* The sockets that still send; close() stops them at the end of the turn  *)
(* of the event loop, and reading at once.                                 *)
Open == IF handler = "done" THEN {} ELSE made
Reading == IF handler \in {"closing", "done"} THEN {} ELSE made

(* start(): the socket for the clients, then those for the targets, IPv4   *)
(* first.                                                                  *)
Missing == ({"client"} \cup Usable) \ made
Endpoint ==
    IF "client" \in Missing THEN "client" ELSE IF "v4" \in Missing THEN "v4" ELSE "v6"

EndpointMade ==
    /\ handler = "start"
    /\ made' = made \cup {Endpoint}
    /\ handler' = IF Missing = {Endpoint} THEN "relay" ELSE "start"
    /\ UNCHANGED <<hosts, control, datagrams>>

(* handle_udp answers ERROR and raises; the sockets already made stay.     *)
EndpointFails ==
    /\ handler = "start"
    /\ handler' = "failed"
    /\ UNCHANGED <<hosts, control, made, datagrams>>

(* The read on the TCP connection ends: close().                           *)
ControlEnds ==
    /\ handler = "relay" /\ control = "ended"
    /\ handler' = "closing"
    /\ UNCHANGED <<hosts, control, made, datagrams>>

Closed ==
    /\ handler = "closing"
    /\ handler' = "done"
    /\ UNCHANGED <<hosts, control, made, datagrams>>

-----------------------------------------------------------------------------

(* datagram_received, on the clients' socket.                              *)
FromClient(c, dest) ==
    /\ "client" \in Reading /\ asked < MaxDatagrams
    /\ asked' = asked + 1
    /\ tasks' = tasks \cup {[id |-> asked, from |-> c, dest |-> dest, at |-> "client"]}
    /\ UNCHANGED <<hosts, handler, control, made, connections, answered, sent, delivered>>

(* datagram_received, on a socket for targets, from anyone.                *)
FromTarget(r) ==
    /\ r[1] \in Reading /\ answered < MaxAnswers
    /\ answered' = answered + 1
    /\ tasks' = tasks \cup {[id |-> answered, from |-> r[2], dest |-> r[1], at |-> "target"]}
    /\ UNCHANGED <<hosts, handler, control, made, connections, asked, sent, delivered>>

End(t) == tasks' = tasks \ {t}

(* The map is written and the datagram handed to the transport in one go;  *)
(* a transport that is closed swallows it.  IPv6 is preferred.             *)
Send(t, r) ==
    /\ connections' = [connections EXCEPT ![r] = t.from]
    /\ sent' = IF r[1] \in Open
               THEN sent \cup {[id |-> t.id, client |-> t.from, route |-> r]} ELSE sent

Forward(t, resolved) ==
    LET usable == {r \in Route : r[2] \in resolved /\ r[1] \in made}
    IN  \/ usable = {} /\ UNCHANGED <<connections, sent>>
        \/ \E r \in usable : (r[1] = "v4" => \A q \in usable : q[1] = "v4") /\ Send(t, r)

(* on_client_datagram: a fragment, an unknown address type or a short      *)
(* header ends it; an address needs no await, a domain does.               *)
Malformed(t) ==
    /\ t \in tasks /\ t.at = "client" /\ t.dest = "malformed"
    /\ End(t)
    /\ UNCHANGED <<hosts, handler, control, made, connections, asked, answered, sent, delivered>>

ToAddress(t) ==
    /\ t \in tasks /\ t.at = "client" /\ t.dest \in Target
    /\ Forward(t, {a \in {t.dest} : FamilyOf[a] \in Usable})
    /\ End(t)
    /\ UNCHANGED <<hosts, handler, control, made, asked, answered, delivered>>

ToDomain(t) ==
    /\ t \in tasks /\ t.at = "client" /\ t.dest \in Domain
    /\ tasks' = (tasks \ {t}) \cup {[t EXCEPT !.at = "resolving"]}
    /\ UNCHANGED <<hosts, handler, control, made, connections, asked, answered, sent, delivered>>

(* resolve_address returns at most one address of each usable family.      *)
Resolved(t, resolved) ==
    /\ t \in tasks /\ t.at = "resolving"
    /\ \A a \in resolved : FamilyOf[a] \in Usable
    /\ \A a, b \in resolved : FamilyOf[a] = FamilyOf[b] => a = b
    /\ Forward(t, resolved)
    /\ End(t)
    /\ UNCHANGED <<hosts, handler, control, made, asked, answered, delivered>>

(* Mutant of ToClient: the map has one client for each socket.             *)
KeyedBySocketMutant(t) ==
    LET asker == {connections[r] : r \in {q \in Route : q[1] = t.dest}} \ {Nobody}
    IN  /\ t \in tasks /\ t.at = "target"
        /\ \/ asker = {} /\ UNCHANGED delivered
           \/ \E c \in asker :
                 delivered' = delivered \cup {[id |-> t.id, client |-> c, route |-> <<t.dest, t.from>>]}
        /\ End(t)
        /\ UNCHANGED <<hosts, handler, control, made, connections, asked, answered, sent>>

(* on_server_datagram: the map is looked up when the task runs.            *)
ToClient(t) ==
    LET r == <<t.dest, t.from>>
    IN  /\ t \in tasks /\ t.at = "target"
        /\ delivered' = IF connections[r] # Nobody /\ "client" \in Open
                        THEN delivered \cup {[id |-> t.id, client |-> connections[r], route |-> r]}
                        ELSE delivered
        /\ End(t)
        /\ UNCHANGED <<hosts, handler, control, made, connections, asked, answered, sent>>

(* The client ends its TCP connection, or loses it.                        *)
ClientLeaves ==
    /\ control = "open"
    /\ control' = "ended"
    /\ UNCHANGED <<hosts, handler, made, datagrams>>

-----------------------------------------------------------------------------

TaskRuns ==
    \E t \in tasks :
        \/ Malformed(t) \/ ToAddress(t) \/ ToDomain(t) \/ ToClient(t)
        \/ \E resolved \in SUBSET Target : Resolved(t, resolved)

HandlerRuns == EndpointMade \/ EndpointFails \/ ControlEnds \/ Closed

RelayNext ==
    \/ HandlerRuns \/ TaskRuns \/ ClientLeaves
    \/ \E c \in Client, dest \in Target \cup Domain \cup {"malformed"} : FromClient(c, dest)
    \/ \E r \in Route : FromTarget(r)

RelaySpec == RelayInit /\ [][RelayNext]_udpvars

-----------------------------------------------------------------------------

(* The types, and the sockets a relay may have.                            *)
RelayTypeOK ==
    /\ hosts \subseteq Fam /\ control \in {"open", "ended"}
    /\ handler \in {"start", "relay", "closing", "done", "failed"}
    /\ made \subseteq {"client"} \cup Usable
    /\ handler \in {"relay", "closing", "done"} => made = {"client"} \cup Usable
    /\ connections \in [Route -> Client \cup {Nobody}]
    /\ asked \in 0 .. MaxDatagrams /\ answered \in 0 .. MaxAnswers
    /\ \A d \in sent \cup delivered : d.client \in Client /\ d.route \in Route

(* Nobody gets a datagram of a target it has not sent one to, through the  *)
(* same socket: whatever the order of tasks, resolutions and answers.      *)
NoStrangers ==
    \A d \in delivered : \E s \in sent : s.client = d.client /\ s.route = d.route

(* Once the relay is done nothing leaves it in either direction, though    *)
(* tasks wait for a resolution that comes later.                           *)
SilentWhenDone == [][handler = "done" => UNCHANGED <<sent, delivered>>]_udpvars

=============================================================================
