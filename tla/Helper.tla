------------------------------- MODULE Helper -------------------------------
(***************************************************************************)
(* The Mac's transparent proxy (camofox-mac/proxy_helper.py): it takes the *)
(* connections that pf redirects, at most max_connections at a time, opens *)
(* one to the SOCKS5 proxy on the phone for each, and copies both ways.    *)
(*                                                                         *)
(* A connection has two sockets: "client", from the application, and       *)
(* "proxy", to the phone; direction "out" goes from the first to the       *)
(* second, "in" back.  Data are counted in chunks.  The peers of the two   *)
(* sockets, and what asyncio and the kernel do, are external.              *)
(***************************************************************************)
EXTENDS Integers, FiniteSets

CONSTANTS
    Connections,    \* the connections made to the helper
    MaxConnections, \* max_connections
    Amounts,         \* bound on what the peer sends, for each direction
    HelperMark       \* what a writer buffers before drain() waits

ASSUME HelperAssumption ==
    /\ MaxConnections \in Nat \ {0} /\ Amounts \in [{"out", "in"} -> Nat] /\ HelperMark \in Nat

VARIABLES
    phase,      \* of handle_connection: "none", "queued", "found", "connecting",
                \* "greeting", "asked", "address", "piping", "done"
    pipe,       \* of each direction: "none", "read", "drain", "closed"
    socket,     \* each socket: "none", "open", "closing", "lost"
    given,       \* chunks each peer sent
    read,       \* ... that the pipe from it has read
    buffer,     \* ... in the buffer of the writer they go to
    received,        \* ... that the other peer received
    finished,      \* peers that sent EOF
    broken,     \* sockets that were reset
    activeConnections      \* stats.active_connections

helperVars == <<phase, pipe, socket, given, read, buffer, received, finished, broken, activeConnections>>

flow == <<given, read, buffer, received, finished, broken>>

Directions == {"out", "in"}
Sockets == {"client", "proxy"}
From(d) == IF d = "out" THEN "client" ELSE "proxy"
To(d) == IF d = "out" THEN "proxy" ELSE "client"

HelperInit ==
    /\ phase = [c \in Connections |-> "none"]
    /\ pipe = [c \in Connections |-> [d \in Directions |-> "none"]]
    /\ socket = [c \in Connections |-> [s \in Sockets |-> "none"]]
    /\ given = [c \in Connections |-> [d \in Directions |-> 0]]
    /\ read = given /\ buffer = given /\ received = given
    /\ finished = [c \in Connections |-> {}] /\ broken = finished
    /\ activeConnections = 0

Handled == {c \in Connections : phase[c] \notin {"none", "queued", "done"}}

-----------------------------------------------------------------------------

Enters(c, where) == phase' = [phase EXCEPT ![c] = where]

(* A connection is accepted; then it waits for the semaphore.              *)
Accept(c) ==
    /\ phase[c] = "none"
    /\ Enters(c, "queued")
    /\ socket' = [socket EXCEPT ![c].client = "open"]
    /\ UNCHANGED <<pipe, flow, activeConnections>>

Handle(c) ==
    /\ phase[c] = "queued" /\ Cardinality(Handled) < MaxConnections
    /\ activeConnections' = activeConnections + 1
    /\ Enters(c, "found")
    /\ UNCHANGED <<pipe, socket, flow>>

(* writer.close(): what is buffered is still sent, nothing more is read.   *)
Closed(sockets, c, s) ==
    IF sockets[c][s] = "open" THEN [sockets EXCEPT ![c][s] = "closing"] ELSE sockets

(* The end of handle_connection, on each of its ways.                      *)
Leaves(c) ==
    /\ Enters(c, "done")
    /\ activeConnections' = activeConnections - 1

(* _get_original_dst_pf and getsockname both fail.                         *)
NoDestination(c) ==
    /\ phase[c] = "found"
    /\ Leaves(c) /\ socket' = Closed(socket, c, "client")
    /\ UNCHANGED <<pipe, flow>>

(* ... or one tells where the client wanted to go: socks5_connect.         *)
Destination(c) ==
    /\ phase[c] = "found"
    /\ Enters(c, "connecting")
    /\ UNCHANGED <<pipe, socket, flow, activeConnections>>

Following(at) ==
    CASE at = "connecting" -> "greeting"
      [] at = "greeting"   -> "asked"
      [] at = "asked"      -> "address"
      [] OTHER             -> "piping"

(* The proxy does what socks5_connect waits for.                           *)
Proceeds(c) ==
    /\ phase[c] \in {"connecting", "greeting", "asked", "address"}
    /\ Enters(c, Following(phase[c]))
    /\ IF phase[c] = "address"
       THEN pipe' = [pipe EXCEPT ![c] = [d \in Directions |-> "read"]]
       ELSE UNCHANGED pipe
    /\ socket' = IF phase[c] = "connecting" THEN [socket EXCEPT ![c].proxy = "open"] ELSE socket
    /\ UNCHANGED <<flow, activeConnections>>

(* It refuses, says what is not SOCKS5 or resets: a ConnectionError, that  *)
(* closes the connection to it.                                            *)
Refused(c) ==
    /\ phase[c] \in {"connecting", "greeting", "asked", "address"}
    /\ Leaves(c)
    /\ socket' = Closed(Closed(socket, c, "proxy"), c, "client")
    /\ UNCHANGED <<pipe, flow>>

(* It does not answer in time, or ends early: the connection to it is left *)
(* to the garbage collector.  Nothing limits the wait for the address.     *)
NoAnswer(c) ==
    /\ phase[c] \in {"connecting", "greeting", "asked"}
    /\ Leaves(c)
    /\ socket' = [Closed(socket, c, "client") EXCEPT ![c].proxy = IF @ = "none" THEN @ ELSE "lost"]
    /\ UNCHANGED <<pipe, flow>>

-----------------------------------------------------------------------------
(* pipe().                                                                 *)

PipeGoes(c, d, where) == pipe' = [pipe EXCEPT ![c][d] = where]

Waiting(c, d) == given[c][d] - read[c][d]

(* The reader is at its end when the peer's EOF came or the socket is lost;*)
(* a reset is an exception, even before what is still unread.              *)
NoMore(c, d) ==
    \/ From(d) \in broken[c]
    \/ Waiting(c, d) = 0 /\ (From(d) \in finished[c] \/ socket[c][From(d)] = "lost")

(* read() returns data; write() to a socket that closes drops them.        *)
PipeReads(c, d) ==
    /\ pipe[c][d] = "read" /\ Waiting(c, d) > 0 /\ From(d) \notin broken[c]
    /\ read' = [read EXCEPT ![c][d] = @ + 1]
    /\ buffer' = IF socket[c][To(d)] = "open" THEN [buffer EXCEPT ![c][d] = @ + 1] ELSE buffer
    /\ PipeGoes(c, d, "drain")
    /\ UNCHANGED <<phase, socket, given, received, finished, broken, activeConnections>>

PipeDrains(c, d) ==
    /\ pipe[c][d] = "drain" /\ socket[c][To(d)] # "lost" /\ buffer[c][d] <= HelperMark
    /\ PipeGoes(c, d, "read")
    /\ UNCHANGED <<phase, socket, flow, activeConnections>>

ClosesBothMutant(c, d) ==
    /\ \/ pipe[c][d] = "read" /\ NoMore(c, d)
       \/ pipe[c][d] = "drain" /\ socket[c][To(d)] = "lost"
    /\ PipeGoes(c, d, "closed")
    /\ socket' = [socket EXCEPT ![c] = [s \in Sockets |-> "lost"]]
    /\ UNCHANGED <<phase, flow, activeConnections>>

(* EOF, or an exception: its writer is closed.                             *)
PipeEnds(c, d) ==
    /\ \/ pipe[c][d] = "read" /\ NoMore(c, d)
       \/ pipe[c][d] = "drain" /\ socket[c][To(d)] = "lost"
    /\ PipeGoes(c, d, "closed")
    /\ socket' = Closed(socket, c, To(d))
    /\ UNCHANGED <<phase, flow, activeConnections>>

(* gather() returns.                                                       *)
BothEnded(c) ==
    /\ phase[c] = "piping" /\ \A d \in Directions : pipe[c][d] = "closed"
    /\ Leaves(c) /\ socket' = Closed(socket, c, "client")
    /\ UNCHANGED <<pipe, flow>>

Code(c) ==
    \/ Handle(c) \/ NoDestination(c) \/ Destination(c) \/ NoAnswer(c) \/ BothEnded(c)
    \/ \E d \in Directions : PipeReads(c, d) \/ PipeDrains(c, d) \/ PipeEnds(c, d)

-----------------------------------------------------------------------------
(* The peers, the kernel and asyncio.                                      *)

PeerSends(c, d) ==
    /\ phase[c] = "piping" /\ socket[c][From(d)] = "open" /\ From(d) \notin finished[c]
    /\ given[c][d] < Amounts[d]
    /\ given' = [given EXCEPT ![c][d] = @ + 1]
    /\ UNCHANGED <<phase, pipe, socket, read, buffer, received, finished, broken, activeConnections>>

PeerEnds(c, s) ==
    /\ phase[c] = "piping" /\ socket[c][s] = "open" /\ s \notin finished[c]
    /\ finished' = [finished EXCEPT ![c] = @ \cup {s}]
    /\ UNCHANGED <<phase, pipe, socket, given, read, buffer, received, broken, activeConnections>>

PeerReceives(c, d) ==
    /\ buffer[c][d] > 0 /\ socket[c][To(d)] \in {"open", "closing"}
    /\ buffer' = [buffer EXCEPT ![c][d] = @ - 1]
    /\ received' = [received EXCEPT ![c][d] = @ + 1]
    /\ UNCHANGED <<phase, pipe, socket, given, read, finished, broken, activeConnections>>

Resets(c, s) ==
    /\ phase[c] = "piping" /\ socket[c][s] \in {"open", "closing"}
    /\ socket' = [socket EXCEPT ![c][s] = "lost"]
    /\ broken' = [broken EXCEPT ![c] = @ \cup {s}]
    /\ buffer' = [buffer EXCEPT ![c][IF s = "proxy" THEN "out" ELSE "in"] = 0]
    /\ UNCHANGED <<phase, pipe, given, read, received, finished, activeConnections>>

(* A closing socket whose buffer is empty: connection_lost.                *)
Flushed(c, d) ==
    /\ socket[c][To(d)] = "closing" /\ buffer[c][d] = 0
    /\ socket' = [socket EXCEPT ![c][To(d)] = "lost"]
    /\ UNCHANGED <<phase, pipe, flow, activeConnections>>

Outside(c) ==
    \/ Proceeds(c) \/ Refused(c)
    \/ \E d \in Directions : PeerReceives(c, d) \/ Flushed(c, d)

-----------------------------------------------------------------------------

HelperNext ==
    \E c \in Connections :
        \/ Accept(c) \/ Code(c) \/ Outside(c)
        \/ \E d \in Directions : PeerSends(c, d)
        \/ \E s \in Sockets : PeerEnds(c, s) \/ Resets(c, s)

HelperSpec == HelperInit /\ [][HelperNext]_helperVars

-----------------------------------------------------------------------------

(* The client has the whole answer when the proxy has ended it, unless the *)
(* client itself ended first or a connection was reset.                    *)
AnswerComplete ==
    \A c \in Connections :
        phase[c] = "done" /\ socket[c].client = "lost" /\ broken[c] = {} /\ finished[c] = {"proxy"}
            => received[c]["in"] = given[c]["in"]

=============================================================================
