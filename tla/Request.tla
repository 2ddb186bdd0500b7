------------------------------- MODULE Request -------------------------------
(***************************************************************************)
(* What a SOCKS5 request is served with, after the handshake Session has:  *)
(* a connection (Connect) or a UDP relay (UdpRelay) of the same server.    *)
(***************************************************************************)
EXTENDS Connect, UdpRelay

VARIABLE
    command     \* cmd of AsyncSocks5Handler._handle

connectonly == <<resolutionvars, source, kind, stage, address, attempt, due, turn>>
relayonly == <<handler, control, made, connections, tasks, asked, answered, sent, delivered>>
vars == <<hosts, connectonly, relayonly, command>>

(* An association asks nothing of tcp_connect: its kind is of no matter.   *)
Init ==
    /\ ConnectInit /\ RelayInit
    /\ command \in {"CONNECT", "UDP ASSOCIATE"}
    /\ command = "UDP ASSOCIATE" => kind = "domain"

Next ==
    /\ \/ command = "CONNECT" /\ ConnectNext /\ UNCHANGED relayonly
       \/ command = "UDP ASSOCIATE" /\ RelayNext /\ UNCHANGED connectonly
    /\ UNCHANGED command

Acts(A, others) == A /\ UNCHANGED <<others, command>>

(* The loop runs what is ready and time passes; the network owes nothing.  *)
Fairness ==
    /\ WF_vars(command = "CONNECT" /\ Acts(CodeActs, relayonly))
    /\ WF_vars(command = "CONNECT" /\ Acts(TimePasses, relayonly))
    /\ WF_vars(command = "UDP ASSOCIATE" /\ Acts(HandlerRuns, connectonly))
    /\ WF_vars(command = "UDP ASSOCIATE" /\ Acts(TaskRuns, connectonly))

Spec == Init /\ [][Next]_vars /\ Fairness

-----------------------------------------------------------------------------

(* tcp_connect returns or raises, whatever the network does, if the event  *)
(* loop is never held up while it has something to do.                     *)
ConnectEnds ==
    command = "CONNECT" /\ [](stalls = 0) => <>(stage \in {"connected", "failed"})

(* The relay ends when its TCP connection does, and every task ends.       *)
RelayEnds == (control = "ended") ~> (handler \in {"done", "failed"} /\ tasks = {})

(* So whatever a request has begun comes to an end, if its client leaves.  *)
RequestEnds == ConnectEnds /\ RelayEnds

=============================================================================
