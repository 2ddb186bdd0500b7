-------------------------------- MODULE Quic --------------------------------
(***************************************************************************)
(* Streams of one DNS-over-QUIC connection: the users of dns.query.quic,   *)
(* each in a stream of its own, and the connection's worker, which feeds   *)
(* them from aioquic's events.  Threaded is dns.quic._sync, where a put    *)
(* into a stream's buffer takes no lock; otherwise it is dns.quic._asyncio,*)
(* where nothing is interrupted but at an await.                           *)
(*                                                                         *)
(* The reply to a user is two units of length and Size of body.            *)
(***************************************************************************)
EXTENDS Integers, Sequences

CONSTANTS
    Users,
    Threaded,
    Timed,       \* receive is given a timeout
    MaxQueue     \* bound of the model: events that are not handled

Size == 1
Reply(u) == [k \in 1..2 + Size |-> <<u, k>>]

VARIABLES
    user,        \* the users, see Beginning
    queue,       \* events of aioquic that are not handled
    fed, cut,    \* units of each reply that have arrived; it has ended
    worker,      \* what the worker is doing
    streams,     \* the connection's streams
    handshake, done, closed,
    known        \* the manager has this connection for its address

flags == <<handshake, done, closed, known>>
quicVars == <<user, queue, fed, cut, worker, streams, flags>>

(* A user: the units it wants, those it has set the worker to look for     *)
(* (_expecting), its stream's Buffer, whether the time of a wait has run   *)
(* out, and what it has received, or UnexpectedEOF.  A wait may take any   *)
(* time.                                                                   *)
Beginning ==
    [at |-> "connect", need |-> 2, body |-> FALSE, expecting |-> 0, buffer |-> <<>>, end |-> FALSE,
     ranOut |-> FALSE, rest |-> <<>>, result |-> <<>>, eof |-> FALSE]

Idle == [at |-> "idle", stream |-> "none", units |-> <<>>, end |-> FALSE, old |-> <<>>]

Have(u) == Len(user[u].buffer) >= user[u].need
Short(u) == ~Have(u) /\ user[u].end

Goes(u, at) == user' = [user EXCEPT ![u].at = at]

Waits(u, need) == [user[u] EXCEPT !.at = "check", !.need = need, !.ranOut = FALSE]

-----------------------------------------------------------------------------
(* The users.                                                              *)

(* BaseQuicManager._connect: the connection in the table, whatever its     *)
(* state.  One that was closed is not in it: that call has another.        *)
ManagerConnect(u) ==
    /\ user[u].at = "connect"
    /\ Goes(u, IF known THEN "make" ELSE "elsewhere")
    /\ UNCHANGED <<streams, flags>>

MakeStream(u) ==
    /\ user[u].at = "make" /\ handshake
    /\ Goes(u, "send") /\ streams' = streams \cup {u}
    /\ UNCHANGED flags

(* stream.send, and receive up to its first wait.                          *)
StreamReceive(u) ==
    /\ user[u].at = "send"
    /\ user' = [user EXCEPT ![u] = Waits(u, 2)]
    /\ UNCHANGED <<streams, flags>>

(* What receive makes of the units it got: a length, or the message.       *)
Got(u, data, rest) ==
    IF user[u].body
    THEN [user[u] EXCEPT !.at = "exit", !.result = data, !.buffer = rest, !.rest = <<>>]
    ELSE [Waits(u, Size) EXCEPT !.body = TRUE, !.buffer = rest, !.rest = <<>>]

TakesAllMutant(u) ==
    /\ user[u].at = "check"
    /\ user' = [user EXCEPT ![u] =
            IF Have(u) THEN Got(u, user[u].buffer, <<>>)
            ELSE IF Short(u) THEN [user[u] EXCEPT !.at = "exit", !.eof = TRUE]
            ELSE [user[u] EXCEPT !.at = "enter", !.expecting = user[u].need]]
    /\ UNCHANGED <<streams, flags>>

WaitForCheck(u) ==
    LET s == user[u]
        rest == SubSeq(s.buffer, s.need + 1, Len(s.buffer))
    IN  /\ s.at = "check"
        /\ user' = [user EXCEPT ![u] =
                IF Have(u) /\ Threaded THEN [s EXCEPT !.at = "take", !.rest = rest]
                ELSE IF Have(u) THEN Got(u, SubSeq(s.buffer, 1, s.need), rest)
                ELSE IF Short(u) THEN [s EXCEPT !.at = "exit", !.eof = TRUE]
                ELSE [s EXCEPT !.at = "enter", !.expecting = s.need]]
        /\ UNCHANGED <<streams, flags>>

(* A thread has cut the buffer, and stores what is left of it.             *)
SyncReceive(u) ==
    /\ user[u].at = "take"
    /\ user' = [user EXCEPT ![u] = Got(u, SubSeq(@.buffer, 1, @.need), user[u].rest)]
    /\ UNCHANGED <<streams, flags>>

(* Only now it waits for a notification: one that came before is lost.     *)
WaitForWakeUp(u) ==
    /\ user[u].at = "enter"
    /\ Goes(u, "asleep")
    /\ UNCHANGED <<streams, flags>>

(* When its time runs out a wait is like any other: the loop goes on.      *)
RunsOut(u) ==
    /\ user[u].at = "asleep" /\ Timed
    /\ user' = [user EXCEPT ![u].at = "woken", ![u].ranOut = TRUE]
    /\ UNCHANGED <<streams, flags>>

WaitForAgain(u) ==
    /\ user[u].at = "woken"
    /\ user' = [user EXCEPT ![u].at = "check", ![u].expecting = 0]
    /\ UNCHANGED <<streams, flags>>

StreamExit(u) ==
    /\ user[u].at = "exit"
    /\ user' = [user EXCEPT ![u].at = "over", ![u].end = TRUE]
    /\ streams' = streams \ {u}
    /\ UNCHANGED flags

(* The caller that keeps the connection closes it.                         *)
CloseConnection ==
    /\ ~closed /\ closed' = TRUE /\ known' = FALSE
    /\ queue' = Append(queue, [kind |-> "terminated"])
    /\ UNCHANGED <<user, fed, cut, worker, streams, handshake, done>>

-----------------------------------------------------------------------------
(* The worker.                                                             *)

(* _common_add_input after the put: who waits for what is there is         *)
(* notified.  If the stream has ended before, the exception is raised      *)
(* here, too, and the worker is gone.                                      *)
AfterPut(u, buffer, end) ==
    LET expecting == user[u].expecting
    IN  IF expecting > 0 /\ Len(buffer) >= expecting THEN [Idle EXCEPT !.at = "notify", !.stream = u]
        ELSE IF expecting > 0 /\ end THEN [Idle EXCEPT !.at = "dead"]
        ELSE Idle

Put(u, old, units, end) ==
    LET buffer == IF user[u].end THEN old ELSE old \o units
    IN  /\ user' = [user EXCEPT ![u].buffer = buffer, ![u].end = @ \/ end]
        /\ worker' = AfterPut(u, buffer, user[u].end \/ end)

HandleEvents ==
    /\ worker.at = "idle" /\ queue # <<>>
    /\ queue' = Tail(queue)
    /\ LET event == Head(queue)
       IN  CASE event.kind = "data" /\ event.stream \in streams /\ Threaded ->
                    /\ worker' = [at |-> "store", stream |-> event.stream, units |-> event.units,
                                  end |-> event.end, old |-> user[event.stream].buffer]
                    /\ UNCHANGED <<user, handshake, done>>
             [] event.kind = "data" /\ event.stream \in streams /\ ~Threaded ->
                    /\ Put(event.stream, user[event.stream].buffer, event.units, event.end)
                    /\ UNCHANGED <<handshake, done>>
             [] event.kind = "handshake" -> handshake' = TRUE /\ UNCHANGED <<user, worker, done>>
             [] event.kind = "terminated" -> done' = TRUE /\ UNCHANGED <<user, worker, handshake>>
             [] OTHER -> UNCHANGED <<user, worker, handshake, done>>
    /\ UNCHANGED <<fed, cut, streams, closed, known>>

AddInput ==
    \/ /\ worker.at = "store"
       /\ Put(worker.stream, worker.old, worker.units, worker.end)
    \/ /\ worker.at = "notify" /\ worker' = Idle
       /\ IF user[worker.stream].at = "asleep" THEN Goes(worker.stream, "woken") ELSE UNCHANGED user

(* "while not self._done", after the events that there were.               *)
WorkerEnds == worker.at = "idle" /\ done /\ queue = <<>> /\ worker' = [Idle EXCEPT !.at = "ended"]

-----------------------------------------------------------------------------
(* aioquic and the server: units of the replies in order, in any pieces.   *)

Arrives(u) ==
    /\ u \in streams /\ user[u].at # "send" /\ ~done /\ ~cut[u] /\ Len(queue) < MaxQueue
    /\ \E n \in 0..2 + Size - fed[u] : \E end \in BOOLEAN :
        /\ n > 0 \/ end
        /\ fed' = [fed EXCEPT ![u] = @ + n] /\ cut' = [cut EXCEPT ![u] = end]
        /\ queue' = Append(queue, [kind |-> "data", stream |-> u, end |-> end,
                                   units |-> SubSeq(Reply(u), fed[u] + 1, fed[u] + n)])
    /\ UNCHANGED <<user, worker, streams, flags>>

Aioquic ==
    /\ worker.at \notin {"dead", "ended"}
    /\ \/ \E u \in Users : Arrives(u)
       \/ /\ ~handshake /\ queue = <<>>
          /\ \E kind \in {"handshake", "terminated"} : queue' = <<[kind |-> kind]>>
          /\ UNCHANGED <<user, fed, cut, worker, streams, flags>>

QuicUser(u) ==
    /\ \/ ManagerConnect(u) \/ MakeStream(u) \/ StreamReceive(u) \/ WaitForCheck(u) \/ SyncReceive(u)
       \/ WaitForWakeUp(u) \/ RunsOut(u) \/ WaitForAgain(u) \/ StreamExit(u)
    /\ UNCHANGED <<queue, fed, cut, worker>>

QuicWorker ==
    \/ HandleEvents
    \/ AddInput /\ UNCHANGED <<queue, fed, cut, streams, flags>>
    \/ WorkerEnds /\ UNCHANGED <<user, queue, fed, cut, streams, flags>>

QuicInit ==
    /\ user = [u \in Users |-> Beginning] /\ queue = <<>>
    /\ fed = [u \in Users |-> 0] /\ cut = [u \in Users |-> FALSE]
    /\ worker = Idle /\ streams = {}
    /\ handshake = FALSE /\ done = FALSE /\ closed = FALSE /\ known = TRUE

QuicNext ==
    \/ \E u \in Users : QuicUser(u)
    \/ CloseConnection \/ QuicWorker \/ Aioquic

QuicSpec == QuicInit /\ [][QuicNext]_quicVars

-----------------------------------------------------------------------------
(* What a user receives is the whole of the reply to it, and nothing of    *)
(* another's; it is told of an early end only if there was one.            *)
ReceivedWhole ==
    \A u \in Users : user[u].at = "over" =>
        IF user[u].eof THEN cut[u] /\ fed[u] < 2 + Size
        ELSE user[u].result = SubSeq(Reply(u), 3, 2 + Size)

(* receive's timeout, "the number of seconds to wait before the query      *)
(* times out": nobody waits again after a wait that has run out.           *)
TimeoutKept == \A u \in Users : user[u].at = "asleep" => ~user[u].ranOut
=============================================================================
