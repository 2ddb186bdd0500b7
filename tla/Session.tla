------------------------------- MODULE Session -------------------------------
(***************************************************************************)
(* One connection of a client to the proxies of lib/: the handshake of     *)
(* socks5_server.py or http_proxy_server.py, the connection to the target, *)
(* and the two forwarder_loops of proxy_server.py.  A step of a coroutine  *)
(* runs from one await to the next.  The ends, the kernel and asyncio's    *)
(* transports are external.                                                *)
(***************************************************************************)
EXTENDS Naturals, Sequences

CONSTANTS
    Kinds,      \* the requests considered, among AllKinds
    Chunks,     \* bound: how much each end sends, beyond the client's handshake
    Window,     \* what the kernel and the network hold for an end
    HighWater   \* what a transport buffers before drain() waits

AllKinds == {"SOCKS", "CONNECT", "GET"}   \* GET stands for every verb of do_verb

ASSUME KindsAssumption == Kinds \subseteq AllKinds
ASSUME ChunksAssumption == Chunks \in [{"client", "target"} -> Nat]
ASSUME BufferAssumption ==   \* 64 KiB and more: two replies fit
    Window \in Nat /\ HighWater \in Nat /\ Window + HighWater >= 2

End == {"client", "target"}
Other(x) == IF x = "client" THEN "target" ELSE "client"

(* What travels: chunks, numbered by the end that sends them, and the words  *)
(* of the proxy itself.                                                      *)
Chunk(x, n) == [from |-> x, n |-> n]
Word(w) == [from |-> w, n |-> 0]
Item == [from : End \cup {"method", "granted", "refused", "request"}, n : Nat]

VARIABLES
    kind,       \* what the client asks for
    stage,      \* the await the handler is in
    conn,       \* the transport to each end; "broken" if it was lost to an error
    inbox,      \* what an end sent and the proxy has not read
    eof,        \* the reader of an end finds EOF after inbox
    outbox,     \* what was written to an end and it has not received
    forwarder,  \* the await in which the forwarder_loop that reads from an end is
    taken,      \* how much was read from each end (traffic_stats counts the relayed part)
    peer,       \* an end: sending, shut for sending, closed, or gone without a word
    sent,       \* how much each end sent
    got         \* what each end received

proxy == <<kind, stage, conn, inbox, eof, outbox, forwarder, taken>>
ends == <<peer, sent, got>>
vars == <<kind, stage, conn, inbox, eof, outbox, forwarder, taken, peer, sent, got>>

(* The client's own words: greeting and request of SOCKS, request of HTTP.   *)
Handshake == IF kind = "SOCKS" THEN 2 ELSE 1
Skipped(x) == IF x = "client" THEN Handshake ELSE 0

(* Sent and beyond the proxy's reach: it came after close() stopped reading. *)
Unread(x) == sent[x] > taken[x] + Len(inbox[x])

(* Types, and: nothing is read twice (proxy_server.py:37, http_proxy_server.  *)
(* py:34-45, socks5_server.py:195-197).                                      *)
SessionTypeOK ==
    /\ kind \in Kinds
    /\ stage \in {"hello", "request", "connect", "relay", "finish", "done"}
    /\ conn \in [End -> {"none", "open", "closing", "lost", "broken"}]
    /\ inbox \in [End -> Seq(Item)] /\ outbox \in [End -> Seq(Item)]
    /\ eof \in [End -> BOOLEAN]
    /\ forwarder \in [End -> {"none", "read", "drain", "closing", "done"}]
    /\ taken \in [End -> Nat] /\ sent \in [End -> Nat]
    /\ peer \in [End -> {"open", "shut", "closed", "gone"}]
    /\ got \in [End -> Seq(Item)]
    /\ \A x \in End : taken[x] + Len(inbox[x]) <= sent[x]

Init ==
    /\ kind \in Kinds
    /\ stage = IF kind = "SOCKS" THEN "hello" ELSE "request"
    /\ conn = [x \in End |-> IF x = "client" THEN "open" ELSE "none"]
    /\ inbox = [x \in End |-> <<>>] /\ outbox = [x \in End |-> <<>>]
    /\ eof = [x \in End |-> FALSE]
    /\ forwarder = [x \in End |-> "none"]
    /\ taken = [x \in End |-> 0] /\ sent = [x \in End |-> 0]
    /\ peer = [x \in End |-> "open"]
    /\ got = [x \in End |-> <<>>]

------------------------------------------------------------------------------
(* asyncio: write() to a transport that is not open is dropped.              *)
Written(y, w) == IF conn[y] = "open" THEN [outbox EXCEPT ![y] = @ \o w] ELSE outbox

(* close(): reading stops at once, so of what is still to come the reader    *)
(* keeps what had reached its buffer.                                        *)
CloseWriter(y) ==
    IF conn[y] = "open"
    THEN /\ conn' = [conn EXCEPT ![y] = "closing"]
         /\ \/ UNCHANGED <<inbox, eof>>
            \/ \E k \in 0..Len(inbox[y]) :
                 /\ inbox' = [inbox EXCEPT ![y] = SubSeq(@, 1, k)]
                 /\ eof' = [eof EXCEPT ![y] = FALSE]
    ELSE UNCHANGED <<conn, inbox, eof>>

(* The buffer of a closing transport is flushed, and the socket closed.      *)
Flush(y) ==
    /\ conn[y] = "closing" /\ Len(outbox[y]) <= Window
    /\ conn' = [conn EXCEPT ![y] = "lost"]
    /\ eof' = [eof EXCEPT ![y] = TRUE]
    /\ UNCHANGED <<kind, stage, inbox, outbox, forwarder, taken, ends>>

(* The connection is reset: its end closed, or is gone and what was sent to  *)
(* it is never acknowledged, or the socket was closed with data unread.      *)
Reset(y) ==
    /\ \/ peer[y] = "closed" /\ conn[y] \in {"open", "closing"}
       \/ peer[y] = "gone" /\ conn[y] \in {"open", "closing"} /\ outbox[y] # <<>>
       \/ conn[y] = "lost" /\ outbox[y] # <<>> /\ (Unread(y) \/ peer[y] \in {"closed", "gone"})
    /\ conn' = [conn EXCEPT ![y] = IF @ = "lost" THEN @ ELSE "broken"]
    /\ outbox' = [outbox EXCEPT ![y] = <<>>]
    /\ UNCHANGED <<kind, stage, inbox, eof, forwarder, taken, ends>>

------------------------------------------------------------------------------
(* The handler.  A read of the client raises once its connection is broken;  *)
(* so does readexactly() at EOF, while readline() returns nothing.           *)
Heard == conn["client"] # "broken" /\ inbox["client"] # <<>>
EarlyEofMutant(x) == conn[x] # "broken" /\ eof[x]   \* EOF overtakes what is buffered

AtEof(x) == conn[x] # "broken" /\ inbox[x] = <<>> /\ eof[x]
Nothing == conn["client"] = "broken" \/ AtEof("client")

TakeWord == taken' = [taken EXCEPT !["client"] = @ + 1]
Rest == Tail(inbox["client"])
Leave(q) == inbox' = [inbox EXCEPT !["client"] = q]

(* The handler ends before the relay, having written words to the client and *)
(* left q unread: the SOCKS handler closes the client's writer unless it is  *)
(* closing, the HTTP handler just returns.                                   *)
GiveUp(q, words) ==
    /\ outbox' = Written("client", words)
    /\ IF kind = "SOCKS" /\ conn["client"] = "open"
       THEN /\ stage' = "finish" /\ conn' = [conn EXCEPT !["client"] = "closing"]
            /\ \E k \in 0..Len(q) : Leave(SubSeq(q, 1, k))
       ELSE stage' = "done" /\ UNCHANGED conn /\ Leave(q)
    /\ UNCHANGED <<kind, eof, forwarder, ends>>

Hello ==
    /\ stage = "hello" /\ Heard /\ TakeWord
    /\ \/ /\ stage' = "request" /\ Leave(Rest)
          /\ outbox' = Written("client", <<Word("method")>>)
          /\ UNCHANGED <<kind, conn, eof, forwarder, ends>>
       \/ GiveUp(Rest, <<>>)                     \* not SOCKS5
       \/ GiveUp(Rest, <<Word("refused")>>)      \* no acceptable method

LeftoverMutant ==   \* the request is looked at and left in the buffer
    /\ stage = "request" /\ Heard /\ stage' = "connect"
    /\ UNCHANGED <<kind, conn, inbox, eof, outbox, forwarder, taken, ends>>

Request ==
    /\ stage = "request" /\ Heard /\ TakeWord
    /\ \/ stage' = "connect" /\ Leave(Rest) /\ UNCHANGED <<kind, conn, eof, outbox, forwarder, ends>>
       \/ GiveUp(Rest, <<>>)                     \* bad version, empty request line, bad port
       \/ GiveUp(Rest, <<Word("refused")>>)      \* unsupported or malformed

(* The client ended before its word, which may be there in part.             *)
NoWord ==
    /\ stage \in {"hello", "request"} /\ Nothing
    /\ GiveUp(inbox["client"], <<>>) /\ UNCHANGED taken

ConnectFails ==
    /\ stage = "connect"
    /\ GiveUp(inbox["client"], <<Word("refused")>>) /\ UNCHANGED taken

(* The reply is written and the forwarders start, with no await between.     *)
Connected ==
    /\ stage = "connect" /\ stage' = "relay"
    /\ conn' = [conn EXCEPT !["target"] = "open"]
    /\ outbox' = IF kind = "GET" THEN [outbox EXCEPT !["target"] = <<Word("request")>>]
                 ELSE Written("client", <<Word("granted")>>)
    /\ forwarder' = [x \in End |-> "read"]
    /\ UNCHANGED <<kind, inbox, eof, taken, ends>>

(* gather() returns when both forwarders have ended; both writers are closed *)
(* then, and the HTTP handler's last drain() raises.                         *)
RelayEnds ==
    /\ stage = "relay" /\ \A x \in End : forwarder[x] = "done"
    /\ stage' = "done"
    /\ UNCHANGED <<kind, conn, inbox, eof, outbox, forwarder, taken, ends>>

WaitClosed ==
    /\ stage = "finish" /\ conn["client"] \in {"lost", "broken"}
    /\ stage' = "done"
    /\ UNCHANGED <<kind, conn, inbox, eof, outbox, forwarder, taken, ends>>

(* A connection the HTTP handler left open is closed when the garbage        *)
(* collector takes its writer, which the event loop lets go at EOF.          *)
Collect ==
    /\ stage = "done" /\ conn["client"] = "open" /\ eof["client"]
    /\ CloseWriter("client")
    /\ UNCHANGED <<kind, stage, outbox, forwarder, taken, ends>>

------------------------------------------------------------------------------
(* forwarder_loop(reader of x, writer of the other end).                     *)
NoCloseMutant(x) ==   \* no finally clause
    /\ forwarder' = [forwarder EXCEPT ![x] = "done"]
    /\ UNCHANGED <<kind, stage, conn, inbox, eof, outbox, taken, ends>>

EndLoop(x) ==
    /\ forwarder' = [forwarder EXCEPT ![x] = "closing"]
    /\ CloseWriter(Other(x))
    /\ UNCHANGED <<kind, stage, outbox, taken, ends>>

Read(x) ==
    /\ forwarder[x] = "read" /\ conn[x] # "broken" /\ inbox[x] # <<>>
    /\ inbox' = [inbox EXCEPT ![x] = Tail(@)]
    /\ taken' = [taken EXCEPT ![x] = @ + 1]
    /\ outbox' = Written(Other(x), <<Head(inbox[x])>>)
    /\ forwarder' = [forwarder EXCEPT ![x] = "drain"]
    /\ UNCHANGED <<kind, stage, conn, eof, ends>>

(* At EOF the loop breaks; an exception of the reader ends it as well.       *)
ReadEnds(x) ==
    /\ forwarder[x] = "read"
    /\ conn[x] = "broken" \/ AtEof(x)
    /\ EndLoop(x)

Drain(x) ==
    /\ forwarder[x] = "drain"
    /\ conn[Other(x)] = "open" /\ Len(outbox[Other(x)]) <= Window + HighWater
    /\ forwarder' = [forwarder EXCEPT ![x] = "read"]
    /\ UNCHANGED <<kind, stage, conn, inbox, eof, outbox, taken, ends>>

DrainFails(x) ==
    /\ forwarder[x] = "drain" /\ conn[Other(x)] = "broken"
    /\ EndLoop(x)

LoopEnds(x) ==
    /\ forwarder[x] = "closing" /\ conn[Other(x)] \in {"lost", "broken"}
    /\ forwarder' = [forwarder EXCEPT ![x] = "done"]
    /\ UNCHANGED <<kind, stage, conn, inbox, eof, outbox, taken, ends>>

------------------------------------------------------------------------------
(* The ends.                                                                 *)
Send(x) ==
    /\ peer[x] = "open" /\ conn[x] \notin {"none", "broken"}
    /\ sent[x] < Skipped(x) + Chunks[x]
    /\ sent' = [sent EXCEPT ![x] = @ + 1]
    /\ inbox' = IF conn[x] = "open" THEN [inbox EXCEPT ![x] = Append(@, Chunk(x, sent[x] + 1))]
                ELSE inbox
    /\ UNCHANGED <<kind, stage, conn, eof, outbox, forwarder, taken, peer, got>>

Receive(x) ==
    /\ peer[x] \in {"open", "shut"} /\ outbox[x] # <<>>
    /\ got' = [got EXCEPT ![x] = Append(@, Head(outbox[x]))]
    /\ outbox' = [outbox EXCEPT ![x] = Tail(@)]
    /\ UNCHANGED <<kind, stage, conn, inbox, eof, forwarder, taken, peer, sent>>

(* The end sends a FIN: it shuts its side, or closes.                        *)
Finish(x, how) ==
    /\ conn[x] # "none"
    /\ peer[x] = "open" \/ (peer[x] = "shut" /\ how = "closed")
    /\ peer' = [peer EXCEPT ![x] = how]
    /\ eof' = [eof EXCEPT ![x] = @ \/ conn[x] = "open"]
    /\ UNCHANGED <<kind, stage, conn, inbox, outbox, forwarder, taken, sent, got>>

Vanish(x) ==
    /\ conn[x] # "none" /\ peer[x] \in {"open", "shut"}
    /\ peer' = [peer EXCEPT ![x] = "gone"]
    /\ UNCHANGED <<proxy, sent, got>>

------------------------------------------------------------------------------
HandlerStep ==
    Hello \/ Request \/ NoWord \/ ConnectFails \/ Connected \/ RelayEnds \/ WaitClosed
ForwarderStep(x) == Read(x) \/ ReadEnds(x) \/ Drain(x) \/ DrainFails(x) \/ LoopEnds(x)
EndStep(x) == Send(x) \/ Receive(x) \/ Vanish(x) \/ \E how \in {"shut", "closed"} : Finish(x, how)

Next ==
    \/ HandlerStep \/ Collect
    \/ \E x \in End : ForwarderStep(x) \/ Flush(x) \/ Reset(x) \/ EndStep(x)

(* The event loop runs what is ready; the connection attempt ends, at the    *)
(* latest with CONNECT_TIMEOUT (proxy_server.py:27,161); an end that is      *)
(* there reads; what is sent to one that is not ends in a reset.             *)
Fairness ==
    /\ WF_vars(HandlerStep)
    /\ \A x \in End : /\ WF_vars(ForwarderStep(x)) /\ WF_vars(Flush(x)) /\ WF_vars(Receive(x))
                      /\ WF_vars(Reset(x) /\ outbox[x] # <<>>)

Spec == Init /\ [][Next]_vars /\ Fairness

------------------------------------------------------------------------------
(* What each end is to receive: the proxy's words, then the other end's      *)
(* chunks, the handshake left out.                                           *)
Preface(y) ==
    CASE y = "client" /\ kind = "SOCKS"   -> <<"method", "granted">>
      [] y = "client" /\ kind = "CONNECT" -> <<"granted">>
      [] y = "target" /\ kind = "GET"     -> <<"request">>
      [] OTHER                            -> <<>>
Expected(y, j) ==
    IF j <= Len(Preface(y)) THEN Word(Preface(y)[j])
    ELSE Chunk(Other(y), Skipped(Other(y)) + j - Len(Preface(y)))

(* Once there is a target, what an end received is what it was to receive,   *)
(* in order, without a gap: the words first, no chunk twice, whatever the    *)
(* connections went through (proxy_server.py:36-42, socks5_server.py:275-276).*)
InOrder ==
    conn["target"] # "none" =>
        \A y \in End : \A j \in 1..Len(got[y]) : got[y][j] = Expected(y, j)

(* A transport's memory is bounded, however fast an end sends and slow the   *)
(* other receives: one chunk beyond the mark, since drain() follows each     *)
(* write (proxy_server.py:41-42).                                            *)
BoundedBuffer == \A y \in End : Len(outbox[y]) <= Window + HighWater + 1

(* A clean end is a complete one: a forwarder closes an end that has not     *)
(* ended itself only after it read, and so wrote to it, all that the other   *)
(* end sent before its FIN, unless one of the connections broke              *)
(* (proxy_server.py:36-44, http_proxy_server.py:146-149).                    *)
CleanEndIsComplete ==
    \A x \in End :
        /\ forwarder[x] \in {"closing", "done"} /\ peer[Other(x)] = "open"
        /\ \A y \in End : conn[y] # "broken"
        => peer[x] # "open" /\ taken[x] = sent[x]

(* When the handler is done, both connections are down; only the HTTP        *)
(* handler leaves a client it refused (proxy_server.py:43-45,                *)
(* socks5_server.py:247-250).                                                *)
NothingLeftOpen ==
    stage = "done" =>
        /\ conn["target"] \in {"none", "lost", "broken"}
        /\ conn["client"] \in {"lost", "broken"} \/ (kind # "SOCKS" /\ conn["target"] = "none")

==============================================================================
