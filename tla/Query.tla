-------------------------------- MODULE Query --------------------------------
(***************************************************************************)
(* A thread that asks a nameserver with dns.query: udp, tcp, tls and       *)
(* udp_with_fallback, over a socket of the call's own or over one that the *)
(* caller keeps, again and again.  Every operation on a socket may block,  *)
(* fail or do only a part of what it was asked.                            *)
(*                                                                         *)
(* A reply on a stream is two units of length and Body units of message;   *)
(* arrived is what was sent to the socket in use and has not been read.    *)
(***************************************************************************)
EXTENDS Integers, Sequences

CONSTANTS
    Calls,      \* [transport, given, family, timeout, ignoreUnexpected, async, context]
    Replies,    \* [id, from, form, tc, sig]
    MaxReplies, MaxCalls, MaxTime    \* bounds of the model

Never == MaxTime + 1

CallType ==
    [transport : {"udp", "tcp", "tls", "fallback"}, given : BOOLEAN, timeout : Nat,
     family : [where : {"v4", "v6", "host"}, source : {"none", "v4", "v6"}],
     ignoreUnexpected : BOOLEAN, async : BOOLEAN, context : BOOLEAN]

ReplyType ==
    [id : Nat, from : {"server", "elsewhere"}, form : {"whole", "broken"}, tc : BOOLEAN,
     sig : {"none", "good", "bad"}]

ASSUME QueryAssumption ==
    /\ Calls \subseteq CallType /\ Replies \subseteq ReplyType
    /\ MaxReplies \in Nat /\ MaxCalls \in Nat /\ MaxTime \in Nat

Body == 2

VARIABLES
    me,      \* the thread in the call, see Asked
    arrived, ended, replied,    \* see above; the other end has closed; replies so far
    clock

network == <<arrived, ended, replied>>
queryVars == <<me, network, clock>>

Frame(r) == [k \in 1..2 + Body |-> [reply |-> r, part |-> k]]
LengthOf(r) == SubSeq(Frame(r), 1, 2)
BodyOf(r) == SubSeq(Frame(r), 3, 2 + Body)
Garbage == [id |-> 0, from |-> "server", form |-> "broken", tc |-> FALSE, sig |-> "none"]

Datagrams == me.call.transport \in {"udp", "fallback"}

(* A thread that begins a call: where it is, whether it is in _wait_for,   *)
(* the call's own socket, whether the TLS handshake is over, the deadline  *)
(* of the call and of the wait, the parts of the query that are not sent,  *)
(* how much _net_read wants and has, and in the end the result and the     *)
(* reply it is made of.                                                    *)
Asked(call, number) ==
    [call |-> call, number |-> number, stage |-> "begin", waits |-> FALSE, own |-> "none",
     secure |-> FALSE, expiration |-> Never, limit |-> Never, unsent |-> 0, wanted |-> 2,
     got |-> <<>>, result |-> "none", reply |-> Garbage]

(* "with ... as s" closes the socket the call has made.                    *)
Left(own) == IF own = "open" THEN "closed" ELSE own

Over(outcome, r) ==
    [me EXCEPT !.stage = "over", !.waits = FALSE, !.result = outcome, !.reply = r, !.own = Left(@)]
Failed(error) == Over(error, Garbage)

(* udp_with_fallback asks again over TCP, with all of its timeout.         *)
FellBack ==
    [Asked([me.call EXCEPT !.transport = "tcp", !.given = FALSE], me.number) EXCEPT !.own = Left(me.own)]

(* asyncquery gives the asyncio backend the time that is left, to which a  *)
(* time of 0 is no limit at all.                                           *)
MaybeWaitFor(expiration) == IF clock < expiration THEN expiration ELSE Never

(* _wait_for, when an operation would block: it looks at the clock before  *)
(* it waits, never before it tries the operation.  With asyncio the        *)
(* operation itself is what waits, and waits on.                           *)
WaitFor ==
    IF me.call.async
    THEN IF me.waits THEN me ELSE [me EXCEPT !.waits = TRUE, !.limit = MaybeWaitFor(me.expiration)]
    ELSE IF clock >= me.expiration THEN Failed("Timeout")
         ELSE [me EXCEPT !.waits = TRUE, !.limit = me.expiration]

(* The socket is ready, or seems to be: the operation is tried again.      *)
Ready == me.waits /\ ~me.call.async /\ me' = [me EXCEPT !.waits = FALSE] /\ UNCHANGED network
Expires == me.waits /\ clock >= me.limit /\ me' = Failed("Timeout") /\ UNCHANGED network

At(stage) == me.stage = stage /\ (me.waits => me.call.async)

-----------------------------------------------------------------------------
(* _destination_and_source: what is asked is an address, and the family of *)
(* the source is its family.                                               *)
DestinationAndSource(family) ==
    IF family.where = "host" \/ family.source \notin {"none", family.where}
    THEN "ValueError" ELSE "none"

Begins(error) ==
    LET expiration == IF me.call.timeout = Never THEN Never ELSE clock + me.call.timeout
    IN  /\ At("begin")
        /\ IF error # "none" THEN me' = Failed(error) /\ UNCHANGED network
           ELSE /\ me' = [me EXCEPT !.stage = IF me.call.given THEN "send" ELSE "bind",
                                    !.expiration = expiration,
                                    !.waits = me.call.async /\ ~me.call.given,
                                    !.limit = MaybeWaitFor(expiration),
                                    !.unsent = IF Datagrams THEN 1 ELSE 2]
                /\ IF me.call.given THEN UNCHANGED <<arrived, ended>> ELSE arrived' = <<>> /\ ended' = FALSE
                /\ UNCHANGED replied

(* udp looks at the address even when it is given a socket, tcp and tls    *)
(* only when they make one.                                                *)
Udp == Datagrams /\ Begins(DestinationAndSource(me.call.family))

StreamError == IF me.call.given THEN "none" ELSE DestinationAndSource(me.call.family)
Tcp == me.call.transport = "tcp" /\ Begins(StreamError)
Tls == me.call.transport = "tls" /\ ~me.call.async /\ Begins(StreamError)

(* asyncquery.tls: binding, connecting and the handshake are one wait, for *)
(* the timeout of the call; the source is not held against the address.    *)
AsyncTls ==
    /\ me.call.transport = "tls" /\ me.call.async
    /\ Begins(IF ~me.call.given /\ me.call.family.where = "host" THEN "ValueError" ELSE "none")

(* asyncquery.tls makes a context when it is given none, and drops the one *)
(* it is given: that stream is not encrypted.                              *)
Encrypted(call) == call.transport = "tls" /\ ~call.given /\ ~(call.async /\ call.context)

(* A socket that cannot be bound or wrapped is closed.                     *)
MakeSocket ==
    /\ At("bind")
    /\ \/ me' = [Failed("OSError") EXCEPT !.own = "closed"]
       \/ /\ DestinationAndSource(me.call.family) = "none"
          /\ me' = [me EXCEPT !.stage = IF Datagrams THEN "send" ELSE "connect", !.own = "open"]
    /\ UNCHANGED network

Connect ==
    /\ At("connect") \/ At("connecting")
    /\ \/ me' = Failed("OSError")
       \/ me' = [me EXCEPT !.stage = IF Encrypted(me.call) THEN "handshake" ELSE "send",
                           !.waits = @ /\ Encrypted(me.call)]
       \/ At("connect") /\ me' = [WaitFor EXCEPT !.stage = IF @ = "over" THEN @ ELSE "connecting"]
    /\ UNCHANGED network

TlsHandshake ==
    /\ At("handshake")
    /\ me' \in {WaitFor, Failed("SSLError"), Failed("OSError"),
                [me EXCEPT !.stage = "send", !.secure = TRUE, !.waits = FALSE]}
    /\ UNCHANGED network

Sending(n) ==
    [me EXCEPT !.unsent = @ - n, !.waits = FALSE,
               !.stage = IF n < me.unsent THEN "send" ELSE IF Datagrams THEN "datagram" ELSE "length"]

UdpSend ==
    /\ At("send") /\ Datagrams
    /\ me' \in {WaitFor, Failed("OSError"), Sending(1)}
    /\ UNCHANGED network

(* The socket takes a part at a time; asyncio's sendall is one operation.  *)
NetWrite ==
    /\ At("send") /\ ~Datagrams
    /\ \/ me' \in {WaitFor, Failed("OSError")}
       \/ \E n \in IF me.call.async THEN {me.unsent} ELSE 1..me.unsent : me' = Sending(n)
    /\ UNCHANGED network

-----------------------------------------------------------------------------
(* from_wire and is_response.  A reply that is not signed is taken even    *)
(* when the query was.                                                     *)
Judged(r) ==
    CASE me.call.transport = "fallback" /\ r.tc -> "Truncated"
      [] r.form = "broken" -> "FormError"
      [] r.sig = "bad" -> "BadSignature"
      [] r.id # me.number -> "BadResponse"
      [] OTHER -> "answer"

Settled(r) == IF Judged(r) = "Truncated" THEN FellBack ELSE Over(Judged(r), r)

TakesAnyMutant ==
    /\ At("datagram") /\ arrived # <<>>
    /\ me' = Settled(Head(arrived).reply)
    /\ arrived' = Tail(arrived) /\ UNCHANGED <<ended, replied>>

ReceiveUdp ==
    /\ At("datagram")
    /\ \/ arrived = <<>> /\ me' = WaitFor /\ UNCHANGED network
       \/ me' = Failed("OSError") /\ UNCHANGED network
       \/ /\ arrived # <<>>
          /\ LET r == Head(arrived).reply
             IN  me' = IF r.from = "server" THEN Settled(r)
                       ELSE IF me.call.ignoreUnexpected THEN me
                       ELSE Over("UnexpectedSource", r)
          /\ arrived' = Tail(arrived) /\ UNCHANGED <<ended, replied>>

(* _net_read: some of what it wants, as long as it has not got it all; a   *)
(* part of a reply may be on its way still.                                *)
NetRead ==
    /\ At("length") \/ At("body")
    /\ Len(me.got) < me.wanted
    /\ \/ me' \in {WaitFor, Failed("OSError")} /\ UNCHANGED network
       \/ arrived = <<>> /\ ended /\ me' = Failed("EOFError") /\ UNCHANGED network
       \/ \E n \in 1..me.wanted - Len(me.got) :
            /\ n <= Len(arrived)
            /\ me' = [me EXCEPT !.got = @ \o SubSeq(arrived, 1, n), !.waits = FALSE]
            /\ arrived' = SubSeq(arrived, n + 1, Len(arrived))
            /\ UNCHANGED <<ended, replied>>

(* receive_tcp.  What is no length gives some length, and what is no whole *)
(* body is no message.                                                     *)
ReceiveTcp ==
    /\ Len(me.got) = me.wanted
    /\ \/ /\ At("length")
          /\ \E size \in IF \E r \in Replies : me.got = LengthOf(r) THEN {Body} ELSE 0..Body + 1 :
                me' = [me EXCEPT !.stage = "body", !.wanted = size, !.got = <<>>]
       \/ /\ At("body")
          /\ me' = IF \E r \in Replies : me.got = BodyOf(r)
                   THEN Settled(me.got[1].reply) ELSE Failed("FormError")
    /\ UNCHANGED network

-----------------------------------------------------------------------------

(* The next call over the same socket; a call with a socket of its own    *)
(* leaves nothing behind.                                                  *)
NextCall ==
    /\ At("over") /\ me.call.given /\ me.number < MaxCalls
    /\ me' = Asked(me.call, me.number + 1)
    /\ UNCHANGED network

Network ==
    /\ \/ /\ replied < MaxReplies /\ ~ended /\ replied' = replied + 1 /\ UNCHANGED ended
          /\ \E r \in Replies : arrived' = arrived \o IF Datagrams THEN <<Frame(r)[1]>> ELSE Frame(r)
       \/ ~Datagrams /\ ~ended /\ ended' = TRUE /\ UNCHANGED <<arrived, replied>>
    /\ UNCHANGED <<me, clock>>

Tick == clock < MaxTime /\ clock' = clock + 1 /\ UNCHANGED <<me, network>>

CallStep ==
    /\ \/ Udp \/ Tcp \/ Tls \/ AsyncTls \/ MakeSocket \/ Connect \/ TlsHandshake \/ UdpSend
       \/ NetWrite \/ ReceiveUdp \/ NetRead \/ ReceiveTcp \/ Ready \/ Expires \/ NextCall
    /\ UNCHANGED clock

QueryInit ==
    /\ \E call \in Calls : me = Asked(call, 1)
    /\ arrived = <<>> /\ ended = FALSE /\ replied = 0 /\ clock = 0

QueryNext == CallStep \/ Network \/ Tick

QuerySpec == QueryInit /\ [][QueryNext]_queryVars

-----------------------------------------------------------------------------
(* What a call returns is one whole message that answers this call and not *)
(* an earlier one over the same socket, from the address asked, with no    *)
(* signature that is wrong; a TLS call of dns.query has by then seen its   *)
(* handshake through; a Timeout comes no earlier than it may; and when the *)
(* call is over its own socket is closed.                                  *)
OnlyItsAnswer ==
    me.stage = "over" =>
        /\ me.own # "open"
        /\ me.result = "Timeout" => clock >= me.expiration
        /\ me.result = "answer" =>
            /\ me.reply.id = me.number /\ me.reply.form = "whole" /\ me.reply.sig # "bad"
            /\ Datagrams => me.reply.from = "server"
            /\ me.call.transport = "tls" /\ ~me.call.given /\ ~me.call.async => me.secure
=============================================================================
