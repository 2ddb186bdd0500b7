---------------------------- MODULE Streams_proof ----------------------------
(***************************************************************************)
(* Proofs about Query: what a call returns is an answer to it              *)
(* (OnlyItsAnswer); about Quic: each user of a connection receives the     *)
(* whole of its own reply (ReceivedWhole); and about Wire: a message reads *)
(* back as what was added to it (RoundTrip).                               *)
(***************************************************************************)
EXTENDS Query, Quic, Wire, SequenceTheorems, WellFoundedInduction, TLAPS

Unit == [reply : ReplyType, part : 1..2 + Body]

Stages ==
    {"begin", "bind", "connect", "connecting", "handshake", "send", "datagram", "length", "body", "over"}

Outcomes ==
    {"none", "Timeout", "OSError", "SSLError", "EOFError", "ValueError", "FormError", "BadSignature",
     "BadResponse", "UnexpectedSource", "Truncated", "answer"}

ThreadType ==
    [call : CallType, number : Nat, stage : Stages, waits : BOOLEAN,
     own : {"none", "open", "closed"}, secure : BOOLEAN, expiration : Nat, limit : Nat,
     unsent : Int, wanted : Int, got : Seq(Unit), result : Outcomes, reply : ReplyType]

(* The variables keep their types.                                         *)
QueryTypeOK == me \in ThreadType /\ arrived \in Seq(Unit) /\ clock \in Nat

(* A wait ends no earlier than the call may time out.                      *)
WaitOK(thread) ==
    thread.waits => thread.limit >= thread.expiration \/ clock >= thread.expiration

(* A call over datagrams never reads a stream, and a TLS call of dns.query *)
(* sends and reads only after its handshake.                               *)
StageOK ==
    /\ WaitOK(me)
    /\ Datagrams => me.stage \in {"begin", "bind", "send", "datagram", "over"}
    /\ me.call.transport = "tls" /\ ~me.call.given /\ ~me.call.async
           /\ me.stage \in {"send", "datagram", "length", "body"} => me.secure

QInv == QueryTypeOK /\ StageOK /\ OnlyItsAnswer

-----------------------------------------------------------------------------

LEMMA BodyType == Body = 2 /\ Body \in Nat
BY DEF Body

LEMMA NeverType == Never \in Nat
BY QueryAssumption DEF Never

LEMMA FrameType ==
    ASSUME NEW r \in ReplyType
    PROVE  /\ Frame(r) \in Seq(Unit) /\ Len(Frame(r)) = 4
           /\ BodyOf(r) \in Seq(Unit) /\ BodyOf(r)[1].reply = r
<1>1. Frame(r) \in [1..4 -> Unit]
  <2>1. \A k \in 1..4 : [reply |-> r, part |-> k] \in Unit
    BY DEF Unit, Body
  <2> QED
    BY <2>1 DEF Frame, Body
<1>2. Frame(r) \in Seq(Unit)
  BY <1>1, SeqDef, 4 \in Nat, Zenon
<1>3. DOMAIN Frame(r) = 1..4 /\ Len(Frame(r)) = 4
  BY <1>1, <1>2, LenProperties
<1>4. Frame(r)[3].reply = r /\ Frame(r)[3] \in Unit /\ Frame(r)[4] \in Unit
  BY <1>1 DEF Frame, Body
<1>5. BodyOf(r) = SubSeq(Frame(r), 3, 4)
  BY DEF BodyOf, Body
<1>6. \A i \in 3..4 : Frame(r)[i] \in Unit
  BY <1>4
<1>7. SubSeq(Frame(r), 3, 4) \in Seq(Unit) /\ SubSeq(Frame(r), 3, 4)[1] = Frame(r)[3 + 1 - 1]
  BY <1>6, SubSeqProperties, 1 \in 1..4 - 3 + 1
<1> QED
  BY <1>2, <1>3, <1>4, <1>5, <1>7

LEMMA GarbageType == Garbage \in ReplyType
BY DEF Garbage, ReplyType

LEMMA AskedType ==
    ASSUME NEW call \in CallType, NEW number \in Nat
    PROVE  Asked(call, number) \in ThreadType
<1>1. <<>> \in Seq(Unit)
  OBVIOUS
<1> QED
  BY <1>1, NeverType, GarbageType DEF Asked, ThreadType, Stages, Outcomes

(* What is over has no socket of its own that is open.                     *)
LEMMA OverKeeps ==
    ASSUME QueryTypeOK, NEW outcome \in Outcomes, NEW r \in ReplyType
    PROVE  /\ Over(outcome, r) \in ThreadType
           /\ Over(outcome, r).stage = "over" /\ Over(outcome, r).own # "open"
           /\ Over(outcome, r).result = outcome /\ Over(outcome, r).reply = r
           /\ Over(outcome, r).call = me.call /\ Over(outcome, r).number = me.number
           /\ Over(outcome, r).secure = me.secure /\ Over(outcome, r).expiration = me.expiration
           /\ ~Over(outcome, r).waits
BY DEF QueryTypeOK, ThreadType, Over, Left, Stages

(* The thread in the next state is one that the invariant allows.          *)
Allowed == me' \in ThreadType /\ StageOK' /\ OnlyItsAnswer'

(* A call that is over, with a result it may have.                         *)
LEMMA OverAllowed ==
    ASSUME QInv, NEW outcome \in Outcomes, NEW r \in ReplyType, clock' = clock,
           me' = Over(outcome, r),
           outcome = "Timeout" => clock >= me.expiration,
           outcome = "answer" =>
              /\ r.id = me.number /\ r.form = "whole" /\ r.sig # "bad"
              /\ Datagrams => r.from = "server"
              /\ me.stage \in {"send", "datagram", "length", "body"}
    PROVE  Allowed
<1>1. /\ me' \in ThreadType /\ me'.stage = "over" /\ me'.own # "open" /\ me'.result = outcome
      /\ me'.reply = r /\ me'.call = me.call /\ me'.number = me.number
      /\ me'.secure = me.secure /\ me'.expiration = me.expiration /\ ~me'.waits
  BY OverKeeps DEF QInv
<1>2. StageOK'
  BY <1>1 DEF StageOK, Datagrams, WaitOK
<1>3. OnlyItsAnswer'
  BY <1>1 DEF OnlyItsAnswer, QInv, StageOK, Datagrams
<1> QED
  BY <1>1, <1>2, <1>3 DEF Allowed

LEMMA FailedAllowed ==
    ASSUME QInv, NEW error \in Outcomes \ {"answer"}, clock' = clock, me' = Failed(error),
           error = "Timeout" => clock >= me.expiration
    PROVE  Allowed
BY OverAllowed, GarbageType DEF Failed

LEMMA LimitFits ==
    ASSUME QueryTypeOK, NEW expiration \in Nat
    PROVE  /\ MaybeWaitFor(expiration) \in Nat
           /\ MaybeWaitFor(expiration) >= expiration \/ clock >= expiration
BY NeverType DEF MaybeWaitFor, QueryTypeOK

LEMMA WaitForCases ==
    ASSUME QInv
    PROVE  \/ WaitFor = Failed("Timeout") /\ clock >= me.expiration
           \/ /\ WaitFor \in ThreadType /\ WaitOK(WaitFor) /\ WaitFor.call = me.call
              /\ WaitFor.stage = me.stage /\ WaitFor.secure = me.secure
<1> DEFINE waiting(limit) == [me EXCEPT !.waits = TRUE, !.limit = limit]
           Fine(wait) == /\ wait \in ThreadType /\ WaitOK(wait) /\ wait.call = me.call
                         /\ wait.stage = me.stage /\ wait.secure = me.secure
<1>1. me \in ThreadType /\ clock \in Nat /\ me.expiration \in Nat /\ WaitOK(me) /\ QueryTypeOK
  BY DEF QInv, QueryTypeOK, StageOK, ThreadType
<1>2. ASSUME NEW limit \in Nat, limit >= me.expiration \/ clock >= me.expiration
      PROVE  Fine(waiting(limit))
  BY <1>1, <1>2 DEF WaitOK, ThreadType
<1>3. \/ WaitFor = me \/ WaitFor = waiting(MaybeWaitFor(me.expiration))
      \/ WaitFor = Failed("Timeout") /\ clock >= me.expiration
      \/ WaitFor = waiting(me.expiration)
  BY DEF WaitFor
<1> HIDE DEF waiting
<1>4. Fine(waiting(MaybeWaitFor(me.expiration)))
  <2> DEFINE limit == MaybeWaitFor(me.expiration)
  <2>1. limit \in Nat /\ (limit >= me.expiration \/ clock >= me.expiration)
    BY <1>1, LimitFits
  <2> HIDE DEF limit, Fine
  <2>2. Fine(waiting(limit))
    BY <2>1, <1>2
  <2> QED
    BY <2>2 DEF limit
<1>5. Fine(waiting(me.expiration))
  <2> HIDE DEF Fine
  <2>1. me.expiration >= me.expiration
    BY <1>1
  <2> QED
    BY <1>1, <1>2, <2>1
<1>6. Fine(me)
  BY <1>1
<1>7. CASE WaitFor = me
  BY <1>6, <1>7
<1>8. CASE WaitFor = waiting(MaybeWaitFor(me.expiration))
  BY <1>4, <1>8
<1>9. CASE WaitFor = waiting(me.expiration)
  BY <1>5, <1>9
<1> QED
  BY <1>3, <1>7, <1>8, <1>9

(* A call that goes on, with nothing it has ended.                         *)
LEMMA GoesOnAllowed ==
    ASSUME QInv, clock' = clock, me' \in ThreadType, me'.call = me.call, me'.stage # "over",
           Datagrams => me'.stage \in {"begin", "bind", "send", "datagram"},
           me'.stage \in {"send", "datagram", "length", "body"} =>
              me'.secure \/ ~Encrypted(me.call) \/ me.call.async,
           WaitOK(me')
    PROVE  Allowed
BY DEF Allowed, StageOK, OnlyItsAnswer, Datagrams, Encrypted, WaitOK

LEMMA WaitForAllowed ==
    ASSUME QInv, clock' = clock, me' = WaitFor, me.stage # "over"
    PROVE  Allowed
<1>1. CASE WaitFor = Failed("Timeout") /\ clock >= me.expiration
  BY <1>1, FailedAllowed DEF Outcomes
<1>2. CASE /\ WaitFor \in ThreadType /\ WaitOK(WaitFor) /\ WaitFor.call = me.call
           /\ WaitFor.stage = me.stage /\ WaitFor.secure = me.secure
  BY <1>2, GoesOnAllowed DEF QInv, StageOK, Datagrams, Encrypted
<1> QED
  BY <1>1, <1>2, WaitForCases

-----------------------------------------------------------------------------
(* One lemma for each step of the call.                                    *)

LEMMA BeginsAllowed ==
    ASSUME QInv, NEW error \in {"none", "ValueError"}, Begins(error), clock' = clock
    PROVE  Allowed /\ arrived' \in Seq(Unit)
<1>1. arrived' \in Seq(Unit)
  BY EmptySeq DEF Begins, network, QInv, QueryTypeOK
<1>2. CASE error # "none"
  <2>1. error = "ValueError" /\ me' = Failed("ValueError")
    BY <1>2 DEF Begins
  <2> QED
    BY <1>1, <2>1, FailedAllowed DEF Outcomes
<1>3. CASE error = "none"
  <2>1. me.stage = "begin" /\ me.call.timeout \in Nat /\ me.call.async \in BOOLEAN
    BY DEF Begins, At, QInv, QueryTypeOK, ThreadType, CallType
  <2> DEFINE stage == IF me.call.given THEN "send" ELSE "bind"
             expires == IF me.call.timeout = Never THEN Never ELSE clock + me.call.timeout
             waits == me.call.async /\ ~me.call.given
             limit == MaybeWaitFor(expires)
             size == IF Datagrams THEN 1 ELSE 2
  <2>2. me' = [me EXCEPT !.stage = stage, !.expiration = expires, !.waits = waits,
                         !.limit = limit, !.unsent = size]
    BY <1>3 DEF Begins
  <2>3. expires \in Nat /\ size \in Int /\ stage \in Stages /\ waits \in BOOLEAN
    BY <2>1, NeverType DEF QInv, QueryTypeOK, Stages
  <2> HIDE DEF expires
  <2>4. limit \in Nat /\ (limit >= expires \/ clock >= expires)
    BY <2>3, LimitFits DEF QInv
  <2> HIDE DEF stage, limit, size, waits
  <2>5. /\ me' \in ThreadType /\ me'.call = me.call /\ me'.stage = stage
        /\ me'.limit = limit /\ me'.expiration = expires
    BY <2>2, <2>3, <2>4 DEF QInv, QueryTypeOK, ThreadType
  <2>6. WaitOK(me')
    BY <2>4, <2>5 DEF WaitOK
  <2> QED
    BY <1>1, <2>5, <2>6, GoesOnAllowed DEF Encrypted, stage
<1> QED
  BY <1>2, <1>3

LEMMA MakeSocketAllowed ==
    ASSUME QInv, MakeSocket, clock' = clock
    PROVE  Allowed
<1>1. me.stage = "bind"
  BY DEF MakeSocket, At
<1>2. CASE me' = [Failed("OSError") EXCEPT !.own = "closed"]
  <2> DEFINE over == Failed("OSError")
  <2>1. /\ over \in ThreadType /\ over.stage = "over" /\ over.call = me.call /\ over.result = "OSError"
        /\ ~over.waits
    BY OverKeeps, GarbageType DEF QInv, Failed, Outcomes
  <2> HIDE DEF over
  <2>2. /\ me' \in ThreadType /\ me'.stage = "over" /\ me'.call = me.call /\ me'.result = "OSError"
        /\ me'.own = "closed" /\ ~me'.waits
    BY <1>2, <2>1 DEF ThreadType, over
  <2> QED
    BY <2>2 DEF Allowed, StageOK, OnlyItsAnswer, Datagrams, WaitOK
<1>3. CASE me' = [me EXCEPT !.stage = IF Datagrams THEN "send" ELSE "connect", !.own = "open"]
  <2>1. /\ me' \in ThreadType /\ me'.call = me.call
        /\ me'.stage = IF Datagrams THEN "send" ELSE "connect"
        /\ me'.waits = me.waits /\ me'.limit = me.limit /\ me'.expiration = me.expiration
    BY <1>3 DEF QInv, QueryTypeOK, ThreadType, Stages
  <2>2. WaitOK(me')
    BY <2>1 DEF WaitOK, QInv, StageOK
  <2> QED
    BY <2>1, <2>2, GoesOnAllowed DEF Datagrams, Encrypted
<1> QED
  BY <1>2, <1>3 DEF MakeSocket

LEMMA ConnectAllowed ==
    ASSUME QInv, Connect, clock' = clock
    PROVE  Allowed
<1>1. me.stage \in {"connect", "connecting"} /\ ~Datagrams
  BY DEF Connect, At, QInv, StageOK
<1>2. CASE me' = Failed("OSError")
  BY <1>2, FailedAllowed DEF Outcomes
<1>3. CASE me' = [me EXCEPT !.stage = IF Encrypted(me.call) THEN "handshake" ELSE "send",
                             !.waits = @ /\ Encrypted(me.call)]
  <2> DEFINE waits == me.waits /\ Encrypted(me.call)
             stage == IF Encrypted(me.call) THEN "handshake" ELSE "send"
  <2>1. waits \in BOOLEAN /\ stage \in Stages /\ me' = [me EXCEPT !.stage = stage, !.waits = waits]
    BY <1>3 DEF QInv, QueryTypeOK, ThreadType, Stages
  <2> HIDE DEF waits, stage
  <2>2. /\ me' \in ThreadType /\ me'.call = me.call /\ me'.stage = stage
        /\ me'.waits = waits /\ me'.limit = me.limit /\ me'.expiration = me.expiration
    BY <2>1 DEF QInv, QueryTypeOK, ThreadType
  <2>3. WaitOK(me')
    BY <2>2 DEF WaitOK, QInv, StageOK, waits
  <2> QED
    BY <1>1, <2>2, <2>3, GoesOnAllowed DEF stage
<1>4. CASE me' = [WaitFor EXCEPT !.stage = IF @ = "over" THEN @ ELSE "connecting"]
  <2>1. CASE WaitFor = Failed("Timeout") /\ clock >= me.expiration
    <3>1. WaitFor \in ThreadType /\ WaitFor.stage = "over"
      BY <2>1, OverKeeps, GarbageType DEF QInv, Failed, Outcomes
    <3>2. me' = WaitFor
      BY <1>4, <3>1 DEF ThreadType
    <3> QED
      BY <2>1, <3>2, FailedAllowed DEF Outcomes
  <2>2. CASE /\ WaitFor \in ThreadType /\ WaitOK(WaitFor) /\ WaitFor.call = me.call
             /\ WaitFor.stage = me.stage /\ WaitFor.secure = me.secure
    <3> DEFINE wait == WaitFor
    <3>1. wait \in ThreadType /\ wait.stage # "over" /\ WaitOK(wait) /\ wait.call = me.call
      BY <1>1, <2>2
    <3>2. me' = [wait EXCEPT !.stage = "connecting"]
      BY <1>4, <3>1 DEF ThreadType
    <3> HIDE DEF wait
    <3>3. /\ me' \in ThreadType /\ me'.call = me.call /\ me'.stage = "connecting"
          /\ me'.waits = wait.waits /\ me'.limit = wait.limit /\ me'.expiration = wait.expiration
      BY <3>1, <3>2 DEF ThreadType, Stages
    <3>4. WaitOK(me')
      BY <3>1, <3>3 DEF WaitOK
    <3> QED
      BY <1>1, <3>3, <3>4, GoesOnAllowed
  <2> QED
    BY <2>1, <2>2, WaitForCases
<1> QED
  BY <1>2, <1>3, <1>4 DEF Connect

LEMMA TlsHandshakeAllowed ==
    ASSUME QInv, TlsHandshake, clock' = clock
    PROVE  Allowed
<1>1. me.stage = "handshake" /\ ~Datagrams
  BY DEF TlsHandshake, At, QInv, StageOK
<1>2. CASE me' = WaitFor
  BY <1>1, <1>2, WaitForAllowed
<1>3. CASE me' = Failed("SSLError") \/ me' = Failed("OSError")
  BY <1>3, FailedAllowed DEF Outcomes
<1>4. CASE me' = [me EXCEPT !.stage = "send", !.secure = TRUE, !.waits = FALSE]
  <2>1. me' \in ThreadType /\ me'.call = me.call /\ me'.stage = "send" /\ me'.secure /\ ~me'.waits
    BY <1>4 DEF QInv, QueryTypeOK, ThreadType, Stages
  <2> QED
    BY <1>1, <2>1, GoesOnAllowed DEF WaitOK
<1> QED
  BY <1>2, <1>3, <1>4 DEF TlsHandshake

LEMMA SendingAllowed ==
    ASSUME QInv, NEW n \in Int, me' = Sending(n), me.stage = "send", clock' = clock
    PROVE  Allowed
<1> DEFINE stage == IF n < me.unsent THEN "send" ELSE IF Datagrams THEN "datagram" ELSE "length"
<1>1. me' = [me EXCEPT !.unsent = @ - n, !.waits = FALSE, !.stage = stage] /\ stage \in Stages
  BY DEF Sending, Stages
<1>2. me.unsent - n \in Int
  BY DEF QInv, QueryTypeOK, ThreadType
<1> HIDE DEF stage
<1>3. /\ me' \in ThreadType /\ me'.call = me.call /\ me'.secure = me.secure /\ me'.stage = stage
      /\ ~me'.waits
  BY <1>1, <1>2 DEF QInv, QueryTypeOK, ThreadType
<1> QED
  BY <1>3, GoesOnAllowed DEF QInv, StageOK, Encrypted, WaitOK, stage

LEMMA WriteAllowed ==
    ASSUME QInv, UdpSend \/ NetWrite, clock' = clock
    PROVE  Allowed
<1>1. me.stage = "send" /\ me.unsent \in Int
  BY DEF UdpSend, NetWrite, At, QInv, QueryTypeOK, ThreadType
<1>2. me' = WaitFor \/ me' = Failed("OSError") \/ \E n \in Int : me' = Sending(n)
  BY <1>1 DEF UdpSend, NetWrite
<1>3. CASE me' = Failed("OSError")
  BY <1>3, FailedAllowed DEF Outcomes
<1> QED
  BY <1>1, <1>2, <1>3, WaitForAllowed, SendingAllowed

-----------------------------------------------------------------------------
(* What is read.                                                           *)

LEMMA StayAllowed ==
    ASSUME QInv, me' = me, clock' \in Nat, clock' >= clock
    PROVE  Allowed
<1>1. clock \in Nat /\ me.limit \in Nat /\ me.expiration \in Nat
  BY DEF QInv, QueryTypeOK, ThreadType
<1>2. WaitOK(me)'
  BY <1>1 DEF QInv, StageOK, WaitOK
<1> QED
  BY <1>1, <1>2 DEF Allowed, QInv, QueryTypeOK, StageOK, OnlyItsAnswer, Datagrams

LEMMA FellBackAllowed ==
    ASSUME QInv, me' = FellBack
    PROVE  Allowed
<1> DEFINE call == [me.call EXCEPT !.transport = "tcp", !.given = FALSE]
           asked == Asked(call, me.number)
<1>1. call \in CallType /\ me.number \in Nat
  BY DEF QInv, QueryTypeOK, ThreadType, CallType
<1>2. asked \in ThreadType
  BY <1>1, AskedType
<1>3. asked.stage = "begin" /\ asked.call = call /\ ~asked.waits
  BY DEF Asked
<1>4. me' = [asked EXCEPT !.own = Left(me.own)] /\ Left(me.own) \in {"none", "closed"}
  BY DEF FellBack, Left, QInv, QueryTypeOK, ThreadType
<1> HIDE DEF call, asked
<1>5. me' \in ThreadType /\ me'.stage = "begin" /\ me'.call = call /\ ~me'.waits
  BY <1>2, <1>3, <1>4 DEF ThreadType
<1>6. call.transport = "tcp"
  BY DEF call, QInv, QueryTypeOK, ThreadType, CallType
<1> QED
  BY <1>5, <1>6 DEF Allowed, StageOK, OnlyItsAnswer, Datagrams, WaitOK

LEMMA SettledAllowed ==
    ASSUME QInv, NEW r \in ReplyType, me' = Settled(r), clock' = clock,
           me.stage \in {"datagram", "body"}, Datagrams => r.from = "server"
    PROVE  Allowed
<1>1. CASE Judged(r) = "Truncated"
  BY <1>1, FellBackAllowed DEF Settled
<1>2. CASE Judged(r) # "Truncated"
  <2>1. Judged(r) \in Outcomes /\ Judged(r) # "Timeout"
    BY DEF Judged, Outcomes
  <2>2. Judged(r) = "answer" => r.id = me.number /\ r.form = "whole" /\ r.sig # "bad"
    BY DEF Judged, ReplyType
  <2>3. me' = Over(Judged(r), r)
    BY <1>2 DEF Settled
  <2> QED
    BY <2>1, <2>2, <2>3, OverAllowed
<1> QED
  BY <1>1, <1>2

LEMMA ReceiveUdpAllowed ==
    ASSUME QInv, ReceiveUdp, clock' = clock
    PROVE  Allowed /\ arrived' \in Seq(Unit)
<1>1. me.stage = "datagram" /\ arrived \in Seq(Unit) /\ clock \in Nat
  BY DEF ReceiveUdp, At, QInv, QueryTypeOK
<1>2. CASE me' = WaitFor /\ UNCHANGED network
  BY <1>1, <1>2, WaitForAllowed DEF network
<1>4. CASE me' = Failed("OSError") /\ UNCHANGED network
  BY <1>1, <1>4, FailedAllowed DEF network, Outcomes
<1>3. CASE /\ arrived # <<>> /\ arrived' = Tail(arrived)
           /\ LET r == Head(arrived).reply
              IN  me' = IF r.from = "server" THEN Settled(r)
                        ELSE IF me.call.ignoreUnexpected THEN me ELSE Over("UnexpectedSource", r)
  <2> DEFINE r == Head(arrived).reply
  <2>1. r \in ReplyType /\ arrived' \in Seq(Unit)
    <3>1. Head(arrived) \in Unit /\ Tail(arrived) \in Seq(Unit)
      BY <1>1, <1>3, HeadTailProperties
    <3> QED
      BY <1>3, <3>1 DEF Unit
  <2>2. me' = IF r.from = "server" THEN Settled(r)
              ELSE IF me.call.ignoreUnexpected THEN me ELSE Over("UnexpectedSource", r)
    BY <1>3
  <2> HIDE DEF r
  <2>3. CASE r.from = "server"
    BY <1>1, <2>1, <2>2, <2>3, SettledAllowed
  <2>4. CASE me' = me
    BY <1>1, <2>1, <2>4, StayAllowed
  <2>5. CASE me' = Over("UnexpectedSource", r)
    BY <2>1, <2>5, OverAllowed DEF Outcomes
  <2> QED
    BY <2>2, <2>3, <2>4, <2>5
<1> QED
  BY <1>2, <1>3, <1>4 DEF ReceiveUdp

LEMMA NetReadAllowed ==
    ASSUME QInv, NetRead, clock' = clock
    PROVE  Allowed /\ arrived' \in Seq(Unit)
<1>1. /\ me.stage \in {"length", "body"} /\ arrived \in Seq(Unit) /\ me.got \in Seq(Unit)
      /\ me.wanted \in Int
  <2>1. At("length") \/ At("body")
    BY DEF NetRead
  <2> QED
    BY <2>1 DEF At, QInv, QueryTypeOK, ThreadType
<1>2. CASE me' = WaitFor /\ UNCHANGED network
  BY <1>1, <1>2, WaitForAllowed DEF network
<1>3. CASE (me' = Failed("EOFError") \/ me' = Failed("OSError")) /\ UNCHANGED network
  BY <1>1, <1>3, FailedAllowed DEF network, Outcomes
<1>4. ASSUME NEW n \in 1..me.wanted - Len(me.got), n <= Len(arrived),
             me' = [me EXCEPT !.got = @ \o SubSeq(arrived, 1, n), !.waits = FALSE],
             arrived' = SubSeq(arrived, n + 1, Len(arrived))
      PROVE  Allowed /\ arrived' \in Seq(Unit)
  <2>1. Len(arrived) \in Nat /\ n \in Int /\ Len(me.got) \in Nat /\ n >= 1
    BY <1>1, <1>4, LenProperties
  <2>2. \A i \in 1..Len(arrived) : arrived[i] \in Unit
    BY <1>1, ElementOfSeq
  <2>3. SubSeq(arrived, 1, n) \in Seq(Unit)
    <3>1. \A i \in 1..n : arrived[i] \in Unit
      BY <1>4, <2>1, <2>2
    <3> QED
      BY <2>1, <3>1, SubSeqProperties
  <2>4. arrived' \in Seq(Unit)
    <3>1. \A i \in n + 1..Len(arrived) : arrived[i] \in Unit
      BY <2>1, <2>2
    <3>2. n + 1 \in Int /\ Len(arrived) \in Int
      BY <2>1
    <3>3. SubSeq(arrived, n + 1, Len(arrived)) \in Seq(Unit)
      BY <3>1, <3>2, SubSeqProperties
    <3> QED
      BY <1>4, <3>3
  <2>5. me.got \o SubSeq(arrived, 1, n) \in Seq(Unit)
    BY <1>1, <2>3, ConcatProperties
  <2>6. /\ me' \in ThreadType /\ me'.call = me.call /\ me'.stage = me.stage /\ me'.secure = me.secure
        /\ ~me'.waits
    BY <1>4, <2>5 DEF QInv, QueryTypeOK, ThreadType
  <2> QED
    BY <1>1, <2>4, <2>6, GoesOnAllowed DEF QInv, StageOK, Encrypted, Datagrams, WaitOK
<1> QED
  BY <1>2, <1>3, <1>4 DEF NetRead

LEMMA ReceiveTcpAllowed ==
    ASSUME QInv, ReceiveTcp, clock' = clock
    PROVE  Allowed /\ arrived' \in Seq(Unit)
<1>1. arrived' \in Seq(Unit)
  BY DEF ReceiveTcp, network, QInv, QueryTypeOK
<1>2. ASSUME At("length"), NEW size \in Int,
             me' = [me EXCEPT !.stage = "body", !.wanted = size, !.got = <<>>]
      PROVE  Allowed
  <2>1. <<>> \in Seq(Unit)
    BY EmptySeq
  <2>2. /\ me' \in ThreadType /\ me'.call = me.call /\ me'.stage = "body" /\ me'.secure = me.secure
        /\ me'.waits = me.waits /\ me'.limit = me.limit /\ me'.expiration = me.expiration
    BY <1>2, <2>1 DEF QInv, QueryTypeOK, ThreadType, Stages
  <2>3. WaitOK(me')
    BY <2>2 DEF QInv, StageOK, WaitOK
  <2> QED
    BY <1>2, <2>2, <2>3, GoesOnAllowed DEF QInv, StageOK, Encrypted, At
<1>3. ASSUME me' = Failed("FormError")
      PROVE  Allowed
  BY <1>3, FailedAllowed DEF Outcomes
<1>4. ASSUME At("body"), NEW r \in Replies, me.got = BodyOf(r), me' = Settled(me.got[1].reply)
      PROVE  Allowed
  <2>1. r \in ReplyType /\ me' = Settled(r)
    BY <1>4, QueryAssumption, FrameType
  <2>2. me.stage = "body" /\ ~Datagrams
    BY <1>4 DEF At, QInv, StageOK
  <2> QED
    BY <2>1, <2>2, SettledAllowed
<1>5. (IF \E r \in Replies : me.got = LengthOf(r) THEN {Body} ELSE 0..Body + 1) \subseteq Int
  BY BodyType
<1> QED
  BY <1>1, <1>2, <1>3, <1>4, <1>5 DEF ReceiveTcp

LEMMA OtherStepsAllowed ==
    ASSUME QInv, Ready \/ Expires \/ NextCall, clock' = clock
    PROVE  Allowed /\ arrived' \in Seq(Unit)
<1>1. arrived' \in Seq(Unit)
  <2>1. arrived' = arrived
    BY DEF Ready, Expires, NextCall, network
  <2> QED
    BY <2>1 DEF QInv, QueryTypeOK
<1>2. CASE Ready
  <2>1. me' = [me EXCEPT !.waits = FALSE]
    BY <1>2 DEF Ready
  <2>2. /\ me' \in ThreadType /\ me'.call = me.call /\ me'.stage = me.stage /\ me'.own = me.own
        /\ me'.secure = me.secure /\ me'.result = me.result /\ me'.reply = me.reply
        /\ me'.number = me.number /\ me'.expiration = me.expiration /\ ~me'.waits
    BY <2>1 DEF QInv, QueryTypeOK, ThreadType
  <2> QED
    BY <1>1, <2>2 DEF Allowed, QInv, StageOK, OnlyItsAnswer, Datagrams, WaitOK
<1>3. CASE Expires
  <2>1. me' = Failed("Timeout") /\ me.waits /\ clock >= me.limit
    BY <1>3 DEF Expires
  <2>2. clock \in Nat /\ me.limit \in Nat /\ me.expiration \in Nat
    BY DEF QInv, QueryTypeOK, ThreadType
  <2>3. clock >= me.expiration
    BY <2>1, <2>2 DEF QInv, StageOK, WaitOK
  <2> QED
    BY <1>1, <2>1, <2>3, FailedAllowed DEF Outcomes
<1>4. CASE NextCall
  <2>1. me.call \in CallType /\ me.number + 1 \in Nat /\ me' = Asked(me.call, me.number + 1)
    BY <1>4 DEF NextCall, QInv, QueryTypeOK, ThreadType
  <2>2. me' \in ThreadType /\ me'.stage = "begin" /\ me'.call = me.call /\ ~me'.waits
    BY <2>1, AskedType DEF Asked
  <2> QED
    BY <1>1, <2>2, GoesOnAllowed DEF WaitOK
<1> QED
  BY <1>1, <1>2, <1>3, <1>4

LEMMA NetworkKeeps ==
    ASSUME QInv, Network
    PROVE  QInv'
<1>1. me' = me /\ clock' = clock /\ arrived \in Seq(Unit) /\ clock \in Nat
  BY DEF Network, QInv, QueryTypeOK
<1>2. arrived' \in Seq(Unit)
  <2>1. CASE arrived' = arrived
    BY <1>1, <2>1
  <2>2. ASSUME NEW r \in Replies, arrived' = arrived \o IF Datagrams THEN <<Frame(r)[1]>> ELSE Frame(r)
        PROVE  arrived' \in Seq(Unit)
    <3>1. Frame(r) \in Seq(Unit) /\ Len(Frame(r)) = 4
      BY QueryAssumption, FrameType
    <3>2. Frame(r)[1] \in Unit
      BY <3>1, ElementOfSeq, 1 \in 1..4
    <3>3. <<Frame(r)[1]>> \in Seq(Unit)
      BY <3>2
    <3> QED
      BY <1>1, <2>2, <3>1, <3>3, ConcatProperties
  <2> QED
    BY <2>1, <2>2 DEF Network
<1>3. Allowed
  BY <1>1, StayAllowed
<1> QED
  BY <1>1, <1>2, <1>3 DEF Allowed, QInv, QueryTypeOK

LEMMA CallStepKeeps ==
    ASSUME QInv, CallStep
    PROVE  QInv'
<1>1. clock' = clock /\ clock \in Nat /\ arrived \in Seq(Unit)
  BY DEF CallStep, QInv, QueryTypeOK
<1>2. CASE Udp \/ Tcp \/ Tls \/ AsyncTls
  <2>1. Begins("none") \/ Begins("ValueError")
    BY <1>2 DEF Udp, Tcp, Tls, AsyncTls, StreamError, DestinationAndSource
  <2>2. Allowed /\ arrived' \in Seq(Unit)
    BY <1>1, <2>1, BeginsAllowed
  <2> QED
    BY <1>1, <2>2 DEF Allowed, QInv, QueryTypeOK
<1>3. CASE MakeSocket \/ Connect \/ TlsHandshake \/ UdpSend \/ NetWrite
  <2>1. Allowed
    BY <1>1, <1>3, MakeSocketAllowed, ConnectAllowed, TlsHandshakeAllowed, WriteAllowed
  <2>2. arrived' = arrived
    BY <1>3 DEF MakeSocket, Connect, TlsHandshake, UdpSend, NetWrite, network
  <2> QED
    BY <1>1, <2>1, <2>2 DEF Allowed, QInv, QueryTypeOK
<1>4. CASE ReceiveUdp \/ NetRead \/ ReceiveTcp \/ Ready \/ Expires \/ NextCall
  <2>1. Allowed /\ arrived' \in Seq(Unit)
    BY <1>1, <1>4, ReceiveUdpAllowed, NetReadAllowed, ReceiveTcpAllowed, OtherStepsAllowed
  <2> QED
    BY <1>1, <2>1 DEF Allowed, QInv, QueryTypeOK
<1> QED
  BY <1>2, <1>3, <1>4 DEF CallStep

LEMMA QueryStarts == QueryInit => QInv
<1> SUFFICES ASSUME QueryInit PROVE QInv
  OBVIOUS
<1>1. PICK call \in Calls : me = Asked(call, 1)
  BY DEF QueryInit
<1>2. me \in ThreadType /\ me.stage = "begin" /\ ~me.waits
  BY <1>1, QueryAssumption, AskedType DEF Asked
<1>3. arrived \in Seq(Unit) /\ clock \in Nat
  BY EmptySeq DEF QueryInit
<1> QED
  BY <1>2, <1>3 DEF QInv, QueryTypeOK, StageOK, OnlyItsAnswer, WaitOK

LEMMA QueryKeeps == QInv /\ [QueryNext]_queryVars => QInv'
<1> SUFFICES ASSUME QInv, [QueryNext]_queryVars PROVE QInv'
  OBVIOUS
<1>1. CASE CallStep
  BY <1>1, CallStepKeeps
<1>2. CASE Network
  BY <1>2, NetworkKeeps
<1>3. CASE Tick \/ UNCHANGED queryVars
  <2>1. me' = me /\ arrived' = arrived /\ clock \in Nat /\ (clock' = clock + 1 \/ clock' = clock)
    BY <1>3 DEF Tick, queryVars, network, QInv, QueryTypeOK
  <2>2. clock' \in Nat /\ clock' >= clock
    BY <2>1
  <2>3. Allowed
    BY <2>1, <2>2, StayAllowed
  <2> QED
    BY <2>1, <2>2, <2>3 DEF Allowed, QInv, QueryTypeOK
<1> QED
  BY <1>1, <1>2, <1>3 DEF QueryNext

(* A call of dns.query, over any transport and whatever arrives, returns   *)
(* only an answer to it, as OnlyItsAnswer says, for every set of calls and *)
(* replies and any number of them (query.py: udp, tcp, tls and the rest).  *)
THEOREM CallGetsItsAnswer == QuerySpec => []OnlyItsAnswer
<1>1. QInv => OnlyItsAnswer
  BY DEF QInv
<1> QED
  BY <1>1, QueryStarts, QueryKeeps, PTL DEF QuerySpec

-----------------------------------------------------------------------------
(* DNS over QUIC with dns.quic._asyncio: what is on its way to a user.       *)

Whole == 2 + Size
Piece == Users \X (1..Whole)

Event ==
    [kind : {"handshake", "terminated"}]
        \cup [kind : {"data"}, stream : Users, end : BOOLEAN, units : Seq(Piece)]

Before  == {"connect", "make", "elsewhere", "send"}
Reading == {"check", "enter", "asleep", "woken"}
After   == {"exit", "over"}

UserType ==
    [at : Before \cup Reading \cup After, need : {1, 2}, body : BOOLEAN, expecting : Nat,
     buffer : Seq(Piece), end : BOOLEAN, ranOut : BOOLEAN, rest : Seq(Piece),
     result : Seq(Piece), eof : BOOLEAN]

QuicTypeOK ==
    /\ user \in [Users -> UserType] /\ queue \in Seq(Event)
    /\ fed \in [Users -> 0..Whole] /\ cut \in [Users -> BOOLEAN]
    /\ worker.at # "store" /\ (worker.at = "notify" => worker.stream \in Users)

(* The data events of u in the queue q take what has arrived of its reply    *)
(* from unit `from` to unit `to`, one after the other, and none is behind an *)
(* end.                                                                      *)
Mine(e, u) == e.kind = "data" /\ e.stream = u
NoneOf(q, u) == \A j \in 1..Len(q) : ~Mine(q[j], u)

Link(e, u, a, b) ==
    IF Mine(e, u) THEN b = a + Len(e.units) /\ \A i \in 1..Len(e.units) : e.units[i] = <<u, a + i>>
    ELSE b = a

LastOf(q, u, j, place, to, isEnd) ==
    Mine(q[j], u) /\ q[j].end =>
        isEnd /\ place = to /\ \A k \in 1..Len(q) : k > j => ~Mine(q[k], u)

Path(q, u, pos, to, isEnd) ==
    \A j \in 1..Len(q) : Link(q[j], u, pos[j], pos[j + 1]) /\ LastOf(q, u, j, pos[j + 1], to, isEnd)

Follows(q, u, from, to, isEnd) ==
    \E pos \in [1..(Len(q) + 1) -> Nat] :
        pos[1] = from /\ pos[Len(q) + 1] = to /\ Path(q, u, pos, to, isEnd)

LEMMA FollowsTail ==
    ASSUME NEW q \in Seq(Event), q # <<>>, NEW u \in Users, NEW a \in Nat, NEW c \in Nat, NEW isEnd,
           Follows(q, u, a, c, isEnd)
    PROVE  \E b \in Nat : /\ Link(Head(q), u, a, b) /\ Follows(Tail(q), u, b, c, isEnd)
                          /\ Mine(Head(q), u) /\ Head(q).end => isEnd /\ b = c /\ NoneOf(Tail(q), u)
<1> DEFINE n == Len(q)
           t == Tail(q)
<1>1. n \in Nat /\ n > 0 /\ Len(t) = n - 1 /\ Head(q) = q[1] /\ \A j \in 1..(n - 1) : t[j] = q[j + 1]
  BY HeadTailProperties, LenProperties, EmptySeq
<1>2. PICK pos \in [1..(n + 1) -> Nat] : pos[1] = a /\ pos[n + 1] = c /\ Path(q, u, pos, c, isEnd)
  BY DEF Follows
<1> DEFINE new == [j \in 1..n |-> pos[j + 1]]
<1>3. new \in [1..n -> Nat] /\ \A j \in 1..n : new[j] = pos[j + 1]
  <2>1. \A j \in 1..n : j + 1 \in 1..(n + 1)
    BY <1>1
  <2> QED
    BY <2>1
<1> HIDE DEF n, t, new
<1>4. new \in [1..(Len(t) + 1) -> Nat] /\ new[1] = pos[2] /\ new[Len(t) + 1] = c
  <2>1. Len(t) + 1 = n /\ 1 \in 1..n /\ n \in 1..n
    BY <1>1
  <2> QED
    BY <2>1, <1>2, <1>3
<1>5. \A j \in 1..n : Link(q[j], u, pos[j], pos[j + 1]) /\ LastOf(q, u, j, pos[j + 1], c, isEnd)
  BY <1>2 DEF Path, n
<1>6. ASSUME NEW j \in 1..(n - 1)
      PROVE  Link(t[j], u, new[j], new[j + 1]) /\ LastOf(t, u, j, new[j + 1], c, isEnd)
  <2>1. j + 1 \in 1..n /\ j \in 1..n /\ j + 1 + 1 = j + 2
    BY <1>1
  <2>2. t[j] = q[j + 1] /\ new[j] = pos[j + 1] /\ new[j + 1] = pos[j + 2]
    BY <1>1, <1>3, <2>1
  <2>3. Link(q[j + 1], u, pos[j + 1], pos[j + 2]) /\ LastOf(q, u, j + 1, pos[j + 2], c, isEnd)
    BY <1>5, <2>1
  <2>4. LastOf(t, u, j, new[j + 1], c, isEnd)
    <3>1. SUFFICES ASSUME Mine(t[j], u), t[j].end
                   PROVE  isEnd /\ new[j + 1] = c /\ \A k \in 1..Len(t) : k > j => ~Mine(t[k], u)
      BY DEF LastOf
    <3>2. isEnd /\ pos[j + 2] = c /\ \A k \in 1..n : k > j + 1 => ~Mine(q[k], u)
      BY <2>2, <2>3, <3>1 DEF LastOf, n
    <3>3. ASSUME NEW k \in 1..Len(t), k > j
          PROVE  ~Mine(t[k], u)
      <4>1. k \in 1..(n - 1) /\ k + 1 \in 1..n /\ k + 1 > j + 1
        BY <1>1, <3>3
      <4> QED
        BY <3>2, <4>1, <1>1
    <3> QED
      BY <2>2, <3>2, <3>3
  <2> QED
    BY <2>2, <2>3, <2>4
<1>7. Path(t, u, new, c, isEnd)
  <2>1. 1..Len(t) = 1..(n - 1)
    BY <1>1
  <2> QED
    BY <1>6, <2>1 DEF Path
<1>8. Follows(t, u, pos[2], c, isEnd)
  BY <1>4, <1>7 DEF Follows
<1>9. 1 \in 1..n /\ 1 + 1 = 2 /\ 2 \in 1..(n + 1)
  BY <1>1
<1>10. Link(Head(q), u, a, pos[2])
  BY <1>1, <1>2, <1>5, <1>9
<1>11. ASSUME Mine(Head(q), u), Head(q).end
       PROVE  isEnd /\ pos[2] = c /\ NoneOf(t, u)
  <2>1. isEnd /\ pos[2] = c /\ \A k \in 1..n : k > 1 => ~Mine(q[k], u)
    BY <1>1, <1>5, <1>9, <1>11 DEF LastOf, n
  <2>2. ASSUME NEW k \in 1..Len(t)
        PROVE  ~Mine(t[k], u)
    <3>1. k \in 1..(n - 1) /\ k + 1 \in 1..n /\ k + 1 > 1
      BY <1>1
    <3> QED
      BY <1>1, <2>1, <3>1
  <2> QED
    BY <2>1, <2>2 DEF NoneOf
<1>12. pos[2] \in Nat
  BY <1>2, <1>9
<1> QED
  BY <1>8, <1>10, <1>11, <1>12 DEF t

LEMMA FollowsAppend ==
    ASSUME NEW q \in Seq(Event), NEW e \in Event, NEW u \in Users, NEW a \in Nat, NEW b \in Nat, NEW c \in Nat,
           NEW isEnd, NEW ends, Follows(q, u, a, b, isEnd), Link(e, u, b, c),
           Mine(e, u) => ~isEnd /\ (e.end => ends), ~Mine(e, u) => (isEnd => ends)
    PROVE  Follows(Append(q, e), u, a, c, ends)
<1> DEFINE n == Len(q)
           t == Append(q, e)
<1>1. n \in Nat /\ Len(t) = n + 1 /\ t[n + 1] = e /\ \A j \in 1..n : t[j] = q[j]
  BY AppendProperties, LenProperties
<1>2. PICK pos \in [1..(n + 1) -> Nat] : pos[1] = a /\ pos[n + 1] = b /\ Path(q, u, pos, b, isEnd)
  BY DEF Follows
<1> DEFINE new == [j \in 1..(n + 2) |-> IF j = n + 2 THEN c ELSE pos[j]]
<1>3. new \in [1..(n + 2) -> Nat] /\ new[n + 2] = c /\ \A j \in 1..(n + 1) : new[j] = pos[j]
  <2>1. \A j \in 1..(n + 2) : j # n + 2 => j \in 1..(n + 1)
    BY <1>1
  <2>2. n + 2 \in 1..(n + 2) /\ \A j \in 1..(n + 1) : j \in 1..(n + 2) /\ j # n + 2
    BY <1>1
  <2> QED
    BY <2>1, <2>2
<1> HIDE DEF n, t, new
<1>4. new \in [1..(Len(t) + 1) -> Nat] /\ new[1] = a /\ new[Len(t) + 1] = c
  <2>1. Len(t) + 1 = n + 2 /\ 1 \in 1..(n + 1)
    BY <1>1
  <2> QED
    BY <2>1, <1>2, <1>3
<1>5. \A j \in 1..n : Link(q[j], u, pos[j], pos[j + 1]) /\ LastOf(q, u, j, pos[j + 1], b, isEnd)
  BY <1>2 DEF Path, n
<1>6. ASSUME NEW j \in 1..n
      PROVE  Link(t[j], u, new[j], new[j + 1]) /\ LastOf(t, u, j, new[j + 1], c, ends)
  <2>1. j \in 1..(n + 1) /\ j + 1 \in 1..(n + 1)
    BY <1>1
  <2>2. t[j] = q[j] /\ new[j] = pos[j] /\ new[j + 1] = pos[j + 1]
    BY <1>1, <1>3, <2>1
  <2>3. LastOf(t, u, j, new[j + 1], c, ends)
    <3>1. SUFFICES ASSUME Mine(t[j], u), t[j].end
                   PROVE  ends /\ new[j + 1] = c /\ \A k \in 1..Len(t) : k > j => ~Mine(t[k], u)
      BY DEF LastOf
    <3>2. isEnd /\ pos[j + 1] = b /\ \A k \in 1..n : k > j => ~Mine(q[k], u)
      BY <1>5, <2>2, <3>1 DEF LastOf, n
    <3>3. ~Mine(e, u) /\ ends /\ c = b
      BY <3>2 DEF Link
    <3>4. ASSUME NEW k \in 1..Len(t), k > j
          PROVE  ~Mine(t[k], u)
      <4>1. k = n + 1 \/ k \in 1..n
        BY <1>1
      <4> QED
        BY <1>1, <3>2, <3>3, <3>4, <4>1
    <3> QED
      BY <2>2, <3>2, <3>3, <3>4
  <2> QED
    BY <1>5, <2>2, <2>3
<1>7. Link(t[n + 1], u, new[n + 1], new[n + 1 + 1]) /\ LastOf(t, u, n + 1, new[n + 1 + 1], c, ends)
  <2>1. n + 1 + 1 = n + 2 /\ n + 1 \in 1..(n + 1)
    BY <1>1
  <2>2. new[n + 1] = b /\ new[n + 1 + 1] = c /\ t[n + 1] = e
    BY <1>1, <1>2, <1>3, <2>1
  <2>3. ASSUME NEW k \in 1..Len(t), k > n + 1
        PROVE  FALSE
    BY <1>1, <2>3
  <2> QED
    BY <2>2, <2>3 DEF LastOf
<1>8. Path(t, u, new, c, ends)
  <2>1. \A j \in 1..Len(t) : j \in 1..n \/ j = n + 1
    BY <1>1
  <2> QED
    BY <1>6, <1>7, <2>1 DEF Path
<1>9. Follows(t, u, a, c, ends)
  BY <1>4, <1>8 DEF Follows
<1> QED
  BY <1>9 DEF t

LEMMA FollowsNone ==
    ASSUME NEW u \in Users, NEW a \in Nat, NEW isEnd
    PROVE  Follows(<<>>, u, a, a, isEnd)
<1> DEFINE pos == [j \in 1..1 |-> a]
<1>1. pos \in [1..1 -> Nat] /\ pos[1] = a
  OBVIOUS
<1> HIDE DEF pos
<1>2. Path(<<>>, u, pos, a, isEnd)
  BY DEF Path
<1>3. Len(<<>>) + 1 = 1
  OBVIOUS
<1> QED
  BY <1>1, <1>2, <1>3 DEF Follows

-----------------------------------------------------------------------------
(* Where a user's reply is: taken, in its buffer, or in the queue.           *)
Taken(s) == IF s.body THEN 2 ELSE 0
Upto(s)  == Taken(s) + Len(s.buffer)

Buffered(u, s) == \A i \in 1..Len(s.buffer) : s.buffer[i] = <<u, Taken(s) + i>>

Chained(u, s, q, f, c) ==
    /\ ~s.eof /\ Buffered(u, s) /\ Follows(q, u, Upto(s), f, c)
    /\ s.end => c /\ Upto(s) = f /\ NoneOf(q, u)
    /\ s.at \in Before => ~s.body /\ NoneOf(q, u)
    /\ s.at \in Reading => s.need = IF s.body THEN Size ELSE 2

Received(u, s, f, c) ==
    IF s.eof THEN c /\ f < Whole ELSE Len(s.result) = 1 /\ s.result[1] = <<u, 3>>

Fits(u, s, q, f, c) ==
    IF s.at \in After THEN Received(u, s, f, c) ELSE Chained(u, s, q, f, c)

QuicInv ==
    /\ QuicTypeOK
    /\ \A u \in Users : u \in streams <=> user[u].at \in {"send", "exit"} \cup Reading
    /\ \A u \in Users : Fits(u, user[u], queue, fed[u], cut[u])

LEMMA QuicStarts == QuicInit => QuicInv
<1> SUFFICES ASSUME QuicInit
             PROVE  QuicInv
  OBVIOUS
<1>1. Beginning \in UserType
  BY DEF Beginning, UserType, Before
<1>2. QuicTypeOK
  BY <1>1 DEF QuicInit, QuicTypeOK, Idle, Whole, Size
<1>3. ASSUME NEW u \in Users
      PROVE  Fits(u, Beginning, <<>>, 0, FALSE)
  <2>1. Follows(<<>>, u, 0, 0, FALSE)
    BY FollowsNone
  <2>2. Upto(Beginning) = 0 /\ Beginning.at = "connect" /\ ~Beginning.eof /\ ~Beginning.end /\ ~Beginning.body
    BY DEF Upto, Taken, Beginning
  <2>3. Buffered(u, Beginning) /\ NoneOf(<<>>, u)
    BY DEF Buffered, Beginning, NoneOf
  <2> QED
    BY <2>1, <2>2, <2>3 DEF Fits, Chained, After, Reading
<1>4. \A u \in Users : user[u] = Beginning /\ Beginning.at = "connect"
  BY DEF QuicInit, Beginning
<1> QED
  BY <1>2, <1>3, <1>4 DEF QuicInit, QuicInv, Reading

(* A step of one user, which leaves the queue alone.                         *)
LEMMA UserMoves ==
    ASSUME QuicInv, NEW u \in Users, NEW s \in UserType, user' = [user EXCEPT ![u] = s],
           UNCHANGED <<queue, fed, cut, worker>>,
           streams' \in {streams, streams \cup {u}, streams \ {u}},
           u \in streams' <=> s.at \in {"send", "exit"} \cup Reading,
           Fits(u, s, queue, fed[u], cut[u])
    PROVE  QuicInv'
<1>1. QuicTypeOK'
  BY DEF QuicInv, QuicTypeOK
<1>2. \A v \in Users : user'[v] = IF v = u THEN s ELSE user[v]
  BY DEF QuicInv, QuicTypeOK
<1>3. \A v \in Users : Fits(v, user'[v], queue, fed[v], cut[v])
  BY <1>2 DEF QuicInv
<1>4. \A v \in Users : v \in streams' <=> user'[v].at \in {"send", "exit"} \cup Reading
  BY <1>2 DEF QuicInv
<1> QED
  BY <1>1, <1>3, <1>4 DEF QuicInv

(* ... that only goes from one place to another.                             *)
LEMMA UserGoes ==
    ASSUME QuicInv, NEW u \in Users, NEW at, NEW s \in UserType,
           s.at = at, s.need = user[u].need, s.body = user[u].body, s.buffer = user[u].buffer,
           s.end = user[u].end, s.eof = user[u].eof,
           \/ at \in Before \cup Reading /\ user[u].at \in Before
           \/ at \in Reading /\ user[u].at \in Reading,
           at \in Reading => s.need = IF s.body THEN Size ELSE 2
    PROVE  Fits(u, s, queue, fed[u], cut[u])
<1>1. user[u].at \notin After /\ s.at \notin After /\ (s.at \in Before => user[u].at \in Before)
  BY DEF Before, Reading, After
<1>2. Chained(u, user[u], queue, fed[u], cut[u])
  BY <1>1 DEF QuicInv, Fits
<1>3. Upto(s) = Upto(user[u]) /\ (Buffered(u, user[u]) => Buffered(u, s))
  BY DEF Upto, Taken, Buffered
<1>4. Chained(u, s, queue, fed[u], cut[u])
  BY <1>1, <1>2, <1>3 DEF Chained
<1> QED
  BY <1>1, <1>4 DEF Fits

(* The length or the message is taken from the buffer.                       *)
LEMMA TakesKeeps ==
    ASSUME QuicInv, ~Threaded, NEW u \in Users, user[u].at = "check", Have(u),
           user' = [user EXCEPT ![u] = Got(u, SubSeq(user[u].buffer, 1, user[u].need),
                                           SubSeq(user[u].buffer, user[u].need + 1, Len(user[u].buffer)))],
           UNCHANGED <<queue, fed, cut, worker, streams>>
    PROVE  QuicInv'
<1> DEFINE s == user[u]
           b == s.buffer
           n == Len(b)
<1>1. s \in UserType /\ u \in streams /\ <<>> \in Seq(Piece)
  BY DEF QuicInv, QuicTypeOK, Reading
<1>2. Chained(u, s, queue, fed[u], cut[u])
  BY DEF QuicInv, Fits, After
<1>3. b \in Seq(Piece) /\ n \in Nat /\ (\A i \in 1..n : b[i] \in Piece) /\ n >= s.need
  BY <1>1, ElementOfSeq, LenProperties DEF UserType, Have
<1>4. s.need = (IF s.body THEN 1 ELSE 2) /\ s.body \in BOOLEAN /\ s.at = "check"
  BY <1>1, <1>2 DEF Chained, Reading, Size, UserType
<1> HIDE DEF b, n
<1>5. CASE s.body
  <2> DEFINE data == SubSeq(b, 1, 1)
             rest == SubSeq(b, 2, n)
             new  == [s EXCEPT !.at = "exit", !.result = data, !.buffer = rest, !.rest = <<>>]
  <2>1. data \in Seq(Piece) /\ Len(data) = 1 /\ data[1] = b[1]
    <3>1. \A i \in 1..1 : b[i] \in Piece
      BY <1>3, <1>4, <1>5
    <3> QED
      BY <1>3, <3>1, SubSeqProperties
  <2>2. rest \in Seq(Piece)
    <3>1. \A i \in 2..n : b[i] \in Piece
      BY <1>3
    <3> QED
      BY <1>3, <3>1, SubSeqProperties
  <2> HIDE DEF data, rest
  <2>3. new \in UserType /\ new.at = "exit" /\ new.result = data /\ new.eof = s.eof
    <3>1. "exit" \in Before \cup Reading \cup After
      BY DEF After
    <3> QED
      BY <1>1, <2>1, <2>2, <3>1 DEF UserType
  <2>4. b[1] = <<u, 3>> /\ ~s.eof
    <3>1. 1 \in 1..n /\ Taken(s) + 1 = 3
      BY <1>3, <1>4, <1>5 DEF Taken
    <3> QED
      BY <1>2, <3>1 DEF Chained, Buffered, b, n
  <2>5. Fits(u, new, queue, fed[u], cut[u])
    BY <2>1, <2>3, <2>4 DEF Fits, Received, After
  <2>6. user' = [user EXCEPT ![u] = new]
    <3>1. s.need = 1 /\ s.need + 1 = 2
      BY <1>4, <1>5
    <3> QED
      BY <1>5, <3>1 DEF Got, data, rest, b, n
  <2> HIDE DEF new
  <2> QED
    BY <1>1, <2>3, <2>5, <2>6, UserMoves
<1>6. CASE ~s.body
  <2> DEFINE rest == SubSeq(b, 3, n)
             new  == [Waits(u, Size) EXCEPT !.body = TRUE, !.buffer = rest, !.rest = <<>>]
  <2>1. rest \in Seq(Piece) /\ Len(rest) = n - 2 /\ \A i \in 1..(n - 2) : rest[i] = b[i + 2]
    <3>1. \A i \in 3..n : b[i] \in Piece
      BY <1>3
    <3>2. Len(rest) = IF 3 <= n THEN n - 3 + 1 ELSE 0
      BY <1>3, <3>1, SubSeqProperties
    <3>3. n >= 2
      BY <1>3, <1>4, <1>6
    <3>4. rest \in Seq(Piece) /\ \A i \in 1..(n - 3 + 1) : rest[i] = b[3 + i - 1]
      BY <1>3, <3>1, SubSeqProperties
    <3> QED
      BY <1>3, <3>2, <3>3, <3>4
  <2> HIDE DEF rest
  <2>3. /\ new \in UserType /\ new.at = "check" /\ new.eof = s.eof /\ new.body = TRUE /\ new.buffer = rest
        /\ new.end = s.end /\ new.need = 1
    <3>1. "check" \in Before \cup Reading \cup After /\ Size \in {1, 2}
      BY DEF Reading, Size
    <3> QED
      BY <1>1, <2>1, <3>1 DEF UserType, Waits, Size
  <2> HIDE DEF new
  <2>4. Upto(new) = Upto(s)
    BY <1>3, <1>6, <2>1, <2>3 DEF Upto, Taken, b, n
  <2>5. Buffered(u, new)
    <3>1. SUFFICES ASSUME NEW i \in 1..Len(rest)
                   PROVE  rest[i] = <<u, 2 + i>>
      BY <2>3 DEF Buffered, Taken
    <3>2. i + 2 \in 1..n /\ i \in 1..(n - 2) /\ Taken(s) + (i + 2) = 2 + i
      BY <1>3, <1>6, <2>1 DEF Taken
    <3>3. b[i + 2] = <<u, Taken(s) + (i + 2)>>
      BY <1>2, <3>2 DEF Chained, Buffered, b, n
    <3> QED
      BY <2>1, <3>2, <3>3
  <2>6. Fits(u, new, queue, fed[u], cut[u])
    BY <1>2, <2>3, <2>4, <2>5 DEF Fits, Chained, After, Before, Reading, Size
  <2>7. user' = [user EXCEPT ![u] = new]
    <3>1. s.need = 2 /\ s.need + 1 = 3
      BY <1>4, <1>6
    <3> QED
      BY <1>6, <3>1 DEF Got, new, rest, b, n
  <2> QED
    BY <1>1, <2>3, <2>6, <2>7, UserMoves DEF Reading
<1> QED
  BY <1>4, <1>5, <1>6

-----------------------------------------------------------------------------
LEMMA QuicUserKeeps ==
    ASSUME QuicInv, ~Threaded, NEW u \in Users, QuicUser(u)
    PROVE  QuicInv'
<1> DEFINE s == user[u]
           Places == Before \cup Reading \cup After
<1>1. s \in UserType /\ user \in [Users -> UserType]
  BY DEF QuicInv, QuicTypeOK
<1>2. UNCHANGED <<queue, fed, cut, worker>>
  BY DEF QuicUser
<1>3. /\ {"elsewhere", "make", "send", "enter", "asleep", "woken", "check", "over", "exit"} \subseteq Places
      /\ {"elsewhere", "make", "send", "connect"} \subseteq Before
      /\ {"enter", "asleep", "woken", "check"} \subseteq Reading /\ {"exit", "over"} \subseteq After
      /\ {"exit", "over"} \cap (Before \cup Reading) = {} /\ Reading \cap Before = {}
  BY DEF Before, Reading, After
<1>4. s.at \in Before \cup Reading => Chained(u, s, queue, fed[u], cut[u])
  BY <1>3 DEF QuicInv, Fits, Before, Reading, After
<1>5. u \in streams <=> s.at \in {"send", "exit"} \cup Reading
  BY DEF QuicInv
<1> HIDE DEF Places
<1>6. CASE ManagerConnect(u)
  <2>1. PICK at \in {"make", "elsewhere"} : user' = [user EXCEPT ![u].at = at]
    BY <1>6 DEF ManagerConnect, Goes
  <2> DEFINE new == [s EXCEPT !.at = at]
  <2>2. user' = [user EXCEPT ![u] = new] /\ new \in UserType
    BY <1>1, <1>3, <2>1 DEF UserType, Places
  <2>3. /\ new.at = at /\ new.need = s.need /\ new.body = s.body /\ new.buffer = s.buffer
        /\ new.end = s.end /\ new.eof = s.eof
    BY <1>1 DEF UserType
  <2>4. s.at = "connect" /\ streams' = streams
    BY <1>6 DEF ManagerConnect
  <2> HIDE DEF new
  <2>5. Fits(u, new, queue, fed[u], cut[u])
    BY <1>3, <2>1, <2>2, <2>3, <2>4, UserGoes
  <2> QED
    BY <1>2, <1>3, <1>5, <2>2, <2>3, <2>4, <2>5, UserMoves
<1>7. CASE MakeStream(u)
  <2> DEFINE new == [s EXCEPT !.at = "send"]
  <2>1. user' = [user EXCEPT ![u] = new] /\ new \in UserType
    BY <1>1, <1>3, <1>7 DEF UserType, Places, MakeStream, Goes
  <2>2. /\ new.at = "send" /\ new.need = s.need /\ new.body = s.body /\ new.buffer = s.buffer
        /\ new.end = s.end /\ new.eof = s.eof
    BY <1>1 DEF UserType
  <2>3. s.at = "make" /\ streams' = streams \cup {u}
    BY <1>7 DEF MakeStream
  <2> HIDE DEF new
  <2>4. Fits(u, new, queue, fed[u], cut[u])
    BY <1>3, <2>1, <2>2, <2>3, UserGoes
  <2> QED
    BY <1>2, <2>1, <2>2, <2>3, <2>4, UserMoves
<1>8. CASE StreamReceive(u)
  <2> DEFINE new == Waits(u, 2)
  <2>1. user' = [user EXCEPT ![u] = new] /\ new \in UserType
    BY <1>1, <1>3, <1>8 DEF UserType, Places, StreamReceive, Waits
  <2>2. /\ new.at = "check" /\ new.need = 2 /\ new.body = s.body /\ new.buffer = s.buffer
        /\ new.end = s.end /\ new.eof = s.eof
    BY <1>1 DEF UserType, Waits
  <2>3. s.at = "send" /\ streams' = streams
    BY <1>8 DEF StreamReceive
  <2> HIDE DEF new
  <2>4. Chained(u, s, queue, fed[u], cut[u]) /\ ~s.body
    BY <1>3, <1>4, <2>3 DEF Chained
  <2>5. Upto(new) = Upto(s) /\ (Buffered(u, s) => Buffered(u, new))
    BY <2>2 DEF Upto, Taken, Buffered
  <2>6. Chained(u, new, queue, fed[u], cut[u])
    BY <1>3, <2>2, <2>4, <2>5 DEF Chained
  <2>7. Fits(u, new, queue, fed[u], cut[u])
    <3>1. new.at \notin After
      BY <2>2 DEF After
    <3> QED
      BY <2>6, <3>1 DEF Fits
  <2> QED
    BY <1>2, <1>3, <1>5, <2>1, <2>2, <2>3, <2>7, UserMoves
<1>9. CASE WaitForCheck(u)
  <2>1. s.at = "check" /\ streams' = streams /\ u \in streams
    BY <1>3, <1>5, <1>9 DEF WaitForCheck
  <2>2. CASE Have(u)
    <3>1. user' = [user EXCEPT ![u] = Got(u, SubSeq(s.buffer, 1, s.need), SubSeq(s.buffer, s.need + 1, Len(s.buffer)))]
      BY <1>9, <2>2 DEF WaitForCheck
    <3> QED
      BY <1>2, <2>1, <2>2, <3>1, TakesKeeps
  <2>3. CASE ~Have(u) /\ Short(u)
    <3> DEFINE new == [s EXCEPT !.at = "exit", !.eof = TRUE]
    <3>1. user' = [user EXCEPT ![u] = new]
      BY <1>9, <2>3 DEF WaitForCheck
    <3>2. new \in UserType /\ new.at = "exit" /\ new.eof = TRUE
      BY <1>1, <1>3 DEF UserType, Places
    <3>3. Chained(u, s, queue, fed[u], cut[u]) /\ s.end
      BY <1>3, <1>4, <2>1, <2>3 DEF Short
    <3>4. cut[u] /\ Upto(s) = fed[u] /\ s.need = IF s.body THEN Size ELSE 2
      BY <1>3, <2>1, <3>3 DEF Chained
    <3>5. Len(s.buffer) < s.need /\ Len(s.buffer) \in Nat
      <4>1. s.buffer \in Seq(Piece) /\ s.need \in {1, 2}
        BY <1>1 DEF UserType
      <4>2. Len(s.buffer) \in Nat
        BY <4>1, LenProperties
      <4> QED
        BY <2>3, <4>1, <4>2 DEF Have
    <3>6. fed[u] < Whole
      <4>1. Upto(s) = Taken(s) + Len(s.buffer)
        BY DEF Upto
      <4>2. Taken(s) + s.need = 2 + Size \/ (~s.body /\ Taken(s) = 0 /\ s.need = 2)
        BY <3>4 DEF Taken, Size
      <4>3. Taken(s) \in Nat /\ s.need \in Nat
        BY <1>1 DEF Taken, UserType
      <4> QED
        BY <3>4, <3>5, <4>1, <4>2, <4>3 DEF Size, Whole
    <3> HIDE DEF new
    <3>7. Fits(u, new, queue, fed[u], cut[u])
      BY <1>3, <3>2, <3>4, <3>6 DEF Fits, Received
    <3> QED
      BY <1>2, <2>1, <3>1, <3>2, <3>7, UserMoves
  <2>4. CASE ~Have(u) /\ ~Short(u)
    <3> DEFINE new == [s EXCEPT !.at = "enter", !.expecting = s.need]
    <3>1. user' = [user EXCEPT ![u] = new]
      BY <1>9, <2>4 DEF WaitForCheck
    <3>2. /\ new.at = "enter" /\ new.need = s.need /\ new.body = s.body /\ new.buffer = s.buffer
          /\ new.end = s.end /\ new.eof = s.eof
      BY <1>1 DEF UserType
    <3>3. new \in UserType
      <4>1. s.need \in Nat
        BY <1>1 DEF UserType
      <4> QED
        BY <1>1, <1>3, <4>1 DEF UserType, Places
    <3>4. Chained(u, s, queue, fed[u], cut[u])
      BY <1>3, <1>4, <2>1
    <3>5. s.need = IF s.body THEN Size ELSE 2
      BY <1>3, <2>1, <3>4 DEF Chained
    <3> HIDE DEF new
    <3>6. Fits(u, new, queue, fed[u], cut[u])
      BY <1>3, <2>1, <3>2, <3>3, <3>5, UserGoes
    <3> QED
      BY <1>2, <1>3, <2>1, <3>1, <3>2, <3>3, <3>6, UserMoves
  <2> QED
    BY <2>2, <2>3, <2>4
<1>10. CASE SyncReceive(u)
  BY <1>1, <1>10 DEF SyncReceive, UserType, Before, Reading, After
<1>11. CASE WaitForWakeUp(u) \/ RunsOut(u) \/ WaitForAgain(u)
  <2>1. PICK at \in Reading, n \in Nat, out \in BOOLEAN :
          user' = [user EXCEPT ![u] = [s EXCEPT !.at = at, !.expecting = n, !.ranOut = out]]
    <3>1. s.expecting \in Nat /\ s.ranOut \in BOOLEAN /\ 0 \in Nat
      BY <1>1 DEF UserType
    <3>2. CASE WaitForWakeUp(u)
      <4>1. user' = [user EXCEPT ![u] = [s EXCEPT !.at = "asleep", !.expecting = s.expecting, !.ranOut = s.ranOut]]
        BY <1>1, <3>2 DEF WaitForWakeUp, Goes, UserType
      <4> QED
        BY <1>3, <3>1, <4>1
    <3>3. CASE RunsOut(u)
      <4>1. user' = [user EXCEPT ![u] = [s EXCEPT !.at = "woken", !.expecting = s.expecting, !.ranOut = TRUE]]
        BY <1>1, <3>3 DEF RunsOut, UserType
      <4> QED
        BY <1>3, <3>1, <4>1
    <3>4. CASE WaitForAgain(u)
      <4>1. user' = [user EXCEPT ![u] = [s EXCEPT !.at = "check", !.expecting = 0, !.ranOut = s.ranOut]]
        BY <1>1, <3>4 DEF WaitForAgain, UserType
      <4> QED
        BY <1>3, <3>1, <4>1
    <3> QED
      BY <1>11, <3>2, <3>3, <3>4
  <2> DEFINE new == [s EXCEPT !.at = at, !.expecting = n, !.ranOut = out]
  <2>2. new \in UserType
    BY <1>1 DEF UserType
  <2>3. /\ new.at = at /\ new.need = s.need /\ new.body = s.body /\ new.buffer = s.buffer
        /\ new.end = s.end /\ new.eof = s.eof
    BY <1>1 DEF UserType
  <2>4. s.at \in Reading /\ streams' = streams
    BY <1>3, <1>11 DEF WaitForWakeUp, RunsOut, WaitForAgain
  <2>5. s.need = IF s.body THEN Size ELSE 2
    BY <1>4, <2>4 DEF Chained
  <2>6. user' = [user EXCEPT ![u] = new]
    BY <2>1
  <2> HIDE DEF new
  <2>7. Fits(u, new, queue, fed[u], cut[u])
    BY <2>2, <2>3, <2>4, <2>5, UserGoes
  <2> QED
    BY <1>2, <1>5, <2>2, <2>3, <2>4, <2>6, <2>7, UserMoves
<1>12. CASE StreamExit(u)
  <2> DEFINE new == [s EXCEPT !.at = "over", !.end = TRUE]
  <2>1. user' = [user EXCEPT ![u] = new] /\ s.at = "exit" /\ streams' = streams \ {u}
    BY <1>1, <1>12 DEF StreamExit
  <2>2. new \in UserType /\ new.at = "over" /\ new.eof = s.eof /\ new.result = s.result
    BY <1>1, <1>3 DEF UserType, Places
  <2> HIDE DEF new
  <2>3. Fits(u, new, queue, fed[u], cut[u])
    BY <1>3, <2>1, <2>2 DEF QuicInv, Fits, Received
  <2>4. "over" \notin {"send", "exit"} \cup Reading
    BY DEF Reading
  <2> QED
    BY <1>2, <2>1, <2>2, <2>3, <2>4, UserMoves
<1> QED
  BY <1>6, <1>7, <1>8, <1>9, <1>10, <1>11, <1>12 DEF QuicUser

-----------------------------------------------------------------------------
LEMMA AtType ==
    ASSUME NEW s \in UserType
    PROVE  Taken(s) \in Nat /\ Len(s.buffer) \in Nat /\ Upto(s) \in Nat
<1>1. Taken(s) \in Nat
  BY DEF Taken
<1>2. Len(s.buffer) \in Nat
  BY LenProperties DEF UserType
<1> QED
  BY <1>1, <1>2 DEF Upto

(* The worker puts what the first event brings in the buffer of its stream.  *)
LEMMA PutKeeps ==
    ASSUME QuicInv, NEW u \in Users, NEW e \in Event, queue # <<>>, e = Head(queue), Mine(e, u), u \in streams,
           Put(u, user[u].buffer, e.units, e.end), UNCHANGED <<fed, cut, streams>>, queue' = Tail(queue)
    PROVE  QuicInv'
<1> DEFINE s == user[u]
           buffer == IF s.end THEN s.buffer ELSE s.buffer \o e.units
           new == [s EXCEPT !.buffer = buffer, !.end = @ \/ e.end]
<1>1. s \in UserType /\ user \in [Users -> UserType] /\ queue \in Seq(Event)
  BY DEF QuicInv, QuicTypeOK
<1>2. e.units \in Seq(Piece) /\ e.end \in BOOLEAN
  BY DEF Mine, Event
<1>3. s.buffer \in Seq(Piece) /\ buffer \in Seq(Piece)
  BY <1>1, <1>2, ConcatProperties DEF UserType
<1>4. user' = [user EXCEPT ![u] = new]
  BY <1>1 DEF Put
<1> HIDE DEF buffer
<1>5. /\ new \in UserType /\ new.at = s.at /\ new.buffer = buffer /\ new.end = (s.end \/ e.end)
      /\ new.need = s.need /\ new.body = s.body /\ new.eof = s.eof /\ new.result = s.result
  BY <1>1, <1>2, <1>3 DEF UserType
<1> HIDE DEF new
<1>6. Tail(queue) \in Seq(Event)
  BY <1>1, HeadTailProperties
<1>7. QuicTypeOK'
  <2>1. worker'.at # "store" /\ (worker'.at = "notify" => worker'.stream \in Users)
    BY DEF Put, AfterPut, Idle
  <2>2. user' \in [Users -> UserType]
    BY <1>1, <1>4, <1>5
  <2> QED
    BY <1>6, <2>1, <2>2 DEF QuicInv, QuicTypeOK
<1>8. ASSUME NEW v \in Users
      PROVE  Fits(v, user'[v], Tail(queue), fed[v], cut[v])
  <2>1. Fits(v, user[v], queue, fed[v], cut[v]) /\ fed[v] \in Nat /\ user[v] \in UserType
    BY <1>1 DEF QuicInv, QuicTypeOK, Whole, Size
  <2>2. user'[v] = IF v = u THEN new ELSE user[v]
    BY <1>1, <1>4
  <2>3. CASE user[v].at \in After
    BY <1>5, <2>1, <2>2, <2>3 DEF Fits, Received
  <2>4. CASE user[v].at \notin After
    <3>1. Chained(v, user[v], queue, fed[v], cut[v])
      BY <2>1, <2>4 DEF Fits
    <3>2. Upto(user[v]) \in Nat
      BY <2>1, AtType
    <3>3. PICK b \in Nat : /\ Link(e, v, Upto(user[v]), b) /\ Follows(Tail(queue), v, b, fed[v], cut[v])
                           /\ Mine(e, v) /\ e.end => cut[v] /\ b = fed[v] /\ NoneOf(Tail(queue), v)
      BY <1>1, <2>1, <3>1, <3>2, FollowsTail DEF Chained
    <3>4. NoneOf(queue, v) => NoneOf(Tail(queue), v) /\ ~Mine(e, v)
      <4>1. /\ Len(queue) \in Nat /\ Len(queue) > 0 /\ Len(Tail(queue)) = Len(queue) - 1 /\ e = queue[1]
            /\ \A j \in 1..(Len(queue) - 1) : Tail(queue)[j] = queue[j + 1]
        BY <1>1, HeadTailProperties, LenProperties, EmptySeq
      <4>2. 1 \in 1..Len(queue) /\ \A j \in 1..(Len(queue) - 1) : j + 1 \in 1..Len(queue)
        BY <4>1
      <4>3. 1..Len(Tail(queue)) = 1..(Len(queue) - 1)
        BY <4>1
      <4> QED
        BY <4>1, <4>2, <4>3 DEF NoneOf
    <3>5. CASE v # u
      <4>1. ~Mine(e, v)
        BY <3>5 DEF Mine
      <4>2. b = Upto(user[v])
        BY <3>3, <4>1 DEF Link
      <4> QED
        BY <2>2, <2>4, <3>1, <3>3, <3>4, <3>5, <4>2 DEF Chained, Fits
    <3>6. CASE v = u
      <4>1. ~s.end /\ ~(s.at \in Before)
        BY <3>1, <3>4, <3>6 DEF Chained
      <4>2. buffer = s.buffer \o e.units
        BY <4>1 DEF buffer
      <4>3. b = Upto(s) + Len(e.units) /\ \A i \in 1..Len(e.units) : e.units[i] = <<u, Upto(s) + i>>
        BY <3>3, <3>6 DEF Link
      <4> DEFINE m == Len(s.buffer)
                 n == Len(e.units)
      <4>4. /\ m \in Nat /\ n \in Nat /\ Len(buffer) = m + n
            /\ \A i \in 1..(m + n) : buffer[i] = IF i <= m THEN s.buffer[i] ELSE e.units[i - m]
        <5> DEFINE both == s.buffer \o e.units
        <5>1. /\ Len(both) = m + n
              /\ \A i \in 1..(m + n) : both[i] = IF i <= m THEN s.buffer[i] ELSE e.units[i - m]
          BY <1>2, <1>3, ConcatProperties
        <5>2. m \in Nat /\ n \in Nat
          BY <1>2, <1>3, LenProperties
        <5> HIDE DEF both, m, n
        <5>3. buffer = both
          BY <4>2 DEF both
        <5> QED
          BY <5>1, <5>2, <5>3
      <4>5. Taken(s) \in Nat /\ Upto(s) = Taken(s) + m /\ Taken(new) = Taken(s)
        BY <1>5 DEF Upto, Taken
      <4>6. \A i \in 1..m : s.buffer[i] = <<u, Taken(s) + i>>
        BY <3>1, <3>6 DEF Chained, Buffered
      <4>7. Upto(new) = b
        <5>1. Upto(new) = Taken(new) + Len(new.buffer) /\ Len(new.buffer) = m + n
          BY <1>5, <4>4 DEF Upto
        <5>2. b = Upto(s) + n
          BY <4>3
        <5> HIDE DEF m, n
        <5> QED
          BY <4>4, <4>5, <5>1, <5>2
      <4> HIDE DEF m, n
      <4>8. ASSUME NEW i \in 1..(m + n)
            PROVE  buffer[i] = <<u, Taken(s) + i>>
        <5>1. CASE i <= m
          <6>1. i \in 1..m
            BY <4>4, <5>1
          <6> QED
            BY <4>4, <4>6, <5>1, <6>1
        <5>2. CASE ~(i <= m)
          <6>1. i - m \in 1..n /\ Upto(s) + (i - m) = Taken(s) + i
            BY <4>4, <4>5, <5>2
          <6>2. buffer[i] = e.units[i - m]
            BY <4>4, <5>2
          <6>3. e.units[i - m] = <<u, Upto(s) + (i - m)>>
            BY <4>3, <6>1 DEF n
          <6> QED
            BY <6>1, <6>2, <6>3
        <5> QED
          BY <5>1, <5>2
      <4>9. Buffered(u, new)
        <5>1. Len(new.buffer) = m + n /\ new.buffer = buffer
          BY <1>5, <4>4
        <5> QED
          BY <4>5, <4>8, <5>1 DEF Buffered
      <4>10. new.end => e.end
        BY <1>5, <4>1
      <4>11. Chained(u, new, Tail(queue), fed[u], cut[u])
        BY <1>5, <3>1, <3>3, <3>6, <4>1, <4>7, <4>9, <4>10 DEF Chained
      <4> QED
        BY <1>5, <2>2, <2>4, <3>6, <4>11 DEF Fits
    <3> QED
      BY <3>5, <3>6
  <2> QED
    BY <2>3, <2>4
<1>9. \A v \in Users : v \in streams <=> user'[v].at \in {"send", "exit"} \cup Reading
  <2>1. \A v \in Users : user'[v].at = user[v].at
    BY <1>1, <1>4, <1>5
  <2> QED
    BY <2>1 DEF QuicInv
<1> QED
  BY <1>7, <1>8, <1>9 DEF QuicInv

(* An event that is of nobody, or of a stream that is gone.                  *)
LEMMA DropKeeps ==
    ASSUME QuicInv, NEW e \in Event, queue # <<>>, e = Head(queue), e.kind = "data" => e.stream \notin streams,
           UNCHANGED <<user, fed, cut, streams, worker>>, queue' = Tail(queue)
    PROVE  QuicInv'
<1>1. user \in [Users -> UserType] /\ queue \in Seq(Event) /\ Tail(queue) \in Seq(Event)
  BY HeadTailProperties DEF QuicInv, QuicTypeOK
<1>2. QuicTypeOK'
  BY <1>1 DEF QuicInv, QuicTypeOK
<1>3. ASSUME NEW v \in Users
      PROVE  Fits(v, user[v], Tail(queue), fed[v], cut[v])
  <2>1. Fits(v, user[v], queue, fed[v], cut[v]) /\ fed[v] \in Nat /\ user[v] \in UserType
    BY <1>1 DEF QuicInv, QuicTypeOK, Whole, Size
  <2>2. CASE user[v].at \in After
    BY <2>1, <2>2 DEF Fits
  <2>3. CASE user[v].at \notin After
    <3>1. Chained(v, user[v], queue, fed[v], cut[v])
      BY <2>1, <2>3 DEF Fits
    <3>2. Upto(user[v]) \in Nat
      BY <2>1, AtType
    <3>3. PICK b \in Nat : Link(e, v, Upto(user[v]), b) /\ Follows(Tail(queue), v, b, fed[v], cut[v])
      BY <1>1, <2>1, <3>1, <3>2, FollowsTail DEF Chained
    <3>4. NoneOf(queue, v) => NoneOf(Tail(queue), v) /\ ~Mine(e, v)
      <4>1. /\ Len(queue) \in Nat /\ Len(queue) > 0 /\ Len(Tail(queue)) = Len(queue) - 1 /\ e = queue[1]
            /\ \A j \in 1..(Len(queue) - 1) : Tail(queue)[j] = queue[j + 1]
        BY <1>1, HeadTailProperties, LenProperties, EmptySeq
      <4>2. 1 \in 1..Len(queue) /\ \A j \in 1..(Len(queue) - 1) : j + 1 \in 1..Len(queue)
        BY <4>1
      <4>3. 1..Len(Tail(queue)) = 1..(Len(queue) - 1)
        BY <4>1
      <4> QED
        BY <4>1, <4>2, <4>3 DEF NoneOf
    <3>5. ~Mine(e, v)
      <4>1. CASE v \in streams
        BY <4>1 DEF Mine
      <4>2. CASE v \notin streams
        <5>1. user[v].at \notin {"send", "exit"} \cup Reading
          BY <4>2 DEF QuicInv
        <5>2. user[v].at \in Before
          BY <2>1, <2>3, <5>1 DEF UserType
        <5> QED
          BY <3>1, <3>4, <5>2 DEF Chained
      <4> QED
        BY <4>1, <4>2
    <3>6. b = Upto(user[v])
      BY <3>3, <3>5 DEF Link
    <3> QED
      BY <2>3, <3>1, <3>3, <3>4, <3>6 DEF Chained, Fits
  <2> QED
    BY <2>2, <2>3
<1> QED
  BY <1>2, <1>3 DEF QuicInv

LEMMA HandleEventsKeeps ==
    ASSUME QuicInv, ~Threaded, HandleEvents
    PROVE  QuicInv'
<1> DEFINE e == Head(queue)
<1>1. queue # <<>> /\ queue' = Tail(queue) /\ UNCHANGED <<fed, cut, streams>>
  BY DEF HandleEvents
<1>2. e \in Event
  BY <1>1, HeadTailProperties DEF QuicInv, QuicTypeOK
<1>3. CASE e.kind = "data" /\ e.stream \in streams
  <2>1. Put(e.stream, user[e.stream].buffer, e.units, e.end)
    BY <1>3 DEF HandleEvents
  <2>2. e.stream \in Users /\ Mine(e, e.stream)
    BY <1>2, <1>3 DEF Event, Mine
  <2> HIDE DEF e
  <2>3. PICK u \in Users : u = e.stream
    BY <2>2
  <2>4. Put(u, user[u].buffer, e.units, e.end) /\ Mine(e, u) /\ u \in streams
    BY <1>3, <2>1, <2>2, <2>3
  <2> QED
    BY <1>1, <1>2, <2>3, <2>4, PutKeeps DEF e
<1>4. CASE ~(e.kind = "data" /\ e.stream \in streams)
  <2>1. UNCHANGED <<user, worker>>
    BY <1>4 DEF HandleEvents
  <2> QED
    BY <1>1, <1>2, <1>4, <2>1, DropKeeps
<1> QED
  BY <1>3, <1>4

-----------------------------------------------------------------------------
LEMMA NoneAppended ==
    ASSUME NEW q \in Seq(Event), NEW e \in Event, NEW v, NoneOf(q, v), ~Mine(e, v)
    PROVE  NoneOf(Append(q, e), v)
<1> DEFINE t == Append(q, e)
<1>1. Len(q) \in Nat /\ Len(t) = Len(q) + 1 /\ t[Len(q) + 1] = e /\ \A j \in 1..Len(q) : t[j] = q[j]
  BY AppendProperties, LenProperties
<1> HIDE DEF t
<1>2. \A j \in 1..Len(t) : j \in 1..Len(q) \/ j = Len(q) + 1
  BY <1>1
<1>3. NoneOf(t, v)
  BY <1>1, <1>2 DEF NoneOf
<1> QED
  BY <1>3 DEF t

(* An event behind all others touches only the user it is of.                *)
LEMMA OtherEvent ==
    ASSUME QuicInv, NEW e \in Event, NEW v \in Users, ~Mine(e, v)
    PROVE  Fits(v, user[v], Append(queue, e), fed[v], cut[v])
<1>1. Fits(v, user[v], queue, fed[v], cut[v]) /\ fed[v] \in Nat /\ user[v] \in UserType /\ queue \in Seq(Event)
  BY DEF QuicInv, QuicTypeOK, Whole, Size
<1>2. CASE user[v].at \in After
  BY <1>1, <1>2 DEF Fits
<1>3. CASE user[v].at \notin After
  <2>1. Chained(v, user[v], queue, fed[v], cut[v])
    BY <1>1, <1>3 DEF Fits
  <2>2. Upto(user[v]) \in Nat
    BY <1>1, AtType
  <2>3. Link(e, v, fed[v], fed[v])
    BY DEF Link
  <2>4. Follows(Append(queue, e), v, Upto(user[v]), fed[v], cut[v])
    BY <1>1, <2>1, <2>2, <2>3, FollowsAppend DEF Chained
  <2>5. NoneOf(queue, v) => NoneOf(Append(queue, e), v)
    BY <1>1, NoneAppended
  <2> QED
    BY <1>3, <2>1, <2>4, <2>5 DEF Chained, Fits
<1> QED
  BY <1>2, <1>3

LEMMA SignalKeeps ==
    ASSUME QuicInv, NEW kind \in {"handshake", "terminated"}, queue' = Append(queue, [kind |-> kind]),
           UNCHANGED <<user, fed, cut, worker, streams>>
    PROVE  QuicInv'
<1> DEFINE e == [kind |-> kind]
<1>1. e \in Event /\ \A v \in Users : ~Mine(e, v)
  BY DEF Event, Mine
<1> HIDE DEF e
<1>2. queue' = Append(queue, e) /\ queue \in Seq(Event)
  BY DEF e, QuicInv, QuicTypeOK
<1>3. queue' \in Seq(Event)
  BY <1>1, <1>2, AppendProperties
<1>4. QuicTypeOK'
  BY <1>3 DEF QuicInv, QuicTypeOK
<1>5. \A v \in Users : Fits(v, user[v], queue', fed[v], cut[v])
  BY <1>1, <1>2, OtherEvent
<1> QED
  BY <1>4, <1>5 DEF QuicInv

LEMMA ArrivesKeeps ==
    ASSUME QuicInv, NEW u \in Users, Arrives(u)
    PROVE  QuicInv'
<1>1. /\ u \in streams /\ user[u].at # "send" /\ ~cut[u]
      /\ UNCHANGED <<user, worker, streams, flags>>
  BY DEF Arrives
<1>2. PICK n \in 0..2 + Size - fed[u], end \in BOOLEAN :
        /\ fed' = [fed EXCEPT ![u] = fed[u] + n] /\ cut' = [cut EXCEPT ![u] = end]
        /\ queue' = Append(queue, [kind |-> "data", stream |-> u, end |-> end,
                                   units |-> SubSeq(Reply(u), fed[u] + 1, fed[u] + n)])
  BY DEF Arrives
<1>3. /\ fed \in [Users -> 0..Whole] /\ cut \in [Users -> BOOLEAN] /\ queue \in Seq(Event)
      /\ fed[u] \in Nat /\ n \in Nat /\ fed[u] + n \in 0..Whole /\ user[u] \in UserType
  BY <1>2 DEF QuicInv, QuicTypeOK, Whole, Size
<1> DEFINE R == Reply(u)
           f == fed[u]
           units == SubSeq(R, f + 1, f + n)
           e == [kind |-> "data", stream |-> u, end |-> end, units |-> units]
<1>4. units \in Seq(Piece) /\ Len(units) = n /\ \A i \in 1..n : units[i] = <<u, f + i>>
  <2>1. R \in Seq(Piece) /\ Len(R) = Whole /\ \A k \in 1..Whole : R[k] = <<u, k>>
    BY DEF Reply, Piece, Whole, Size
  <2>2. f \in Nat /\ f + n <= 3 /\ Whole = 3
    BY <1>3 DEF Whole, Size
  <2>3. \A k \in (f + 1)..(f + n) : k \in 1..Whole
    BY <1>3, <2>2
  <2>4. \A k \in (f + 1)..(f + n) : R[k] \in Piece
    BY <2>1, <2>3 DEF Piece
  <2> HIDE DEF R, f
  <2>5. /\ units \in Seq(Piece)
        /\ Len(units) = IF f + 1 <= f + n THEN f + n - (f + 1) + 1 ELSE 0
        /\ \A i \in 1..(f + n - (f + 1) + 1) : units[i] = R[f + 1 + i - 1]
    BY <1>3, <2>1, <2>2, <2>4, SubSeqProperties
  <2> HIDE DEF units
  <2>6. Len(units) = n /\ f + n - (f + 1) + 1 = n
    BY <1>3, <2>2, <2>5
  <2>7. ASSUME NEW i \in 1..n
        PROVE  units[i] = <<u, f + i>>
    <3>1. f + 1 + i - 1 = f + i /\ f + i \in 1..Whole /\ i \in 1..(f + n - (f + 1) + 1)
      BY <1>3, <2>2
    <3> QED
      BY <2>1, <2>5, <3>1
  <2> QED
    BY <2>5, <2>6, <2>7 DEF f, units
<1> HIDE DEF R, units
<1>5. e \in Event /\ Mine(e, u) /\ e.units = units /\ e.end = end
  BY <1>4 DEF Event, Mine
<1>6. \A v \in Users \ {u} : ~Mine(e, v)
  BY DEF Mine
<1>7. queue' = Append(queue, e)
  BY <1>2 DEF units, R
<1> HIDE DEF e, f
<1>8. queue' \in Seq(Event)
  BY <1>3, <1>5, <1>7, AppendProperties
<1>9. /\ fed' \in [Users -> 0..Whole] /\ fed'[u] = fed[u] + n /\ \A v \in Users \ {u} : fed'[v] = fed[v]
      /\ cut' \in [Users -> BOOLEAN] /\ cut'[u] = end /\ \A v \in Users \ {u} : cut'[v] = cut[v]
  BY <1>2, <1>3
<1>10. QuicTypeOK'
  BY <1>1, <1>8, <1>9 DEF QuicInv, QuicTypeOK
<1>11. ASSUME NEW v \in Users \ {u}
       PROVE  Fits(v, user[v], queue', fed'[v], cut'[v])
  BY <1>5, <1>6, <1>7, <1>9, OtherEvent
<1>12. Fits(u, user[u], queue', fed'[u], cut'[u])
  <2>1. Fits(u, user[u], queue, fed[u], cut[u])
    BY DEF QuicInv
  <2>2. CASE user[u].at \in After
    BY <1>1, <2>1, <2>2 DEF Fits, Received
  <2>3. CASE user[u].at \notin After
    <3>1. Chained(u, user[u], queue, fed[u], cut[u])
      BY <2>1, <2>3 DEF Fits
    <3>2. user[u].at \in Reading
      <4>1. user[u].at \in {"send", "exit"} \cup Reading
        BY <1>1 DEF QuicInv
      <4> QED
        BY <1>1, <2>3, <4>1 DEF After
    <3>3. ~user[u].end /\ user[u].at \notin Before
      BY <1>1, <3>1, <3>2 DEF Chained, Before, Reading
    <3>4. Link(e, u, fed[u], fed[u] + n)
      BY <1>4, <1>5 DEF Link, f
    <3>5. Upto(user[u]) \in Nat /\ fed[u] + n \in Nat
      BY <1>3, AtType
    <3>6. Follows(queue, u, Upto(user[u]), fed[u], cut[u])
      BY <3>1 DEF Chained
    <3>7. Follows(Append(queue, e), u, Upto(user[u]), fed[u] + n, end)
      BY <1>1, <1>3, <1>5, <3>4, <3>5, <3>6, FollowsAppend
    <3>8. Chained(u, user[u], queue', fed'[u], cut'[u])
      BY <1>7, <1>9, <3>1, <3>3, <3>7 DEF Chained
    <3> QED
      BY <2>3, <3>8 DEF Fits
  <2> QED
    BY <2>2, <2>3
<1>13. user' = user /\ streams' = streams
  BY <1>1
<1>14. \A v \in Users : Fits(v, user'[v], queue', fed'[v], cut'[v])
  BY <1>11, <1>12, <1>13
<1>15. \A v \in Users : v \in streams' <=> user'[v].at \in {"send", "exit"} \cup Reading
  BY <1>13 DEF QuicInv
<1> QED
  BY <1>10, <1>14, <1>15 DEF QuicInv

(* A notification wakes a user that sleeps; nothing else of the worker is    *)
(* about the users.                                                          *)
LEMMA WorkerKeeps ==
    ASSUME QuicInv, ~Threaded, QuicWorker
    PROVE  QuicInv'
<1>1. CASE HandleEvents
  BY <1>1, HandleEventsKeeps
<1>2. CASE WorkerEnds /\ UNCHANGED <<user, queue, fed, cut, streams, flags>>
  BY <1>2 DEF WorkerEnds, Idle, QuicInv, QuicTypeOK
<1>3. CASE AddInput /\ UNCHANGED <<queue, fed, cut, streams, flags>>
  <2>1. worker.at = "notify" /\ worker.stream \in Users /\ worker' = Idle
    BY <1>3 DEF AddInput, QuicInv, QuicTypeOK
  <2>2. PICK u \in Users : u = worker.stream
    BY <2>1
  <2>3. CASE user[u].at = "asleep"
    <3> DEFINE new == [user[u] EXCEPT !.at = "woken"]
    <3>1. user' = [user EXCEPT ![u] = new]
      BY <1>3, <2>1, <2>2, <2>3 DEF AddInput, Goes
    <3>2. user[u] \in UserType /\ user \in [Users -> UserType]
      BY DEF QuicInv, QuicTypeOK
    <3>3. "woken" \in Before \cup Reading \cup After /\ "woken" \in Reading /\ "asleep" \in Reading
      BY DEF Reading
    <3>4. /\ new \in UserType /\ new.at = "woken" /\ new.need = user[u].need /\ new.body = user[u].body
          /\ new.buffer = user[u].buffer /\ new.end = user[u].end /\ new.eof = user[u].eof
      BY <3>2, <3>3 DEF UserType
    <3> HIDE DEF new
    <3>5. Chained(u, user[u], queue, fed[u], cut[u])
      BY <2>3 DEF QuicInv, Fits, After
    <3>6. new.need = IF new.body THEN Size ELSE 2
      BY <2>3, <3>3, <3>4, <3>5 DEF Chained
    <3>7. Fits(u, new, queue, fed[u], cut[u])
      BY <2>3, <3>3, <3>4, <3>6, UserGoes
    <3>8. QuicTypeOK'
      <4>1. user' \in [Users -> UserType]
        BY <3>1, <3>2, <3>4
      <4> QED
        BY <1>3, <2>1, <4>1 DEF QuicInv, QuicTypeOK, Idle
    <3>9. \A v \in Users : user'[v] = IF v = u THEN new ELSE user[v]
      BY <3>1, <3>2
    <3>10. \A v \in Users : Fits(v, user'[v], queue, fed[v], cut[v])
      BY <3>7, <3>9 DEF QuicInv
    <3>11. \A v \in Users : v \in streams <=> user'[v].at \in {"send", "exit"} \cup Reading
      BY <2>3, <3>3, <3>4, <3>9 DEF QuicInv
    <3> QED
      BY <1>3, <3>8, <3>10, <3>11 DEF QuicInv
  <2>4. CASE user[u].at # "asleep"
    BY <1>3, <2>1, <2>2, <2>4 DEF AddInput, Idle, QuicInv, QuicTypeOK
  <2> QED
    BY <2>3, <2>4
<1> QED
  BY <1>1, <1>2, <1>3 DEF QuicWorker

LEMMA QuicKeeps ==
    ASSUME ~Threaded
    PROVE  QuicInv /\ [QuicNext]_quicVars => QuicInv'
<1> SUFFICES ASSUME QuicInv, [QuicNext]_quicVars
             PROVE  QuicInv'
  OBVIOUS
<1>1. ASSUME NEW u \in Users, QuicUser(u)
      PROVE  QuicInv'
  BY <1>1, QuicUserKeeps
<1>2. CASE CloseConnection
  BY <1>2, SignalKeeps DEF CloseConnection
<1>3. CASE Aioquic
  <2>1. ASSUME NEW kind \in {"handshake", "terminated"}, queue = <<>>, queue' = <<[kind |-> kind]>>,
               UNCHANGED <<user, fed, cut, worker, streams, flags>>
        PROVE  QuicInv'
    <3>1. queue' = Append(queue, [kind |-> kind])
      BY <2>1
    <3> QED
      BY <2>1, <3>1, SignalKeeps
  <2> QED
    BY <1>3, <2>1, ArrivesKeeps DEF Aioquic
<1>4. CASE UNCHANGED quicVars
  BY <1>4 DEF quicVars, flags, QuicInv, QuicTypeOK
<1> QED
  BY <1>1, <1>2, <1>3, <1>4, WorkerKeeps DEF QuicNext

(* With dns.quic._asyncio, whatever pieces the server's replies come in and  *)
(* however the users and the worker take turns, each user gets the whole of  *)
(* its own reply, or is told of an early end that there was                  *)
(* (dns/quic/_asyncio.py:33-68).                                             *)
THEOREM QuicReceivesWhole ==
    ASSUME ~Threaded
    PROVE  QuicSpec => []ReceivedWhole
<1>1. QuicInit => QuicInv
  BY QuicStarts
<1>2. QuicInv /\ [QuicNext]_quicVars => QuicInv'
  BY QuicKeeps
<1>3. QuicInv => ReceivedWhole
  <2> SUFFICES ASSUME QuicInv, NEW u \in Users, user[u].at = "over"
               PROVE  IF user[u].eof THEN cut[u] /\ fed[u] < 2 + Size
                      ELSE user[u].result = SubSeq(Reply(u), 3, 2 + Size)
    BY DEF ReceivedWhole
  <2>1. Received(u, user[u], fed[u], cut[u]) /\ user[u].result \in Seq(Piece)
    BY DEF QuicInv, QuicTypeOK, UserType, Fits, After
  <2>2. CASE user[u].eof
    BY <2>1, <2>2 DEF Received, Whole
  <2>3. CASE ~user[u].eof
    <3> DEFINE a == user[u].result
               R == Reply(u)
               b == SubSeq(R, 3, 3)
    <3>1. Len(a) = 1 /\ a[1] = <<u, 3>> /\ a \in Seq(Piece)
      BY <2>1, <2>3 DEF Received
    <3>2. R \in Seq(Piece) /\ R[3] = <<u, 3>>
      BY DEF Reply, Piece, Whole, Size
    <3>3. <<u, 3>> \in Piece
      BY DEF Piece, Whole, Size
    <3> HIDE DEF R
    <3>4. b \in Seq(Piece) /\ Len(b) = 1 /\ b[1] = R[3]
      <4>1. \A k \in 3..3 : R[k] \in Piece
        BY <3>2, <3>3
      <4> QED
        BY <3>2, <4>1, SubSeqProperties
    <3> HIDE DEF a, b
    <3>5. a = b
      <4>1. \A i \in 1..1 : a[i] = b[i]
        BY <3>1, <3>2, <3>4
      <4>2. Len(a) = Len(b) /\ \A i \in 1..Len(a) : a[i] = b[i]
        BY <3>1, <3>4, <4>1
      <4> QED
        BY <3>1, <3>4, <4>2, SeqEqual
    <3> QED
      BY <2>3, <3>5 DEF a, b, R, Size
  <2> QED
    BY <2>2, <2>3
<1> QED
  BY <1>1, <1>2, <1>3, PTL DEF QuicSpec

-----------------------------------------------------------------------------
(* Wire: what was written reads back (RoundTrip).                          *)

LEMMA LeastOf ==
    ASSUME NEW T, T \subseteq Nat, T # {}
    PROVE  \E m \in T : \A q \in T : m <= q
<1> DEFINE R == OpToRel(<, Nat)
<1>1. IsWellFoundedOn(R, Nat)
  BY NatLessThanWellFounded
<1> HIDE DEF R
<1>2. \E m \in T : \A x \in T : ~(<<x, m>> \in R)
  BY <1>1, WFMin
<1>3. PICK m \in T : \A x \in T : ~(x < m)
  BY <1>2 DEF R, OpToRel
<1>4. \A x \in T : m <= x
  BY <1>3
<1> QED
  BY <1>4

LEMMA NeverFails ==
    ASSUME NEW T, T \subseteq Nat, 0 \notin T, \A i \in Nat : i \notin T => i + 1 \notin T
    PROVE  T = {}
<1> SUFFICES ASSUME T # {} PROVE FALSE
  OBVIOUS
<1>1. PICK m \in T : \A q \in T : m <= q
  BY LeastOf
<1>2. m \in Nat \ {0} /\ m - 1 \in Nat /\ ~(m <= m - 1) /\ (m - 1) + 1 = m
  OBVIOUS
<1>3. m - 1 \notin T
  BY <1>1, <1>2
<1> QED
  BY <1>2, <1>3

LEMMA SameCount ==
    ASSUME NEW a \in Nat, NEW b \in Nat, 1 .. a = 1 .. b
    PROVE  a = b
<1>1. CASE a < b
  <2>1. b \in 1 .. b /\ b \notin 1 .. a
    BY <1>1
  <2> QED
    BY <2>1
<1>2. CASE b < a
  <2>1. a \in 1 .. a /\ a \notin 1 .. b
    BY <1>2
  <2> QED
    BY <2>1
<1> QED
  BY <1>1, <1>2

Join(x, y) == x \o y

(* What a message is written with.                                         *)
Values == {0} \cup UNION {Range(rrset.rdatas) : rrset \in RRsets}

Types == {"OPT", "TSIG"} \cup {rrset.type : rrset \in RRsets}

Cells ==
    [kind : {"header"}, counts : [Sections -> Nat]] \cup [kind : {"root"}]
    \cup [kind : {"label"}, text : Labels] \cup [kind : {"pointer"}, to : Nat]
    \cup [kind : {"question"}] \cup [kind : {"record"}, type : Types, rdlen : Nat]
    \cup [kind : {"option"}] \cup [kind : {"datum"}, value : Values]

Wires == Seq(Cells)

(* The last label of an absolute name, and the name of the root.           *)
Empty == ""
Root == <<"">>

LEMMA LabelCellIs ==
    /\ LabelCell(Empty) = [kind |-> "root"]
    /\ \A label : label # Empty => LabelCell(label) = [kind |-> "label", text |-> label]
BY Zenon DEF LabelCell, Empty

LEMMA JoinLabels ==
    ASSUME NEW x \in Seq(Labels), NEW y \in Seq(Labels)
    PROVE  /\ Join(x, y) \in Seq(Labels) /\ Len(Join(x, y)) = Len(x) + Len(y)
           /\ \A i \in 1 .. Len(x) : Join(x, y)[i] = x[i]
           /\ \A i \in 1 .. Len(y) : Join(x, y)[Len(x) + i] = y[i]
<1>1. Len(x) \in Nat /\ Len(y) \in Nat
  BY LenProperties
<1>2. x \o y \in Seq(Labels) /\ Len(x \o y) = Len(x) + Len(y)
  BY ConcatProperties
<1>3. ASSUME NEW i \in 1 .. Len(x) PROVE (x \o y)[i] = x[i]
  <2>1. i \in 1 .. Len(x) + Len(y) /\ i <= Len(x)
    BY <1>1
  <2> QED
    BY <2>1, ConcatProperties
<1>4. ASSUME NEW i \in 1 .. Len(y) PROVE (x \o y)[Len(x) + i] = y[i]
  <2>1. Len(x) + i \in 1 .. Len(x) + Len(y) /\ ~(Len(x) + i <= Len(x)) /\ (Len(x) + i) - Len(x) = i
    BY <1>1
  <2>2. (x \o y)[Len(x) + i] = y[(Len(x) + i) - Len(x)]
    BY <2>1, ConcatProperties
  <2> QED
    BY <2>1, <2>2
<1> QED
  BY <1>2, <1>3, <1>4, Zenon DEF Join

LEMMA JoinCells ==
    ASSUME NEW x \in Wires, NEW y \in Wires
    PROVE  /\ Join(x, y) \in Wires /\ Len(Join(x, y)) = Len(x) + Len(y)
           /\ \A i \in 1 .. Len(x) : Join(x, y)[i] = x[i]
           /\ \A i \in 1 .. Len(y) : Join(x, y)[Len(x) + i] = y[i]
<1> x \in Seq(Cells) /\ y \in Seq(Cells)
  BY DEF Wires
<1>1. Len(x) \in Nat /\ Len(y) \in Nat
  BY LenProperties
<1>2. x \o y \in Seq(Cells) /\ Len(x \o y) = Len(x) + Len(y)
  BY ConcatProperties
<1>3. ASSUME NEW i \in 1 .. Len(x) PROVE (x \o y)[i] = x[i]
  <2>1. i \in 1 .. Len(x) + Len(y) /\ i <= Len(x)
    BY <1>1
  <2> QED
    BY <2>1, ConcatProperties
<1>4. ASSUME NEW i \in 1 .. Len(y) PROVE (x \o y)[Len(x) + i] = y[i]
  <2>1. Len(x) + i \in 1 .. Len(x) + Len(y) /\ ~(Len(x) + i <= Len(x)) /\ (Len(x) + i) - Len(x) = i
    BY <1>1
  <2>2. (x \o y)[Len(x) + i] = y[(Len(x) + i) - Len(x)]
    BY <2>1, ConcatProperties
  <2> QED
    BY <2>1, <2>2
<1> QED
  BY <1>2, <1>3, <1>4, Zenon DEF Join, Wires

LEMMA CellFacts ==
    ASSUME NEW c \in Cells
    PROVE  /\ c.kind = "label" => c.text \in Labels
           /\ c.kind = "pointer" => c.to \in Nat
           /\ c.kind = "record" => c.type \in Types /\ c.rdlen \in Nat
BY DEF Cells

LEMMA CellsMade ==
    /\ [kind |-> "root"] \in Cells /\ [kind |-> "question"] \in Cells /\ [kind |-> "option"] \in Cells
    /\ \A label \in Labels : LabelCell(label) \in Cells
    /\ \A to \in Nat : [kind |-> "pointer", to |-> to] \in Cells
    /\ \A type \in Types, n \in Nat : [kind |-> "record", type |-> type, rdlen |-> n] \in Cells
    /\ \A value \in Values : [kind |-> "datum", value |-> value] \in Cells
    /\ \A counts \in [Sections -> Nat] : [kind |-> "header", counts |-> counts] \in Cells
<1>1. [kind |-> "root"] \in Cells /\ [kind |-> "question"] \in Cells /\ [kind |-> "option"] \in Cells
  BY DEF Cells
<1>2. \A label \in Labels : LabelCell(label) \in Cells
  BY DEF Cells, LabelCell
<1>3. \A to \in Nat : [kind |-> "pointer", to |-> to] \in Cells
  BY DEF Cells
<1>4. \A type \in Types, n \in Nat : [kind |-> "record", type |-> type, rdlen |-> n] \in Cells
  BY DEF Cells
<1>5. \A value \in Values : [kind |-> "datum", value |-> value] \in Cells
  BY DEF Cells
<1>6. \A counts \in [Sections -> Nat] : [kind |-> "header", counts |-> counts] \in Cells
  BY DEF Cells
<1> QED
  BY <1>1, <1>2, <1>3, <1>4, <1>5, <1>6

LEMMA WireFacts ==
    ASSUME NEW w \in Wires
    PROVE  /\ Len(w) \in Nat /\ DOMAIN w = 1 .. Len(w)
           /\ \A i \in 1 .. Len(w) : w[i] \in Cells
BY LenProperties DEF Wires

-----------------------------------------------------------------------------
(* The labels from offset s on end with cell e.                            *)
EndsWith(w, s, e) ==
    /\ e \in s + 1 .. Len(w) /\ w[e].kind # "label"
    /\ \A q \in s + 1 .. e - 1 : w[q].kind = "label"

LEMMA EndsWithAfter ==
    ASSUME NEW w \in Wires, NEW s \in Nat, NEW e, EndsWith(w, s, e)
    PROVE  Ends(w, s) # {} /\ AfterName(w, s) = e
<1>0. Len(w) \in Nat
  BY WireFacts
<1>1. e \in Ends(w, s)
  BY <1>0 DEF Ends, EndsWith
<1>2. \A q \in Ends(w, s) : e <= q
  BY <1>0 DEF Ends, EndsWith
<1>3. \A p \in Ends(w, s) : p \in Nat
  BY <1>0 DEF Ends
<1>4. ASSUME NEW p \in Ends(w, s), \A q \in Ends(w, s) : p <= q
      PROVE  p = e
  <2>1. p <= e /\ e <= p
    BY <1>1, <1>2, <1>4
  <2>2. p \in Nat /\ e \in Nat
    BY <1>1, <1>3
  <2> QED
    BY ONLY <2>1, <2>2
<1> QED
  BY <1>1, <1>2, <1>4 DEF AfterName

LEMMA AfterEndsWith ==
    ASSUME NEW w \in Wires, NEW s \in Nat, Ends(w, s) # {}
    PROVE  EndsWith(w, s, AfterName(w, s))
<1>0. Len(w) \in Nat
  BY WireFacts
<1>1. Ends(w, s) \subseteq Nat
  BY <1>0 DEF Ends
<1>2. \E m \in Ends(w, s) : \A q \in Ends(w, s) : m <= q
  BY <1>1, LeastOf
<1>3. AfterName(w, s) \in Ends(w, s) /\ \A q \in Ends(w, s) : AfterName(w, s) <= q
  BY <1>2 DEF AfterName
<1>4. PICK e : e = AfterName(w, s)
  OBVIOUS
<1>5. e \in s + 1 .. Len(w) /\ w[e].kind # "label"
  BY <1>3, <1>4 DEF Ends
<1>6. ASSUME NEW q \in s + 1 .. e - 1 PROVE w[q].kind = "label"
  <2>1. q \in s + 1 .. Len(w) /\ ~(e <= q)
    BY <1>0, <1>5
  <2>2. q \notin Ends(w, s)
    BY <1>3, <1>4, <2>1
  <2> QED
    BY <2>1, <2>2 DEF Ends
<1> QED
  BY <1>4, <1>5, <1>6 DEF EndsWith

-----------------------------------------------------------------------------
(* Names are read.  Texts are the labels from offset s up to cell e, and   *)
(* Read what is read at s when from says what is read before s.            *)
Bad == [ok |-> FALSE, labels |-> <<>>]
Texts(w, s, e) == [i \in 1 .. e - s - 1 |-> w[s + i].text]

Read(w, s, from) ==
    IF Ends(w, s) = {} THEN Bad
    ELSE IF w[AfterName(w, s)].kind = "root" THEN [ok |-> TRUE, labels |-> Texts(w, s, AfterName(w, s)) \o <<"">>]
    ELSE IF w[AfterName(w, s)].kind = "pointer" /\ w[AfterName(w, s)].to < s
    THEN [from[w[AfterName(w, s)].to] EXCEPT !.labels = Texts(w, s, AfterName(w, s)) \o @]
    ELSE Bad

LEMMA NamesInIs == \A w : NamesIn(w) = CHOOSE from : from = [s \in 0 .. Len(w) |-> Read(w, s, from)]
BY Zenon DEF NamesIn, Read, Texts, Bad

LEMMA ReadLocal ==
    ASSUME NEW w \in Wires, NEW s \in 0 .. Len(w), NEW f, NEW g, \A t \in 0 .. s - 1 : f[t] = g[t]
    PROVE  Read(w, s, f) = Read(w, s, g)
<1>0. Len(w) \in Nat /\ s \in Nat
  BY WireFacts
<1>1. CASE Ends(w, s) = {}
  BY <1>1 DEF Read
<1>2. CASE Ends(w, s) # {}
  <2>1. PICK e : e = AfterName(w, s)
    OBVIOUS
  <2>2. e \in 1 .. Len(w)
    BY <1>0, <1>2, <2>1, AfterEndsWith DEF EndsWith
  <2>3. w[e].kind = "pointer" => w[e].to \in Nat
    BY <2>2, WireFacts, CellFacts
  <2>4. w[e].kind = "pointer" /\ w[e].to < s => f[w[e].to] = g[w[e].to]
    BY <1>0, <2>3
  <2> QED
    BY <1>2, <2>1, <2>4 DEF Read
<1> QED
  BY <1>1, <1>2

ReadsUpTo(w, n, f) == f = [s \in 0 .. n |-> Read(w, s, f)]

LEMMA ReadsExist ==
    ASSUME NEW w \in Wires
    PROVE  \E f : ReadsUpTo(w, Len(w), f)
<1>0. Len(w) \in Nat
  BY WireFacts
<1> DEFINE T == {n \in 0 .. Len(w) : ~\E f : ReadsUpTo(w, n, f)}
<1>1. 0 \notin T
  <2> DEFINE f == [s \in 0 .. 0 |-> Read(w, s, <<>>)]
  <2>1. Read(w, 0, <<>>) = Read(w, 0, f)
    <3>1. \A t \in 0 .. 0 - 1 : (<<>>)[t] = f[t]
      OBVIOUS
    <3> HIDE DEF f
    <3> QED
      BY <1>0, <3>1, ReadLocal, 0 \in 0 .. Len(w)
  <2>2. f = [s \in 0 .. 0 |-> Read(w, s, f)]
    <3>1. \A s \in 0 .. 0 : s = 0
      OBVIOUS
    <3> QED
      BY <2>1, <3>1, Zenon
  <2> QED
    BY <2>2 DEF ReadsUpTo
<1>2. ASSUME NEW n \in Nat, n \notin T PROVE n + 1 \notin T
  <2> SUFFICES ASSUME n + 1 \in 0 .. Len(w) PROVE \E f : ReadsUpTo(w, n + 1, f)
    OBVIOUS
  <2>1. n \in 0 .. Len(w)
    BY <1>0
  <2>2. PICK f : ReadsUpTo(w, n, f)
    BY <1>2, <2>1
  <2> DEFINE g == [s \in 0 .. n + 1 |-> IF s <= n THEN f[s] ELSE Read(w, n + 1, f)]
  <2>3. \A s \in 0 .. n : g[s] = f[s]
    BY SMT
  <2>4. g[n + 1] = Read(w, n + 1, f)
    BY SMT
  <2>5. DOMAIN g = 0 .. n + 1
    OBVIOUS
  <2>6. g = [s \in 0 .. n + 1 |-> g[s]]
    OBVIOUS
  <2> HIDE DEF g
  <2>7. ASSUME NEW s \in 0 .. n + 1 PROVE g[s] = Read(w, s, g)
    <3>1. s \in 0 .. Len(w) /\ \A t \in 0 .. s - 1 : f[t] = g[t]
      BY <1>0, <2>1, <2>3
    <3>2. Read(w, s, f) = Read(w, s, g)
      BY <3>1, ReadLocal
    <3>3. CASE s \in 0 .. n
      <4>1. f[s] = Read(w, s, f)
        BY <2>2, <3>3 DEF ReadsUpTo
      <4> QED
        BY <2>3, <3>2, <3>3, <4>1
    <3>4. CASE s = n + 1
      BY <2>4, <3>2, <3>4
    <3> QED
      BY <3>3, <3>4
  <2>8. g = [s \in 0 .. n + 1 |-> Read(w, s, g)]
    BY <2>6, <2>7, Zenon
  <2> QED
    BY <2>8 DEF ReadsUpTo
<1>3. T = {}
  <2>1. T \subseteq Nat
    OBVIOUS
  <2> HIDE DEF T
  <2> QED
    BY <1>1, <1>2, <2>1, NeverFails
<1> QED
  BY <1>0, <1>3

LEMMA NameAtIs ==
    ASSUME NEW w \in Wires, NEW s \in 0 .. Len(w)
    PROVE  NameAt(w, s) = Read(w, s, NamesIn(w))
<1>1. ReadsUpTo(w, Len(w), NamesIn(w))
  <2>1. \E f : f = [t \in 0 .. Len(w) |-> Read(w, t, f)]
    BY ReadsExist DEF ReadsUpTo
  <2> QED
    BY <2>1, NamesInIs DEF ReadsUpTo
<1> QED
  BY <1>1 DEF ReadsUpTo, NameAt

(* The three ways to read a name, and the only ones to succeed.            *)
LEMMA RootRead ==
    ASSUME NEW w \in Wires, NEW s \in 0 .. Len(w), NEW e, EndsWith(w, s, e), w[e].kind = "root"
    PROVE  NameAt(w, s) = [ok |-> TRUE, labels |-> Join(Texts(w, s, e), Root)]
<1>1. s \in Nat
  BY WireFacts
<1>2. Ends(w, s) # {} /\ AfterName(w, s) = e
  BY <1>1, EndsWithAfter
<1> QED
  BY <1>2, NameAtIs DEF Read, Join, Root

Behind(texts, n) == [n EXCEPT !.labels = Join(texts, @)]

LEMMA PointerRead ==
    ASSUME NEW w \in Wires, NEW s \in 0 .. Len(w), NEW e, EndsWith(w, s, e), w[e].kind = "pointer",
           w[e].to < s
    PROVE  NameAt(w, s) = Behind(Texts(w, s, e), NameAt(w, w[e].to))
<1>1. s \in Nat
  BY WireFacts
<1>2. Ends(w, s) # {} /\ AfterName(w, s) = e
  BY <1>1, EndsWithAfter
<1> QED
  BY <1>2, NameAtIs DEF Read, NameAt, Behind, Join

LEMMA TextsFacts ==
    ASSUME NEW w \in Wires, NEW s \in Nat, NEW e, EndsWith(w, s, e)
    PROVE  /\ Texts(w, s, e) \in Seq(Labels) /\ Len(Texts(w, s, e)) = e - s - 1
           /\ \A i \in 1 .. e - s - 1 : Texts(w, s, e)[i] = w[s + i].text
<1>0. Len(w) \in Nat /\ e \in Nat /\ e - s - 1 \in Nat /\ e <= Len(w)
  BY WireFacts DEF EndsWith
<1>1. \A i \in 1 .. e - s - 1 : w[s + i].text \in Labels
  <2> TAKE i \in 1 .. e - s - 1
  <2>1. s + i \in s + 1 .. e - 1 /\ s + i \in 1 .. Len(w)
    BY <1>0
  <2>2. w[s + i].kind = "label" /\ w[s + i] \in Cells
    BY <2>1, WireFacts DEF EndsWith
  <2> QED
    BY <2>2, CellFacts
<1>2. Texts(w, s, e) \in [1 .. e - s - 1 -> Labels]
  BY <1>1, Zenon DEF Texts
<1>3. Texts(w, s, e) \in Seq(Labels)
  BY <1>0, <1>2, SeqDef, Zenon
<1>4. Len(Texts(w, s, e)) = e - s - 1
  BY <1>0, <1>2, <1>3, LenProperties
<1> QED
  BY <1>3, <1>4, Zenon DEF Texts

NameResults == [ok : BOOLEAN, labels : Seq(Labels)]

LEMMA RootLabel == Root \in Seq(Labels) /\ Len(Root) = 1 /\ Root[1] = Empty /\ Empty \in Labels
<1>1. \A x \in Labels : <<x>> \in Seq(Labels) /\ Len(<<x>>) = 1 /\ <<x>>[1] = x
  OBVIOUS
<1>2. "" \in Labels
  BY DEF Labels
<1> QED
  BY <1>1, <1>2, Zenon DEF Root, Empty

LEMMA NameAtType ==
    ASSUME NEW w \in Wires
    PROVE  \A s \in 0 .. Len(w) : NameAt(w, s) \in NameResults
<1>0. Len(w) \in Nat
  BY WireFacts
<1> DEFINE T == {s \in 0 .. Len(w) : NameAt(w, s) \notin NameResults}
<1> SUFFICES ASSUME T # {} PROVE FALSE
  OBVIOUS
<1>1. PICK s \in T : \A t \in T : s <= t
  <2>1. T \subseteq Nat
    OBVIOUS
  <2> HIDE DEF T
  <2> QED
    BY <2>1, LeastOf
<1>2. s \in 0 .. Len(w) /\ s \in Nat /\ NameAt(w, s) \notin NameResults
  BY <1>0
<1>3. \A t \in 0 .. s - 1 : NameAt(w, t) \in NameResults
  <2> TAKE t \in 0 .. s - 1
  <2>1. t \in 0 .. Len(w) /\ ~(s <= t)
    BY <1>0, <1>2
  <2> QED
    BY <1>1, <2>1
<1> HIDE DEF T
<1>4. Bad \in NameResults
  BY DEF Bad, NameResults
<1>5. Ends(w, s) # {}
  BY <1>2, <1>4, NameAtIs DEF Read
<1>6. PICK e : e = AfterName(w, s)
  OBVIOUS
<1>7. EndsWith(w, s, e)
  BY <1>2, <1>5, <1>6, AfterEndsWith
<1>8. Texts(w, s, e) \in Seq(Labels)
  BY <1>2, <1>7, TextsFacts
<1>9. w[e].kind # "root"
  <2> SUFFICES ASSUME w[e].kind = "root" PROVE FALSE
    OBVIOUS
  <2>1. Join(Texts(w, s, e), Root) \in Seq(Labels)
    BY <1>8, RootLabel, JoinLabels
  <2>2. NameAt(w, s) = [ok |-> TRUE, labels |-> Join(Texts(w, s, e), Root)]
    BY <1>2, <1>7, RootRead
  <2> QED
    <3>1. \A x \in Seq(Labels) : [ok |-> TRUE, labels |-> x] \in NameResults
      BY DEF NameResults
    <3> QED
      BY ONLY <1>2, <2>1, <2>2, <3>1, Zenon
<1>10. w[e].kind = "pointer" /\ w[e].to < s
  BY <1>2, <1>4, <1>5, <1>6, <1>9, NameAtIs DEF Read
<1>11. w[e].to \in 0 .. s - 1
  <2>1. w[e] \in Cells
    BY <1>7, <1>2, WireFacts DEF EndsWith
  <2> QED
    BY <1>2, <1>10, <2>1, CellFacts
<1>12. PICK n \in NameResults : n = NameAt(w, w[e].to)
  BY <1>3, <1>11
<1>13. Join(Texts(w, s, e), n.labels) \in Seq(Labels)
  BY <1>8, JoinLabels DEF NameResults
<1>14. Behind(Texts(w, s, e), n) \in NameResults
  BY <1>13 DEF NameResults, Behind
<1>15. NameAt(w, s) = Behind(Texts(w, s, e), NameAt(w, w[e].to))
  BY <1>2, <1>7, <1>10, PointerRead, Zenon
<1> QED
  BY ONLY <1>2, <1>12, <1>14, <1>15, Zenon

LEMMA OnlyRead ==
    ASSUME NEW w \in Wires, NEW s \in 0 .. Len(w), NameAt(w, s).ok
    PROVE  \E e : /\ EndsWith(w, s, e)
                  /\ \/ w[e].kind = "root"
                     \/ w[e].kind = "pointer" /\ w[e].to < s /\ w[e].to \in 0 .. Len(w) /\ NameAt(w, w[e].to).ok
<1>0. s \in Nat /\ Len(w) \in Nat
  BY WireFacts
<1>a. NameAt(w, s) # Bad
  <2>1. ~Bad.ok
    BY DEF Bad
  <2> QED
    BY <2>1, Zenon
<1>1. Ends(w, s) # {}
  BY <1>a, NameAtIs DEF Read
<1>2. PICK e : e = AfterName(w, s)
  OBVIOUS
<1>3. EndsWith(w, s, e)
  BY <1>0, <1>1, <1>2, AfterEndsWith
<1>4. w[e].kind = "root" \/ (w[e].kind = "pointer" /\ w[e].to < s)
  BY <1>a, <1>1, <1>2, NameAtIs DEF Read
<1>5. CASE w[e].kind = "root"
  BY <1>3, <1>5
<1>6. CASE w[e].kind = "pointer" /\ w[e].to < s
  <2>1. w[e].to \in Nat
    BY <1>0, <1>3, <1>6, WireFacts, CellFacts DEF EndsWith
  <2>2. NameAt(w, s).ok = NameAt(w, w[e].to).ok
    <3>1. w[e].to \in 0 .. Len(w)
      BY <1>0, <1>6, <2>1
    <3>2. PICK n \in NameResults : n = NameAt(w, w[e].to)
      BY <3>1, NameAtType
    <3>3. NameAt(w, s) = Behind(Texts(w, s, e), n)
      BY <1>3, <1>6, <3>2, PointerRead, Zenon
    <3> QED
      BY <3>2, <3>3 DEF NameResults, Behind
  <2>3. NameAt(w, w[e].to).ok
    BY ONLY NameAt(w, s).ok, <2>2, Zenon
  <2> QED
    BY <1>0, <1>3, <1>6, <2>1, <2>3
<1> QED
  BY <1>4, <1>5, <1>6

-----------------------------------------------------------------------------
(* A name that was read is read the same when more is written.             *)
NameKinds == {"label", "root", "pointer"}
Keeps(w, x) ==
    /\ Len(w) <= Len(x)
    /\ \A i \in 1 .. Len(w) : w[i].kind \in NameKinds => x[i] = w[i]

LEMMA EndStays ==
    ASSUME NEW w \in Wires, NEW x \in Wires, Keeps(w, x), NEW s \in 0 .. Len(w), NEW e,
           EndsWith(w, s, e), w[e].kind \in {"root", "pointer"}
    PROVE  EndsWith(x, s, e) /\ x[e] = w[e] /\ Texts(x, s, e) = Texts(w, s, e)
<1>0. Len(w) \in Nat /\ Len(x) \in Nat /\ Len(w) <= Len(x) /\ s \in Nat
  BY WireFacts DEF Keeps
<1>1. e \in 1 .. Len(w) /\ e \in s + 1 .. Len(w) /\ e \in s + 1 .. Len(x)
  BY <1>0 DEF EndsWith
<1>2. x[e] = w[e]
  BY <1>1 DEF Keeps, NameKinds
<1>3. \A q \in s + 1 .. e - 1 : q \in 1 .. Len(w) /\ w[q].kind = "label"
  BY <1>0, <1>1 DEF EndsWith
<1>4. \A q \in s + 1 .. e - 1 : x[q] = w[q]
  BY <1>3 DEF Keeps, NameKinds
<1>5. EndsWith(x, s, e)
  BY <1>1, <1>2, <1>3, <1>4 DEF EndsWith
<1>6. \A i \in 1 .. e - s - 1 : x[s + i].text = w[s + i].text
  <2> TAKE i \in 1 .. e - s - 1
  <2>1. s + i \in s + 1 .. e - 1
    BY <1>0, <1>1
  <2> QED
    BY <1>4, <2>1
<1> QED
  BY <1>2, <1>5, <1>6, Zenon DEF Texts

LEMMA ReadStays ==
    ASSUME NEW w \in Wires, NEW x \in Wires, Keeps(w, x)
    PROVE  \A s \in 0 .. Len(w) :
              NameAt(w, s).ok => NameAt(x, s) = NameAt(w, s) /\ AfterName(x, s) = AfterName(w, s)
<1>0. Len(w) \in Nat /\ Len(x) \in Nat /\ Len(w) <= Len(x)
  BY WireFacts DEF Keeps
<1> DEFINE Same(s) == NameAt(x, s) = NameAt(w, s) /\ AfterName(x, s) = AfterName(w, s)
<1> DEFINE T == {s \in 0 .. Len(w) : NameAt(w, s).ok /\ ~Same(s)}
<1> SUFFICES ASSUME T # {} PROVE FALSE
  BY Zenon
<1>1. PICK s \in T : \A t \in T : s <= t
  <2>1. T \subseteq Nat
    OBVIOUS
  <2> HIDE DEF T
  <2> QED
    BY <2>1, LeastOf
<1>2. s \in 0 .. Len(w) /\ s \in 0 .. Len(x) /\ s \in Nat /\ NameAt(w, s).ok /\ ~Same(s)
  BY <1>0
<1>3. \A t \in 0 .. s - 1 : NameAt(w, t).ok => Same(t)
  <2> TAKE t \in 0 .. s - 1
  <2>1. t \in 0 .. Len(w) /\ ~(s <= t)
    BY <1>0, <1>2
  <2>2. t \notin T
    BY <1>1, <2>1
  <2> QED
    BY <2>1, <2>2, Zenon
<1> HIDE DEF T
<1>4. PICK e : /\ EndsWith(w, s, e)
               /\ \/ w[e].kind = "root"
                  \/ w[e].kind = "pointer" /\ w[e].to < s /\ w[e].to \in 0 .. Len(w) /\ NameAt(w, w[e].to).ok
  BY <1>2, OnlyRead, Zenon
<1>5. EndsWith(x, s, e) /\ x[e] = w[e] /\ Texts(x, s, e) = Texts(w, s, e)
  BY <1>2, <1>4, EndStays
<1>6. AfterName(x, s) = AfterName(w, s)
  BY <1>2, <1>4, <1>5, EndsWithAfter
<1>7. CASE w[e].kind = "root"
  <2>1. NameAt(w, s) = [ok |-> TRUE, labels |-> Join(Texts(w, s, e), Root)]
    BY <1>2, <1>4, <1>7, RootRead
  <2>2. NameAt(x, s) = [ok |-> TRUE, labels |-> Join(Texts(x, s, e), Root)]
    BY <1>2, <1>5, <1>7, RootRead
  <2> QED
    BY <1>2, <1>5, <1>6, <2>1, <2>2, Zenon
<1>8. CASE w[e].kind = "pointer" /\ w[e].to < s /\ w[e].to \in 0 .. Len(w) /\ NameAt(w, w[e].to).ok
  <2>1. NameAt(w, s) = Behind(Texts(w, s, e), NameAt(w, w[e].to))
    BY <1>2, <1>4, <1>8, PointerRead, Zenon
  <2>2. NameAt(x, s) = Behind(Texts(x, s, e), NameAt(x, x[e].to))
    BY <1>2, <1>5, <1>8, PointerRead, Zenon
  <2>3. w[e].to \in 0 .. s - 1
    BY <1>2, <1>8
  <2>4. NameAt(x, w[e].to) = NameAt(w, w[e].to)
    BY <1>3, <1>8, <2>3, Zenon
  <2> QED
    BY <1>2, <1>5, <1>6, <2>1, <2>2, <2>4, Zenon
<1> QED
  BY <1>4, <1>7, <1>8, Zenon

-----------------------------------------------------------------------------
(* Names without their case.                                               *)
LEMMA FoldedSame ==
    ASSUME NEW x \in Seq(Labels), NEW y \in Seq(Labels)
    PROVE  (Folded(x) = Folded(y)) <=> (Len(x) = Len(y) /\ \A i \in 1 .. Len(x) : Fold(x[i]) = Fold(y[i]))
<1>1. /\ Len(x) \in Nat /\ DOMAIN x = 1 .. Len(x)
      /\ Len(y) \in Nat /\ DOMAIN y = 1 .. Len(y)
  BY LenProperties
<1>2. /\ DOMAIN Folded(x) = 1 .. Len(x) /\ \A i \in 1 .. Len(x) : Folded(x)[i] = Fold(x[i])
      /\ DOMAIN Folded(y) = 1 .. Len(y) /\ \A i \in 1 .. Len(y) : Folded(y)[i] = Fold(y[i])
  BY <1>1, Zenon DEF Folded
<1>3. ASSUME Folded(x) = Folded(y) PROVE Len(x) = Len(y) /\ \A i \in 1 .. Len(x) : Fold(x[i]) = Fold(y[i])
  <2>1. 1 .. Len(x) = 1 .. Len(y)
    BY <1>2, <1>3, ZenonT(40)
  <2>2. Len(x) = Len(y)
    BY <1>1, <2>1, SameCount
  <2> QED
    BY <1>2, <1>3, <2>2, Zenon
<1>4. ASSUME Len(x) = Len(y), \A i \in 1 .. Len(x) : Fold(x[i]) = Fold(y[i]) PROVE Folded(x) = Folded(y)
  <2>1. DOMAIN x = DOMAIN y
    BY <1>1, <1>4
  <2>2. \A i \in DOMAIN x : Fold(x[i]) = Fold(y[i])
    BY <1>1, <1>4
  <2> QED
    BY <2>1, <2>2, Zenon DEF Folded
<1> QED
  BY <1>3, <1>4, Zenon

LEMMA FoldedJoin ==
    ASSUME NEW x \in Seq(Labels), NEW y \in Seq(Labels), NEW z \in Seq(Labels), Folded(y) = Folded(z)
    PROVE  Folded(Join(x, y)) = Folded(Join(x, z))
<1>1. Len(x) \in Nat /\ Len(y) \in Nat /\ Len(z) \in Nat
  BY LenProperties
<1>2. Len(y) = Len(z) /\ \A i \in 1 .. Len(y) : Fold(y[i]) = Fold(z[i])
  BY FoldedSame, Zenon
<1>3. PICK a : a = Join(x, y)
  OBVIOUS
<1>4. PICK b : b = Join(x, z)
  OBVIOUS
<1>5. /\ a \in Seq(Labels) /\ Len(a) = Len(x) + Len(y)
      /\ \A i \in 1 .. Len(x) : a[i] = x[i]
      /\ \A i \in 1 .. Len(y) : a[Len(x) + i] = y[i]
  BY <1>3, JoinLabels
<1>6. /\ b \in Seq(Labels) /\ Len(b) = Len(x) + Len(z)
      /\ \A i \in 1 .. Len(x) : b[i] = x[i]
      /\ \A i \in 1 .. Len(z) : b[Len(x) + i] = z[i]
  BY <1>4, JoinLabels
<1>7. ASSUME NEW i \in 1 .. Len(a) PROVE Fold(a[i]) = Fold(b[i])
  <2>1. CASE i \in 1 .. Len(x)
    BY <1>5, <1>6, <2>1, Zenon
  <2>2. CASE i - Len(x) \in 1 .. Len(y)
    <3>1. PICK k : k = i - Len(x)
      OBVIOUS
    <3>2. i = Len(x) + k /\ k \in 1 .. Len(y) /\ k \in 1 .. Len(z)
      BY <1>1, <1>2, <1>5, <2>2, <3>1
    <3> QED
      BY <1>2, <1>5, <1>6, <3>2, Zenon
  <2> QED
    BY <1>1, <1>5, <2>1, <2>2
<1>8. Len(a) = Len(b)
  BY <1>2, <1>5, <1>6
<1>9. Folded(a) = Folded(b)
  BY <1>5, <1>6, <1>7, <1>8, FoldedSame, Zenon
<1> QED
  BY <1>3, <1>4, <1>9, Zenon

LEMMA SuffixFacts ==
    ASSUME NEW n \in Seq(Labels), NEW i \in 1 .. Len(n)
    PROVE  /\ SuffixFrom(n, i) \in Seq(Labels) /\ Len(SuffixFrom(n, i)) = Len(n) - i + 1
           /\ \A k \in 1 .. Len(n) - i + 1 : SuffixFrom(n, i)[k] = n[i + k - 1]
<1>1. Len(n) \in Nat /\ \A k \in 1 .. Len(n) : n[k] \in Labels
  BY LenProperties
<1>2. \A k \in i .. Len(n) : n[k] \in Labels
  BY <1>1
<1> QED
  BY <1>1, <1>2, SubSeqProperties DEF SuffixFrom

(* An absolute name: the last label, and only the last, is empty.          *)
IsWhole(n) ==
    /\ n \in Seq(Labels) /\ n # <<>>
    /\ \A i \in 1 .. Len(n) : (n[i] = Empty) <=> (i = Len(n))

(* The name n was written behind w, its last labels by a pointer.          *)
NameWritten(w, x, n, plain, to) ==
    /\ plain \in 0 .. Len(n) /\ Len(x) = Len(w) + plain + (IF plain = Len(n) THEN 0 ELSE 1)
    /\ \A i \in 1 .. Len(w) : x[i] = w[i]
    /\ \A i \in 1 .. plain : x[Len(w) + i] = LabelCell(n[i])
    /\ plain < Len(n) => x[Len(w) + plain + 1] = [kind |-> "pointer", to |-> to]

LEMMA WholeWritten ==
    ASSUME NEW w \in Wires, NEW x \in Wires, NEW n, IsWhole(n), NameWritten(w, x, n, Len(n), 0),
           NEW i \in 1 .. Len(n)
    PROVE  /\ EndsWith(x, Len(w) + i - 1, Len(x)) /\ NameAt(x, Len(w) + i - 1).ok
           /\ NameAt(x, Len(w) + i - 1).labels = SuffixFrom(n, i)
<1>0. Len(n) \in Nat /\ Len(n) > 0 /\ n \in Seq(Labels)
  <2>1. n \in Seq(Labels) /\ n # <<>>
    BY DEF IsWhole
  <2>2. Len(n) \in Nat \ {0}
    BY <2>1, EmptySeq
  <2> QED
    BY <2>1, <2>2
<1>1. Len(w) \in Nat /\ Len(x) = Len(w) + Len(n)
  <2>1. Len(x) = Len(w) + Len(n) + (IF Len(n) = Len(n) THEN 0 ELSE 1)
    BY Zenon DEF NameWritten
  <2>2. Len(w) \in Nat
    BY WireFacts
  <2> QED
    BY <1>0, <2>1, <2>2
<1>2. PICK s \in Nat : s = Len(w) + i - 1
  <2>1. Len(w) + i - 1 \in Nat
    BY <1>0, <1>1
  <2> QED
    BY <2>1, Zenon
<1>3. PICK e \in Nat : e = Len(x)
  <2>1. Len(x) \in Nat
    BY WireFacts
  <2> QED
    BY <2>1, Zenon
<1>4. x[e] = [kind |-> "root"]
  <2>1. x[Len(w) + Len(n)] = LabelCell(n[Len(n)])
    BY <1>0 DEF NameWritten
  <2>2. n[Len(n)] = Empty /\ Len(w) + Len(n) = e
    BY <1>0, <1>1, <1>3 DEF IsWhole
  <2> QED
    BY <2>1, <2>2, LabelCellIs, Zenon
<1>5. ASSUME NEW q \in s + 1 .. e - 1
      PROVE  /\ x[q] = [kind |-> "label", text |-> n[q - Len(w)]] /\ q - Len(w) \in 1 .. Len(n) - 1
  <2>1. q - Len(w) \in 1 .. Len(n) - 1 /\ q - Len(w) \in 1 .. Len(n) /\ Len(w) + (q - Len(w)) = q
    BY <1>0, <1>1, <1>2, <1>3
  <2>2. x[Len(w) + (q - Len(w))] = LabelCell(n[q - Len(w)])
    BY <2>1 DEF NameWritten
  <2>3. n[q - Len(w)] # Empty
    BY <1>0, <2>1 DEF IsWhole
  <2>4. x[q] = LabelCell(n[q - Len(w)])
    BY <2>1, <2>2
  <2> QED
    BY <2>1, <2>3, <2>4, LabelCellIs, Zenon
<1>a. \A q \in s + 1 .. e - 1 : x[q].kind = "label" /\ x[q].text = n[q - Len(w)]
  <2> TAKE q \in s + 1 .. e - 1
  <2>1. PICK k : k = q - Len(w)
    OBVIOUS
  <2>2. x[q] = [kind |-> "label", text |-> n[k]]
    BY <1>5, <2>1, Zenon
  <2> QED
    BY <2>1, <2>2
<1>6. EndsWith(x, s, e)
  <2>1. e \in s + 1 .. Len(x)
    BY <1>0, <1>1, <1>2, <1>3
  <2>2. x[e].kind # "label"
    BY <1>4
  <2> QED
    BY <1>a, <2>1, <2>2 DEF EndsWith
<1>7. NameAt(x, s) = [ok |-> TRUE, labels |-> Join(Texts(x, s, e), Root)]
  <2>1. s \in 0 .. Len(x)
    BY <1>0, <1>1, <1>2
  <2> QED
    BY <1>4, <1>6, <2>1, RootRead
<1>8. PICK t : t = Texts(x, s, e)
  OBVIOUS
<1>9. PICK a : a = Join(t, Root)
  OBVIOUS
<1>10. PICK b : b = SuffixFrom(n, i)
  OBVIOUS
<1>11. t \in Seq(Labels) /\ Len(t) = e - s - 1 /\ \A k \in 1 .. e - s - 1 : t[k] = x[s + k].text
  BY <1>6, <1>8, TextsFacts, ZenonT(40)
<1>12. /\ a \in Seq(Labels) /\ Len(a) = Len(t) + 1
       /\ \A k \in 1 .. Len(t) : a[k] = t[k]
       /\ a[Len(t) + 1] = Empty
  <2>1. Root \in Seq(Labels) /\ Len(Root) = 1 /\ Root[1] = Empty /\ 1 \in 1 .. Len(Root)
    BY RootLabel
  <2>2. /\ Join(t, Root) \in Seq(Labels) /\ Len(Join(t, Root)) = Len(t) + Len(Root)
        /\ \A k \in 1 .. Len(t) : Join(t, Root)[k] = t[k]
        /\ \A k \in 1 .. Len(Root) : Join(t, Root)[Len(t) + k] = Root[k]
    BY ONLY <1>11, <2>1, JoinLabels
  <2> QED
    BY <1>9, <2>1, <2>2, Zenon
<1>13. b \in Seq(Labels) /\ Len(b) = Len(n) - i + 1 /\ \A k \in 1 .. Len(n) - i + 1 : b[k] = n[i + k - 1]
  BY <1>0, <1>10, SuffixFacts
<1>14. e - s - 1 = Len(n) - i /\ Len(a) = Len(b) /\ Len(a) \in Nat /\ Len(t) \in Nat
  BY <1>0, <1>1, <1>2, <1>3, <1>11, <1>12, <1>13
<1>15. ASSUME NEW k \in 1 .. Len(a) PROVE a[k] = b[k]
  <2>1. CASE k \in 1 .. Len(t)
    <3>1. /\ k \in 1 .. e - s - 1 /\ s + k \in s + 1 .. e - 1 /\ (s + k) - Len(w) = i + k - 1
          /\ k \in 1 .. Len(n) - i + 1
      BY <1>0, <1>1, <1>2, <1>3, <1>11, <1>14, <2>1
    <3>2. x[s + k].text = n[(s + k) - Len(w)]
      BY <1>a, <3>1
    <3> QED
      BY <1>11, <1>12, <1>13, <2>1, <3>1, <3>2, Zenon
  <2>2. CASE k = Len(t) + 1
    <3>1. i + k - 1 = Len(n) /\ k \in 1 .. Len(n) - i + 1 /\ Len(n) \in 1 .. Len(n)
      BY <1>0, <1>11, <1>14, <2>2
    <3>2. n[Len(n)] = Empty
      BY <3>1 DEF IsWhole
    <3> QED
      BY <1>12, <1>13, <2>2, <3>1, <3>2, Zenon
  <2> QED
    BY <1>12, <1>14, <2>1, <2>2
<1>16. a = b
  BY <1>12, <1>13, <1>14, <1>15, SeqEqual
<1> QED
  BY <1>2, <1>3, <1>6, <1>7, <1>8, <1>9, <1>10, <1>16

LEMMA PointerWritten ==
    ASSUME NEW w \in Wires, NEW x \in Wires, NEW n, IsWhole(n), NEW plain \in 0 .. Len(n) - 1,
           NEW to \in 0 .. Len(w) - 1, NameWritten(w, x, n, plain, to),
           NameAt(w, to).ok, Folded(NameAt(w, to).labels) = Folded(SuffixFrom(n, plain + 1)),
           NEW i \in 1 .. plain + 1
    PROVE  /\ EndsWith(x, Len(w) + i - 1, Len(x)) /\ NameAt(x, Len(w) + i - 1).ok
           /\ Folded(NameAt(x, Len(w) + i - 1).labels) = Folded(SuffixFrom(n, i))
<1>0. Len(n) \in Nat /\ Len(n) > 0 /\ n \in Seq(Labels)
  <2>1. n \in Seq(Labels) /\ n # <<>>
    BY DEF IsWhole
  <2>2. Len(n) \in Nat \ {0}
    BY <2>1, EmptySeq
  <2> QED
    BY <2>1, <2>2
<1>1. Len(w) \in Nat /\ Len(x) = Len(w) + plain + 1 /\ plain \in Nat /\ plain < Len(n)
  <2>1. plain # Len(n) /\ plain \in Nat /\ plain < Len(n)
    BY <1>0
  <2>2. Len(x) = Len(w) + plain + (IF plain = Len(n) THEN 0 ELSE 1)
    BY Zenon DEF NameWritten
  <2>3. Len(w) \in Nat
    BY WireFacts
  <2> QED
    BY <1>0, <2>1, <2>2, <2>3
<1>2. PICK s \in Nat : s = Len(w) + i - 1
  <2>1. Len(w) + i - 1 \in Nat
    BY <1>0, <1>1
  <2> QED
    BY <2>1, Zenon
<1>3. PICK e \in Nat : e = Len(x)
  <2>1. Len(x) \in Nat
    BY WireFacts
  <2> QED
    BY <2>1, Zenon
<1>4. x[e] = [kind |-> "pointer", to |-> to]
  <2>1. x[Len(w) + plain + 1] = [kind |-> "pointer", to |-> to]
    BY <1>1 DEF NameWritten
  <2> QED
    BY <1>1, <1>3, <2>1
<1>5. \A q \in s + 1 .. e - 1 : x[q].kind = "label" /\ x[q].text = n[q - Len(w)]
  <2> TAKE q \in s + 1 .. e - 1
  <2>1. PICK k : k = q - Len(w)
    OBVIOUS
  <2>2. k \in 1 .. plain /\ k \in 1 .. Len(n) /\ k # Len(n) /\ Len(w) + k = q
    BY <1>0, <1>1, <1>2, <1>3, <2>1
  <2>3. x[q] = LabelCell(n[k])
    BY <2>2 DEF NameWritten
  <2>4. n[k] # Empty
    BY <1>0, <2>2 DEF IsWhole
  <2>5. x[q] = [kind |-> "label", text |-> n[k]]
    BY <2>3, <2>4, LabelCellIs, Zenon
  <2> QED
    BY <2>1, <2>5
<1>6. EndsWith(x, s, e) /\ s \in 0 .. Len(x)
  <2>1. e \in s + 1 .. Len(x) /\ s \in 0 .. Len(x)
    BY <1>0, <1>1, <1>2, <1>3
  <2>2. x[e].kind # "label"
    BY <1>4
  <2> QED
    BY <1>5, <2>1, <2>2 DEF EndsWith
<1>7. NameAt(x, s) = Behind(Texts(x, s, e), NameAt(w, to))
  <2>1. Keeps(w, x)
    BY <1>1 DEF NameWritten, Keeps
  <2>2. to \in 0 .. Len(w) /\ to < s
    BY <1>1, <1>2
  <2>3. NameAt(x, to) = NameAt(w, to)
    BY <2>1, <2>2, ReadStays, Zenon
  <2>4. x[e].kind = "pointer" /\ x[e].to = to
    BY <1>4
  <2> QED
    BY <1>6, <2>2, <2>3, <2>4, PointerRead, Zenon
<1>8. PICK t : t = Texts(x, s, e)
  OBVIOUS
<1>9. PICK r : r = SuffixFrom(n, plain + 1)
  OBVIOUS
<1>10. PICK a : a = Join(t, r)
  OBVIOUS
<1>11. PICK b : b = SuffixFrom(n, i)
  OBVIOUS
<1>12. t \in Seq(Labels) /\ Len(t) = e - s - 1 /\ \A k \in 1 .. e - s - 1 : t[k] = x[s + k].text
  <2>1. EndsWith(x, s, e)
    BY <1>6
  <2> QED
    BY ONLY <1>8, <2>1, TextsFacts, ZenonT(40)
<1>13. /\ r \in Seq(Labels) /\ Len(r) = Len(n) - plain
       /\ \A k \in 1 .. Len(n) - plain : r[k] = n[plain + k]
  <2>1. plain + 1 \in 1 .. Len(n)
    BY <1>1
  <2>2. Len(n) - (plain + 1) + 1 = Len(n) - plain /\ \A k \in 1 .. Len(n) - plain : (plain + 1) + k - 1 = plain + k
    BY <1>0, <1>1
  <2>3. /\ r \in Seq(Labels) /\ Len(r) = Len(n) - (plain + 1) + 1
        /\ \A k \in 1 .. Len(n) - (plain + 1) + 1 : r[k] = n[(plain + 1) + k - 1]
    BY <1>0, <1>9, <2>1, SuffixFacts, Zenon
  <2> QED
    BY <2>2, <2>3
<1>14. /\ a \in Seq(Labels) /\ Len(a) = Len(t) + Len(r)
       /\ \A k \in 1 .. Len(t) : a[k] = t[k]
       /\ \A k \in 1 .. Len(r) : a[Len(t) + k] = r[k]
  <2>1. /\ Join(t, r) \in Seq(Labels) /\ Len(Join(t, r)) = Len(t) + Len(r)
        /\ \A k \in 1 .. Len(t) : Join(t, r)[k] = t[k]
        /\ \A k \in 1 .. Len(r) : Join(t, r)[Len(t) + k] = r[k]
    BY ONLY <1>12, <1>13, JoinLabels
  <2> QED
    BY <1>10, <2>1, Zenon
<1>15. b \in Seq(Labels) /\ Len(b) = Len(n) - i + 1 /\ \A k \in 1 .. Len(n) - i + 1 : b[k] = n[i + k - 1]
  <2>1. i \in 1 .. Len(n)
    BY <1>1
  <2> QED
    BY <1>0, <1>11, <2>1, SuffixFacts
<1>16. Len(t) = plain - i + 1 /\ Len(a) = Len(b) /\ Len(a) \in Nat /\ Len(t) \in Nat /\ Len(r) \in Nat
  <2>1. e - s - 1 = plain - i + 1 /\ plain - i + 1 \in Nat
    BY <1>0, <1>1, <1>2, <1>3
  <2>2. Len(t) = plain - i + 1 /\ Len(t) \in Nat
    BY <1>12, <2>1
  <2>3. Len(r) \in Nat /\ Len(r) = Len(n) - plain
    BY <1>0, <1>1, <1>13
  <2> QED
    BY <1>0, <1>1, <1>14, <1>15, <2>2, <2>3
<1>17. ASSUME NEW k \in 1 .. Len(a) PROVE a[k] = b[k]
  <2>1. CASE k \in 1 .. Len(t)
    <3>0. e - s - 1 = plain - i + 1 /\ k \in 1 .. plain - i + 1
      BY <1>0, <1>1, <1>2, <1>3, <1>16, <2>1
    <3>1. /\ k \in 1 .. e - s - 1 /\ s + k \in s + 1 .. e - 1 /\ (s + k) - Len(w) = i + k - 1
          /\ k \in 1 .. Len(n) - i + 1
      BY <1>0, <1>1, <1>2, <1>3, <3>0
    <3>2. x[s + k].text = n[(s + k) - Len(w)]
      BY <1>5, <3>1
    <3> QED
      BY <1>12, <1>14, <1>15, <2>1, <3>1, <3>2, Zenon
  <2>2. CASE k - Len(t) \in 1 .. Len(r)
    <3>1. PICK h : h = k - Len(t)
      OBVIOUS
    <3>2. /\ k = Len(t) + h /\ h \in 1 .. Len(r) /\ h \in 1 .. Len(n) - plain
          /\ k \in 1 .. Len(n) - i + 1 /\ i + k - 1 = plain + h
      BY <1>0, <1>1, <1>13, <1>14, <1>15, <1>16, <2>2, <3>1
    <3>3. a[k] = r[h]
      BY <1>14, <3>2, Zenon
    <3> QED
      BY <1>13, <1>15, <3>2, <3>3, Zenon
  <2> QED
    BY <1>14, <1>16, <2>1, <2>2
<1>18. a = b
  BY <1>14, <1>15, <1>16, <1>17, SeqEqual
<1>19. PICK l \in NameResults : l = NameAt(w, to)
  <2>1. to \in 0 .. Len(w)
    BY <1>1
  <2> QED
    BY <2>1, NameAtType
<1>20. l.ok /\ l.labels \in Seq(Labels) /\ Folded(l.labels) = Folded(r)
  BY <1>9, <1>19 DEF NameResults
<1>21. NameAt(x, s).ok = l.ok /\ NameAt(x, s).labels = Join(t, l.labels)
  BY <1>7, <1>8, <1>19 DEF Behind, NameResults
<1>22. Folded(Join(t, l.labels)) = Folded(a)
  BY <1>10, <1>12, <1>13, <1>20, FoldedJoin, Zenon
<1> QED
  BY <1>2, <1>3, <1>6, <1>11, <1>18, <1>20, <1>21, <1>22, Zenon

-----------------------------------------------------------------------------
(* Renderers: each name that is known stands where it is said to stand.    *)
Compressed(w, c) ==
    /\ c = [n \in DOMAIN c |-> c[n]]
    /\ \A n \in DOMAIN c : /\ c[n] \in 1 .. Len(w) - 1 /\ NameAt(w, c[n]).ok
                           /\ Folded(NameAt(w, c[n]).labels) = n /\ Len(NameAt(w, c[n]).labels) >= 2

IsRenderer(r) ==
    /\ r = [output |-> r.output, compress |-> r.compress, section |-> r.section, counts |-> r.counts,
            max |-> r.max, fits |-> r.fits]
    /\ r.output \in Wires /\ Len(r.output) >= 1 /\ r.output[1].kind = "header"
    /\ r.section \in Sections /\ r.counts \in [Sections -> Nat] /\ r.fits \in BOOLEAN

Extends(w, x) == Len(w) <= Len(x) /\ \A i \in 1 .. Len(w) : x[i] = w[i]

(* x is r with more written, and nothing that was known is known otherwise. *)
Grows(r, x) ==
    /\ Extends(r.output, x.output)
    /\ x.compress = [n \in DOMAIN x.compress |-> x.compress[n]]
    /\ DOMAIN r.compress \subseteq DOMAIN x.compress
    /\ \A n \in DOMAIN r.compress : x.compress[n] = r.compress[n]
    /\ \A n \in DOMAIN x.compress \ DOMAIN r.compress : x.compress[n] \in Nat /\ x.compress[n] >= Len(r.output)
    /\ x.section = r.section /\ x.counts = r.counts /\ x.max = r.max /\ x.fits = r.fits

LEMMA UnsharedFacts ==
    ASSUME NEW r, NEW n \in Seq(Labels), NEW plain, plain = Unshared(r, n)
    PROVE  /\ plain \in 0 .. Len(n)
           /\ plain < Len(n) => Folded(SuffixFrom(n, plain + 1)) \in DOMAIN r.compress
<1> DEFINE K == {i \in DOMAIN n : Folded(SuffixFrom(n, i)) \in DOMAIN r.compress}
<1>0. Len(n) \in Nat /\ DOMAIN n = 1 .. Len(n)
  BY LenProperties
<1>1. plain = IF K = {} THEN Len(n) ELSE (CHOOSE i \in K : \A j \in K : i <= j) - 1
  BY Zenon DEF Unshared
<1>2. K \subseteq Nat /\ K \subseteq 1 .. Len(n)
  BY <1>0
<1>3. \A i \in K : Folded(SuffixFrom(n, i)) \in DOMAIN r.compress
  OBVIOUS
<1> HIDE DEF K
<1>4. CASE K = {}
  BY <1>0, <1>1, <1>4
<1>5. CASE K # {}
  <2>1. \E i \in K : \A j \in K : i <= j
    BY <1>2, <1>5, LeastOf
  <2>2. PICK m : m = CHOOSE i \in K : \A j \in K : i <= j
    OBVIOUS
  <2>3. m \in K
    BY <2>1, <2>2, Zenon
  <2>4. plain = m - 1 /\ m \in 1 .. Len(n)
    BY <1>1, <1>2, <1>5, <2>2, <2>3
  <2>5. plain \in 0 .. Len(n) /\ plain + 1 = m
    BY <1>0, <2>4
  <2> QED
    BY <1>3, <2>3, <2>5
<1> QED
  BY <1>4, <1>5

PointerCells(r, n, plain) ==
    IF plain = Len(n) THEN <<>> ELSE <<[kind |-> "pointer", to |-> r.compress[Folded(SuffixFrom(n, plain + 1))]]>>
NameCells(n, plain) == [i \in 1 .. plain |-> LabelCell(n[i])]
Noted(r, n, plain) ==
    {Folded(SuffixFrom(n, i)) : i \in {k \in 1 .. plain : k < Len(n) /\ Len(r.output) + k - 1 <= MaxPointer}}
Known(r, n, plain) ==
    [suffix \in DOMAIN r.compress \cup Noted(r, n, plain) |->
        IF suffix \in DOMAIN r.compress THEN r.compress[suffix] ELSE Len(r.output) + Len(n) - Len(suffix)]

Grown(r, output, compress) == [r EXCEPT !.output = output, !.compress = compress]

LEMMA WriteNameIs ==
    ASSUME NEW r, NEW name, NEW n, n = Derelativized(name), NEW plain, plain = Unshared(r, n)
    PROVE  WriteName(r, name) =
             Grown(r, Join(Join(r.output, NameCells(n, plain)), PointerCells(r, n, plain)), Known(r, n, plain))
BY Zenon DEF WriteName, Join, NameCells, PointerCells, Known, Noted, Grown

LEMMA NameCellsWritten ==
    ASSUME NEW r, IsRenderer(r), Compressed(r.output, r.compress), NEW n, IsWhole(n), NEW plain, plain = Unshared(r, n),
           NEW x, x = Join(Join(r.output, NameCells(n, plain)), PointerCells(r, n, plain)),
           NEW to, to = IF plain = Len(n) THEN 0 ELSE r.compress[Folded(SuffixFrom(n, plain + 1))]
    PROVE  x \in Wires /\ NameWritten(r.output, x, n, plain, to)
<1> DEFINE w == r.output
<1> DEFINE a == NameCells(n, plain)
<1> DEFINE p == PointerCells(r, n, plain)
<1>0. w \in Wires /\ Len(w) \in Nat /\ n \in Seq(Labels) /\ Len(n) \in Nat /\ \A i \in 1 .. Len(n) : n[i] \in Labels
  <2>1. w \in Wires /\ n \in Seq(Labels)
    BY DEF IsRenderer, IsWhole
  <2> QED
    BY <2>1, WireFacts, LenProperties
<1>1. plain \in 0 .. Len(n) /\ (plain < Len(n) => Folded(SuffixFrom(n, plain + 1)) \in DOMAIN r.compress)
  BY <1>0, UnsharedFacts
<1>2. a \in Wires /\ Len(a) = plain /\ \A i \in 1 .. plain : a[i] = LabelCell(n[i])
  <2>1. \A i \in 1 .. plain : LabelCell(n[i]) \in Cells
    <3> TAKE i \in 1 .. plain
    <3>1. n[i] \in Labels
      BY <1>0, <1>1
    <3> QED
      BY <3>1, CellsMade
  <2>2. a \in [1 .. plain -> Cells]
    BY <2>1, Zenon DEF NameCells
  <2>3. plain \in Nat
    BY <1>0, <1>1
  <2>4. a \in Seq(Cells)
    BY <2>2, <2>3, SeqDef, Zenon
  <2>5. Len(a) = plain
    BY <2>2, <2>3, <2>4, LenProperties
  <2> QED
    BY <2>4, <2>5, Zenon DEF Wires, NameCells
<1>3. /\ p \in Wires
      /\ plain = Len(n) => Len(p) = 0
      /\ plain < Len(n) => Len(p) = 1 /\ p[1] = [kind |-> "pointer", to |-> to]
  <2>1. CASE plain = Len(n)
    <3>1. p = <<>>
      BY <2>1 DEF PointerCells
    <3> QED
      BY <1>0, <2>1, <3>1, EmptySeq DEF Wires
  <2>2. CASE plain < Len(n)
    <3>1. to \in Nat
      BY <1>0, <1>1, <2>2 DEF Compressed
    <3>2. [kind |-> "pointer", to |-> to] \in Cells
      BY <3>1, CellsMade
    <3>3. plain # Len(n)
      BY <1>0, <1>1, <2>2
    <3>4. p = <<[kind |-> "pointer", to |-> to]>>
      BY <3>3, Zenon DEF PointerCells
    <3>5. \A c \in Cells : <<c>> \in Seq(Cells) /\ Len(<<c>>) = 1 /\ <<c>>[1] = c
      OBVIOUS
    <3> QED
      BY <2>2, <3>2, <3>3, <3>4, <3>5, Zenon DEF Wires
  <2> QED
    BY <1>0, <1>1, <2>1, <2>2
<1> HIDE DEF w, a, p
<1>4. PICK b : b = Join(w, a)
  OBVIOUS
<1>5. /\ b \in Wires /\ Len(b) = Len(w) + plain
      /\ \A i \in 1 .. Len(w) : b[i] = w[i]
      /\ \A i \in 1 .. plain : b[Len(w) + i] = LabelCell(n[i])
  <2>1. /\ Join(w, a) \in Wires /\ Len(Join(w, a)) = Len(w) + Len(a)
        /\ \A i \in 1 .. Len(w) : Join(w, a)[i] = w[i]
        /\ \A i \in 1 .. Len(a) : Join(w, a)[Len(w) + i] = a[i]
    BY ONLY <1>0, <1>2, JoinCells
  <2> QED
    BY <1>2, <1>4, <2>1, Zenon
<1>6. /\ x \in Wires /\ Len(x) = Len(b) + Len(p)
      /\ \A i \in 1 .. Len(b) : x[i] = b[i]
      /\ \A i \in 1 .. Len(p) : x[Len(b) + i] = p[i]
  <2>1. /\ Join(b, p) \in Wires /\ Len(Join(b, p)) = Len(b) + Len(p)
        /\ \A i \in 1 .. Len(b) : Join(b, p)[i] = b[i]
        /\ \A i \in 1 .. Len(p) : Join(b, p)[Len(b) + i] = p[i]
    BY ONLY <1>3, <1>5, JoinCells
  <2>2. x = Join(b, p)
    BY <1>4, Zenon DEF w, a, p
  <2> QED
    BY <2>1, <2>2, Zenon
<1>7. \A i \in 1 .. Len(w) : x[i] = w[i]
  BY <1>0, <1>1, <1>5, <1>6
<1>8. \A i \in 1 .. plain : x[Len(w) + i] = LabelCell(n[i])
  <2> TAKE i \in 1 .. plain
  <2>1. Len(w) + i \in 1 .. Len(b)
    BY <1>0, <1>1, <1>5
  <2> QED
    BY <1>5, <1>6, <2>1, Zenon
<1>9. Len(x) = Len(w) + plain + (IF plain = Len(n) THEN 0 ELSE 1)
  <2>1. CASE plain = Len(n)
    <3>1. Len(p) = 0
      BY <1>3, <2>1, Zenon
    <3> QED
      BY <1>0, <1>5, <1>6, <2>1, <3>1
  <2>2. CASE plain < Len(n)
    <3>1. Len(p) = 1
      BY <1>3, <2>2, Zenon
    <3> QED
      BY <1>0, <1>1, <1>5, <1>6, <2>2, <3>1
  <2> QED
    BY <1>0, <1>1, <2>1, <2>2
<1>10. plain < Len(n) => x[Len(w) + plain + 1] = [kind |-> "pointer", to |-> to]
  <2> SUFFICES ASSUME plain < Len(n) PROVE x[Len(w) + plain + 1] = [kind |-> "pointer", to |-> to]
    OBVIOUS
  <2>0. Len(p) = 1 /\ p[1] = [kind |-> "pointer", to |-> to]
    BY <1>3, Zenon
  <2>1. 1 \in 1 .. Len(p) /\ p[1] = [kind |-> "pointer", to |-> to]
    BY <2>0
  <2>2. x[Len(b) + 1] = p[1]
    BY <1>6, <2>1, Zenon
  <2> QED
    BY <1>5, <2>1, <2>2
<1> QED
  BY <1>1, <1>6, <1>7, <1>8, <1>9, <1>10, Zenon DEF NameWritten, w

LEMMA FoldedLen ==
    ASSUME NEW x \in Seq(Labels)
    PROVE  Len(Folded(x)) = Len(x)
<1> DEFINE S == {Fold(l) : l \in Labels}
<1>1. Len(x) \in Nat /\ DOMAIN x = 1 .. Len(x) /\ \A i \in 1 .. Len(x) : x[i] \in Labels
  BY LenProperties
<1>2. \A i \in 1 .. Len(x) : Fold(x[i]) \in S
  BY <1>1
<1> HIDE DEF S
<1>3. Folded(x) \in [1 .. Len(x) -> S]
  BY <1>1, <1>2, Zenon DEF Folded
<1>4. Folded(x) \in Seq(S)
  BY <1>1, <1>3, SeqDef, Zenon
<1> QED
  BY <1>1, <1>3, <1>4, LenProperties, SameCount

LEMMA WholeSuffix ==
    ASSUME NEW n \in Seq(Labels), n # <<>>
    PROVE  SuffixFrom(n, 1) = n /\ Len(n) \in Nat /\ Len(n) > 0
<1>1. Len(n) \in Nat \ {0}
  BY EmptySeq
<1>2. SuffixFrom(n, 1) = n
  BY SubSeqFull, Zenon DEF SuffixFrom
<1> QED
  BY <1>1, <1>2

(* Whatever part of the name was written reads back as that part.          *)
LEMMA PartsRead ==
    ASSUME NEW r, IsRenderer(r), Compressed(r.output, r.compress), NEW n, IsWhole(n), NEW plain, plain = Unshared(r, n),
           NEW x, x = Join(Join(r.output, NameCells(n, plain)), PointerCells(r, n, plain))
    PROVE  /\ x \in Wires /\ Extends(r.output, x)
           /\ Len(x) >= Len(r.output) + plain /\ Len(x) > Len(r.output) /\ plain \in 0 .. Len(n)
           /\ \A i \in 1 .. Len(n) : (i <= plain \/ i = 1) =>
                /\ EndsWith(x, Len(r.output) + i - 1, Len(x)) /\ NameAt(x, Len(r.output) + i - 1).ok
                /\ Folded(NameAt(x, Len(r.output) + i - 1).labels) = Folded(SuffixFrom(n, i))
<1>0. /\ r.output \in Wires /\ Len(r.output) \in Nat /\ n \in Seq(Labels) /\ n # <<>>
      /\ Len(n) \in Nat /\ Len(n) > 0 /\ Len(r.output) >= 1
  <2>1. r.output \in Wires /\ n \in Seq(Labels) /\ n # <<>> /\ Len(r.output) >= 1
    BY DEF IsRenderer, IsWhole
  <2> QED
    BY <2>1, WireFacts, WholeSuffix
<1>1. PICK to : to = IF plain = Len(n) THEN 0 ELSE r.compress[Folded(SuffixFrom(n, plain + 1))]
  OBVIOUS
<1>2. x \in Wires /\ NameWritten(r.output, x, n, plain, to)
  BY <1>1, NameCellsWritten
<1>3. plain \in 0 .. Len(n) /\ (plain < Len(n) => Folded(SuffixFrom(n, plain + 1)) \in DOMAIN r.compress)
  BY <1>0, UnsharedFacts
<1>4. Len(x) = Len(r.output) + plain + (IF plain = Len(n) THEN 0 ELSE 1) /\ Len(x) \in Nat
  BY <1>2, WireFacts, Zenon DEF NameWritten
<1>5. Len(x) >= Len(r.output) + plain /\ Len(x) > Len(r.output)
  BY <1>0, <1>3, <1>4
<1>6. Extends(r.output, x)
  BY <1>0, <1>2, <1>5, <1>4 DEF Extends, NameWritten
<1>7. CASE plain = Len(n)
  <2>1. NameWritten(r.output, x, n, Len(n), 0)
    BY <1>1, <1>2, <1>7, Zenon
  <2> SUFFICES ASSUME NEW i \in 1 .. Len(n)
               PROVE  /\ EndsWith(x, Len(r.output) + i - 1, Len(x)) /\ NameAt(x, Len(r.output) + i - 1).ok
                      /\ Folded(NameAt(x, Len(r.output) + i - 1).labels) = Folded(SuffixFrom(n, i))
    BY <1>2, <1>3, <1>5, <1>6, Zenon
  <2>2. /\ EndsWith(x, Len(r.output) + i - 1, Len(x)) /\ NameAt(x, Len(r.output) + i - 1).ok
        /\ NameAt(x, Len(r.output) + i - 1).labels = SuffixFrom(n, i)
    <3>1. PICK w : w = r.output
      OBVIOUS
    <3>2. w \in Wires /\ NameWritten(w, x, n, Len(n), 0)
      BY <1>0, <2>1, <3>1, Zenon
    <3>3. x \in Wires
      BY <1>2
    <3>4. /\ EndsWith(x, Len(w) + i - 1, Len(x)) /\ NameAt(x, Len(w) + i - 1).ok
          /\ NameAt(x, Len(w) + i - 1).labels = SuffixFrom(n, i)
      BY <3>2, <3>3, WholeWritten
    <3> QED
      BY <3>1, <3>4, Zenon
  <2> QED
    BY <2>2, Zenon
<1>8. CASE plain < Len(n)
  <2>1. plain \in 0 .. Len(n) - 1 /\ plain # Len(n)
    BY <1>0, <1>3, <1>8
  <2>2. PICK k \in DOMAIN r.compress : k = Folded(SuffixFrom(n, plain + 1))
    BY <1>3, <1>8
  <2>3. to = r.compress[k]
    BY <1>1, <2>1, <2>2, Zenon
  <2>4. to \in 1 .. Len(r.output) - 1 /\ NameAt(r.output, to).ok /\ Folded(NameAt(r.output, to).labels) = k
    BY <2>3, Zenon DEF Compressed
  <2>5. to \in 0 .. Len(r.output) - 1
    BY <1>0, <2>4
  <2>6. \A i \in 1 .. plain + 1 :
          /\ EndsWith(x, Len(r.output) + i - 1, Len(x)) /\ NameAt(x, Len(r.output) + i - 1).ok
          /\ Folded(NameAt(x, Len(r.output) + i - 1).labels) = Folded(SuffixFrom(n, i))
    <3>1. PICK w : w = r.output
      OBVIOUS
    <3>2. w \in Wires /\ to \in 0 .. Len(w) - 1 /\ NameWritten(w, x, n, plain, to)
      BY <1>0, <1>2, <2>5, <3>1, Zenon
    <3>3. NameAt(w, to).ok /\ Folded(NameAt(w, to).labels) = Folded(SuffixFrom(n, plain + 1))
      BY <2>2, <2>4, <3>1, Zenon
    <3>4. x \in Wires
      BY <1>2
    <3> TAKE i \in 1 .. plain + 1
    <3>5. /\ EndsWith(x, Len(w) + i - 1, Len(x)) /\ NameAt(x, Len(w) + i - 1).ok
          /\ Folded(NameAt(x, Len(w) + i - 1).labels) = Folded(SuffixFrom(n, i))
      BY <2>1, <3>2, <3>3, <3>4, PointerWritten
    <3> QED
      BY <3>1, <3>5, Zenon
  <2>7. \A i \in 1 .. Len(n) : (i <= plain \/ i = 1) => i \in 1 .. plain + 1
    BY <1>0, <2>1
  <2> QED
    BY <1>2, <1>3, <1>5, <1>6, <2>6, <2>7, Zenon
<1> QED
  BY <1>0, <1>3, <1>7, <1>8

LEMMA ExtendsKeeps ==
    ASSUME NEW w, NEW x, Extends(w, x)
    PROVE  Keeps(w, x)
BY DEF Extends, Keeps

LEMMA StaysCompressed ==
    ASSUME NEW w \in Wires, NEW x \in Wires, Keeps(w, x), NEW c, Compressed(w, c)
    PROVE  Compressed(x, c)
<1>0. Len(w) \in Nat /\ Len(x) \in Nat /\ Len(w) <= Len(x)
  BY WireFacts DEF Keeps
<1>1. ASSUME NEW n \in DOMAIN c
      PROVE  /\ c[n] \in 1 .. Len(x) - 1 /\ NameAt(x, c[n]).ok
             /\ Folded(NameAt(x, c[n]).labels) = n /\ Len(NameAt(x, c[n]).labels) >= 2
  <2>1. PICK k : k = c[n]
    OBVIOUS
  <2>2. /\ k \in 1 .. Len(w) - 1 /\ NameAt(w, k).ok
        /\ Folded(NameAt(w, k).labels) = n /\ Len(NameAt(w, k).labels) >= 2
    BY <2>1, Zenon DEF Compressed
  <2>3. k \in 0 .. Len(w) /\ k \in 1 .. Len(x) - 1
    BY <1>0, <2>2
  <2>4. NameAt(x, k) = NameAt(w, k)
    BY <2>2, <2>3, ReadStays, Zenon
  <2> QED
    BY <2>1, <2>2, <2>3, <2>4, Zenon
<1>2. c = [n \in DOMAIN c |-> c[n]]
  BY Zenon DEF Compressed
<1> QED
  BY <1>1, <1>2, Zenon DEF Compressed

LEMMA KnownIsCompressed ==
    ASSUME NEW r, IsRenderer(r), Compressed(r.output, r.compress), NEW n, IsWhole(n), NEW plain, plain = Unshared(r, n),
           NEW x, x = Join(Join(r.output, NameCells(n, plain)), PointerCells(r, n, plain)),
           NEW c, c = Known(r, n, plain)
    PROVE  /\ Compressed(x, c) /\ DOMAIN r.compress \subseteq DOMAIN c
           /\ \A k \in DOMAIN r.compress : c[k] = r.compress[k]
           /\ \A k \in DOMAIN c \ DOMAIN r.compress : c[k] \in Nat /\ c[k] >= Len(r.output)
<1>0. /\ r.output \in Wires /\ Len(r.output) \in Nat /\ n \in Seq(Labels) /\ n # <<>>
      /\ Len(n) \in Nat /\ Len(n) > 0 /\ Len(r.output) >= 1
  <2>1. r.output \in Wires /\ n \in Seq(Labels) /\ n # <<>> /\ Len(r.output) >= 1
    BY DEF IsRenderer, IsWhole
  <2> QED
    BY <2>1, WireFacts, WholeSuffix
<1>1. /\ x \in Wires /\ Extends(r.output, x) /\ Len(x) >= Len(r.output) + plain /\ plain \in 0 .. Len(n)
      /\ \A i \in 1 .. Len(n) : (i <= plain \/ i = 1) =>
                /\ EndsWith(x, Len(r.output) + i - 1, Len(x)) /\ NameAt(x, Len(r.output) + i - 1).ok
                /\ Folded(NameAt(x, Len(r.output) + i - 1).labels) = Folded(SuffixFrom(n, i))
  BY PartsRead
<1>2. Compressed(x, r.compress)
  BY <1>0, <1>1, ExtendsKeeps, StaysCompressed
<1>3. /\ c = [k \in DOMAIN c |-> c[k]] /\ DOMAIN c = DOMAIN r.compress \cup Noted(r, n, plain)
      /\ \A k \in DOMAIN r.compress : c[k] = r.compress[k]
      /\ \A k \in Noted(r, n, plain) \ DOMAIN r.compress : c[k] = Len(r.output) + Len(n) - Len(k)
  BY DEF Known
<1>4. ASSUME NEW k \in Noted(r, n, plain), k \notin DOMAIN r.compress
      PROVE  /\ c[k] \in 1 .. Len(x) - 1 /\ c[k] >= Len(r.output) /\ NameAt(x, c[k]).ok
             /\ Folded(NameAt(x, c[k]).labels) = k /\ Len(NameAt(x, c[k]).labels) >= 2
  <2>1. PICK i \in 1 .. plain : i < Len(n) /\ k = Folded(SuffixFrom(n, i))
    BY <1>4, Zenon DEF Noted
  <2>2. i \in 1 .. Len(n) /\ i \in Nat /\ plain \in Nat /\ i <= plain /\ i < Len(n) /\ i >= 1
    BY <1>0, <1>1, <2>1
  <2>3. PICK s : s = SuffixFrom(n, i)
    OBVIOUS
  <2>4. s \in Seq(Labels) /\ Len(s) = Len(n) - i + 1
    BY <1>0, <2>2, <2>3, SuffixFacts
  <2>5. Len(k) = Len(s)
    BY <2>1, <2>3, <2>4, FoldedLen
  <2>6. c[k] = Len(r.output) + Len(n) - Len(k)
    BY <1>3, <1>4
  <2>7. c[k] = Len(r.output) + i - 1
    BY <1>0, <2>2, <2>4, <2>5, <2>6
  <2>8. PICK o : o = c[k]
    OBVIOUS
  <2>9. o = Len(r.output) + i - 1
    BY <2>7, <2>8
  <2>10. o \in 1 .. Len(x) - 1 /\ o >= Len(r.output) /\ o \in 0 .. Len(x)
    <3>1. Len(x) \in Nat
      BY <1>1, WireFacts
    <3> QED
      BY <1>0, <1>1, <2>2, <2>9, <3>1
  <2>11. NameAt(x, o).ok /\ Folded(NameAt(x, o).labels) = k
    BY <1>1, <2>1, <2>2, <2>9, Zenon
  <2>12. NameAt(x, o).labels \in Seq(Labels)
    BY <1>1, <2>10, NameAtType DEF NameResults
  <2>13. Len(NameAt(x, o).labels) = Len(s)
    BY <2>1, <2>3, <2>4, <2>11, <2>12, FoldedSame, Zenon
  <2>14. Len(NameAt(x, o).labels) >= 2
    BY <1>0, <2>2, <2>4, <2>13
  <2> QED
    BY <2>8, <2>10, <2>11, <2>14, Zenon
<1>5. ASSUME NEW k \in DOMAIN c
      PROVE  /\ c[k] \in 1 .. Len(x) - 1 /\ NameAt(x, c[k]).ok
             /\ Folded(NameAt(x, c[k]).labels) = k /\ Len(NameAt(x, c[k]).labels) >= 2
  <2>1. CASE k \in DOMAIN r.compress
    BY <1>2, <1>3, <2>1, Zenon DEF Compressed
  <2>2. CASE k \notin DOMAIN r.compress
    BY <1>3, <1>4, <2>2, Zenon
  <2> QED
    BY <2>1, <2>2
<1>6. Compressed(x, c)
  BY <1>3, <1>5, Zenon DEF Compressed
<1>7. \A k \in DOMAIN c \ DOMAIN r.compress : c[k] \in Nat /\ c[k] >= Len(r.output)
  <2> TAKE k \in DOMAIN c \ DOMAIN r.compress
  <2>1. c[k] \in 1 .. Len(x) - 1 /\ c[k] >= Len(r.output)
    BY <1>3, <1>4, Zenon
  <2> QED
    BY <2>1
<1> QED
  BY <1>3, <1>6, <1>7, Zenon

LEMMA WriteNameKeeps ==
    ASSUME NEW r, IsRenderer(r), Compressed(r.output, r.compress),
           NEW name, NEW n, n = Derelativized(name), IsWhole(n), NEW x, x = WriteName(r, name)
    PROVE  /\ IsRenderer(x) /\ Compressed(x.output, x.compress) /\ Grows(r, x)
           /\ Len(x.output) > Len(r.output) /\ EndsWith(x.output, Len(r.output), Len(x.output))
           /\ NameAt(x.output, Len(r.output)).ok
           /\ Folded(NameAt(x.output, Len(r.output)).labels) = Folded(n)
<1>0. /\ r.output \in Wires /\ Len(r.output) \in Nat /\ n \in Seq(Labels) /\ n # <<>>
      /\ Len(n) \in Nat /\ Len(n) > 0 /\ Len(r.output) >= 1
  <2>1. r.output \in Wires /\ n \in Seq(Labels) /\ n # <<>> /\ Len(r.output) >= 1
    BY DEF IsRenderer, IsWhole
  <2> QED
    BY <2>1, WireFacts, WholeSuffix
<1>1. PICK plain : plain = Unshared(r, n)
  OBVIOUS
<1>2. PICK o : o = Join(Join(r.output, NameCells(n, plain)), PointerCells(r, n, plain))
  OBVIOUS
<1>3. PICK c : c = Known(r, n, plain)
  OBVIOUS
<1>4. x = Grown(r, o, c)
  BY <1>1, <1>2, <1>3, WriteNameIs, Zenon
<1>5. x = [output |-> o, compress |-> c, section |-> r.section, counts |-> r.counts,
           max |-> r.max, fits |-> r.fits]
  <2>1. r = [output |-> r.output, compress |-> r.compress, section |-> r.section, counts |-> r.counts,
             max |-> r.max, fits |-> r.fits]
    BY DEF IsRenderer
  <2> QED
    BY ONLY <1>4, <2>1 DEF Grown
<1>6. /\ o \in Wires /\ Extends(r.output, o) /\ Len(o) > Len(r.output)
      /\ \A i \in 1 .. Len(n) : (i <= plain \/ i = 1) =>
                /\ EndsWith(o, Len(r.output) + i - 1, Len(o)) /\ NameAt(o, Len(r.output) + i - 1).ok
                /\ Folded(NameAt(o, Len(r.output) + i - 1).labels) = Folded(SuffixFrom(n, i))
  BY <1>1, <1>2, PartsRead
<1>7. EndsWith(o, Len(r.output), Len(o)) /\ NameAt(o, Len(r.output)).ok /\ Folded(NameAt(o, Len(r.output)).labels) = Folded(n)
  <2>1. 1 \in 1 .. Len(n) /\ Len(r.output) + 1 - 1 = Len(r.output) /\ SuffixFrom(n, 1) = n
    BY <1>0, WholeSuffix
  <2> QED
    BY <1>6, <2>1, Zenon
<1>8. /\ Compressed(o, c) /\ DOMAIN r.compress \subseteq DOMAIN c
      /\ \A k \in DOMAIN r.compress : c[k] = r.compress[k]
      /\ \A k \in DOMAIN c \ DOMAIN r.compress : c[k] \in Nat /\ c[k] >= Len(r.output)
  BY <1>1, <1>2, <1>3, KnownIsCompressed
<1>9. IsRenderer(x)
  <2>1. Len(o) >= 1 /\ o[1] = r.output[1]
    <3>1. Len(o) \in Nat
      BY <1>6, WireFacts
    <3> QED
      BY <1>0, <1>6, <3>1 DEF Extends
  <2> QED
    BY <1>5, <1>6, <2>1 DEF IsRenderer
<1>10. Grows(r, x)
  <2>1. c = [k \in DOMAIN c |-> c[k]]
    BY <1>8 DEF Compressed
  <2> QED
    BY <1>5, <1>6, <1>8, <2>1 DEF Grows
<1> QED
  BY <1>5, <1>6, <1>7, <1>8, <1>9, <1>10

-----------------------------------------------------------------------------
(* What is written behind what a renderer holds leaves it readable.        *)
LEMMA AppendCells ==
    ASSUME NEW w \in Wires, NEW c \in Cells
    PROVE  /\ Append(w, c) \in Wires /\ Len(Append(w, c)) = Len(w) + 1 /\ Append(w, c)[Len(w) + 1] = c
           /\ \A i \in 1 .. Len(w) : Append(w, c)[i] = w[i]
<1>1. w \in Seq(Cells)
  BY DEF Wires
<1> QED
  BY <1>1, AppendProperties DEF Wires

Longer(r, output) == [r EXCEPT !.output = output]

LEMMA LongerKeeps ==
    ASSUME NEW r, IsRenderer(r), Compressed(r.output, r.compress), NEW o \in Wires, Extends(r.output, o),
           NEW x, x = Longer(r, o)
    PROVE  /\ IsRenderer(x) /\ Compressed(x.output, x.compress) /\ Grows(r, x)
           /\ x.output = o /\ x.compress = r.compress
<1>1. x = [output |-> o, compress |-> r.compress, section |-> r.section, counts |-> r.counts,
           max |-> r.max, fits |-> r.fits]
  <2>1. r = [output |-> r.output, compress |-> r.compress, section |-> r.section, counts |-> r.counts,
             max |-> r.max, fits |-> r.fits]
    BY DEF IsRenderer
  <2> QED
    BY ONLY <2>1, x = Longer(r, o) DEF Longer
<1>2. r.output \in Wires /\ Len(r.output) \in Nat /\ Len(r.output) >= 1 /\ Len(o) \in Nat
  <2>1. r.output \in Wires /\ Len(r.output) >= 1
    BY DEF IsRenderer
  <2> QED
    BY <2>1, WireFacts
<1>3. Len(o) >= 1 /\ o[1] = r.output[1]
  BY <1>2 DEF Extends
<1>4. IsRenderer(x)
  BY <1>1, <1>3 DEF IsRenderer
<1>5. Compressed(o, r.compress)
  BY <1>2, ExtendsKeeps, StaysCompressed
<1>6. Grows(r, x)
  <2>1. r.compress = [k \in DOMAIN r.compress |-> r.compress[k]]
    BY <1>5 DEF Compressed
  <2> QED
    BY <1>1, <2>1 DEF Grows
<1> QED
  BY <1>1, <1>4, <1>5, <1>6

LEMMA WriteKeeps ==
    ASSUME NEW r, IsRenderer(r), Compressed(r.output, r.compress), NEW c \in Cells, NEW x, x = Write(r, c)
    PROVE  /\ IsRenderer(x) /\ Compressed(x.output, x.compress) /\ Grows(r, x)
           /\ Len(x.output) = Len(r.output) + 1 /\ x.output[Len(r.output) + 1] = c
<1>1. PICK w : w = r.output
  OBVIOUS
<1>2. PICK o : o = Append(w, c)
  OBVIOUS
<1>3. w \in Wires /\ Len(w) \in Nat
  <2>1. w \in Wires
    BY <1>1 DEF IsRenderer
  <2> QED
    BY <2>1, WireFacts
<1>4. o \in Wires /\ Len(o) = Len(w) + 1 /\ o[Len(w) + 1] = c /\ \A i \in 1 .. Len(w) : o[i] = w[i]
  BY <1>2, <1>3, AppendCells
<1>5. Extends(w, o)
  BY <1>3, <1>4 DEF Extends
<1>6. x = Longer(r, o)
  BY <1>1, <1>2 DEF Write, Longer
<1>7. IsRenderer(x) /\ Compressed(x.output, x.compress) /\ Grows(r, x) /\ x.output = o
  BY <1>1, <1>4, <1>5, <1>6, LongerKeeps
<1> QED
  BY <1>1, <1>4, <1>7, Zenon

Options(n) == [i \in 1 .. n |-> [kind |-> "option"]]

LEMMA OptionsKeep ==
    ASSUME NEW r, IsRenderer(r), Compressed(r.output, r.compress), NEW n \in Nat,
           NEW x, x = Longer(r, Join(r.output, Options(n)))
    PROVE  /\ IsRenderer(x) /\ Compressed(x.output, x.compress) /\ Grows(r, x)
           /\ Len(x.output) = Len(r.output) + n
<1>1. PICK w : w = r.output
  OBVIOUS
<1>2. PICK o : o = Join(w, Options(n))
  OBVIOUS
<1>3. w \in Wires /\ Len(w) \in Nat
  <2>1. w \in Wires
    BY <1>1 DEF IsRenderer
  <2> QED
    BY <2>1, WireFacts
<1>4. Options(n) \in Wires /\ Len(Options(n)) = n
  <2>1. [kind |-> "option"] \in Cells
    BY CellsMade
  <2>2. Options(n) \in [1 .. n -> Cells]
    BY <2>1, Zenon DEF Options
  <2>3. Options(n) \in Seq(Cells)
    BY <2>2, SeqDef, Zenon
  <2> QED
    BY <2>2, <2>3, LenProperties, SameCount DEF Wires
<1>5. o \in Wires /\ Len(o) = Len(w) + n /\ \A i \in 1 .. Len(w) : o[i] = w[i]
  BY <1>2, <1>3, <1>4, JoinCells
<1>6. Extends(w, o)
  BY <1>3, <1>5 DEF Extends
<1>7. x = Longer(r, o)
  BY <1>1, <1>2, Zenon
<1>8. IsRenderer(x) /\ Compressed(x.output, x.compress) /\ Grows(r, x) /\ x.output = o
  BY <1>1, <1>5, <1>6, <1>7, LongerKeeps
<1> QED
  BY <1>1, <1>5, <1>8, Zenon

LEMMA GrowsOn ==
    ASSUME NEW r, NEW x, NEW y, Grows(r, x), Grows(x, y), Len(r.output) \in Nat, Len(x.output) \in Nat, Len(y.output) \in Nat
    PROVE  Grows(r, y)
<1>1. Extends(r.output, y.output)
  BY DEF Grows, Extends
<1>2. ASSUME NEW n \in DOMAIN y.compress \ DOMAIN r.compress
      PROVE  y.compress[n] \in Nat /\ y.compress[n] >= Len(r.output)
  <2>1. CASE n \in DOMAIN x.compress
    BY <1>2, <2>1 DEF Grows
  <2>2. CASE n \notin DOMAIN x.compress
    <3>1. y.compress[n] \in Nat /\ y.compress[n] >= Len(x.output) /\ Len(x.output) >= Len(r.output)
      BY <1>2, <2>2 DEF Grows, Extends
    <3> QED
      BY <3>1
  <2> QED
    BY <2>1, <2>2
<1>3. /\ DOMAIN r.compress \subseteq DOMAIN y.compress
      /\ \A n \in DOMAIN r.compress : y.compress[n] = r.compress[n]
  BY DEF Grows
<1>4. /\ y.compress = [n \in DOMAIN y.compress |-> y.compress[n]]
      /\ y.section = r.section /\ y.counts = r.counts /\ y.max = r.max /\ y.fits = r.fits
  BY DEF Grows
<1> QED
  BY <1>1, <1>2, <1>3, <1>4 DEF Grows

(* The length of the data of the record at i is filled in.                 *)
Patched(r, i, n) == [r EXCEPT !.output[i].rdlen = n]

LEMMA PatchedKeeps ==
    ASSUME NEW s, IsRenderer(s), NEW r, IsRenderer(r), Compressed(r.output, r.compress), Grows(s, r),
           NEW i \in Nat, i > Len(s.output), i <= Len(r.output), NEW type \in Types,
           r.output[i] = [kind |-> "record", type |-> type, rdlen |-> 0], NEW n \in Nat,
           NEW x, x = Patched(r, i, n)
    PROVE  /\ IsRenderer(x) /\ Compressed(x.output, x.compress) /\ Grows(s, x)
           /\ Len(x.output) = Len(r.output) /\ x.output[i] = [kind |-> "record", type |-> type, rdlen |-> n]
           /\ \A j \in 1 .. Len(r.output) : j # i => x.output[j] = r.output[j]
           /\ Keeps(r.output, x.output)
<1>1. PICK w : w = r.output
  OBVIOUS
<1>2. PICK o : o = [w EXCEPT ![i] = [kind |-> "record", type |-> type, rdlen |-> n]]
  OBVIOUS
<1>3. /\ w \in Wires /\ Len(w) \in Nat /\ Len(w) >= 1 /\ i \in 1 .. Len(w) /\ DOMAIN w = 1 .. Len(w) /\ i # 1
      /\ s.output \in Wires /\ Len(s.output) \in Nat /\ w[1].kind = "header"
  <2>1. w \in Wires /\ Len(w) >= 1 /\ s.output \in Wires /\ Len(s.output) >= 1 /\ w[1].kind = "header"
    BY <1>1 DEF IsRenderer
  <2>2. Len(w) \in Nat /\ DOMAIN w = 1 .. Len(w) /\ Len(s.output) \in Nat
    BY <2>1, WireFacts
  <2> QED
    BY <1>1, <2>1, <2>2
<1>4. [kind |-> "record", type |-> type, rdlen |-> n] \in Cells
  BY CellsMade
<1>5. o \in Wires /\ Len(o) = Len(w)
  <2>1. w \in [1 .. Len(w) -> Cells]
    BY <1>3, LenProperties DEF Wires
  <2>2. o \in [1 .. Len(w) -> Cells]
    BY <1>2, <1>4, <2>1, Zenon
  <2>3. o \in Seq(Cells)
    BY <1>3, <2>2, SeqDef, Zenon
  <2> QED
    BY <1>3, <2>2, <2>3, LenProperties, SameCount DEF Wires
<1>6. /\ o[i] = [kind |-> "record", type |-> type, rdlen |-> n]
      /\ \A j \in 1 .. Len(w) : j # i => o[j] = w[j]
  BY <1>2, <1>3, Zenon
<1>7. Keeps(w, o)
  <2>1. w[i].kind = "record"
    BY <1>1
  <2>2. "record" \notin NameKinds
    BY DEF NameKinds
  <2> QED
    BY <1>3, <1>5, <1>6, <2>1, <2>2 DEF Keeps
<1>8. x = [output |-> o, compress |-> r.compress, section |-> r.section, counts |-> r.counts,
           max |-> r.max, fits |-> r.fits]
  <2>1. r = [output |-> w, compress |-> r.compress, section |-> r.section, counts |-> r.counts,
             max |-> r.max, fits |-> r.fits]
    BY <1>1 DEF IsRenderer
  <2>2. [w[i] EXCEPT !.rdlen = n] = [kind |-> "record", type |-> type, rdlen |-> n]
    BY <1>1
  <2>3. o = [w EXCEPT ![i] = [w[i] EXCEPT !.rdlen = n]]
    BY <1>2, <2>2, Zenon
  <2>4. x = [r EXCEPT !.output = [w EXCEPT ![i] = [w[i] EXCEPT !.rdlen = n]]]
    BY <1>1 DEF Patched
  <2>5. x = [r EXCEPT !.output = o]
    BY <2>3, <2>4, Zenon
  <2> QED
    BY ONLY <2>1, <2>5
<1>9. IsRenderer(x)
  <2>1. o[1] = w[1]
    BY <1>3, <1>6
  <2> QED
    BY <1>1, <1>3, <1>5, <1>8, <2>1 DEF IsRenderer
<1>10. Compressed(o, r.compress)
  BY <1>1, <1>3, <1>5, <1>7, StaysCompressed
<1>11. Grows(s, x)
  <2>1. Extends(s.output, o)
    BY <1>1, <1>3, <1>5, <1>6 DEF Grows, Extends
  <2> QED
    BY <1>8, <2>1 DEF Grows
<1> QED
  BY <1>1, <1>5, <1>6, <1>7, <1>8, <1>9, <1>10, <1>11

-----------------------------------------------------------------------------
(* A record was written behind w: its owner D and a fixed part that says   *)
(* how much follows.                                                       *)
RecordWritten(w, x, D, type) ==
    /\ NameAt(x, Len(w)).ok /\ Folded(NameAt(x, Len(w)).labels) = Folded(D)
    /\ AfterName(x, Len(w)) \in Len(w) + 1 .. Len(x) - 1
    /\ x[AfterName(x, Len(w)) + 1] =
         [kind |-> "record", type |-> type, rdlen |-> Len(x) - (AfterName(x, Len(w)) + 1)]

(* As far as the fixed part.                                               *)
Begun(r, open, D, type) ==
    /\ Grows(r, open)
    /\ NameAt(open.output, Len(r.output)).ok /\ Folded(NameAt(open.output, Len(r.output)).labels) = Folded(D)
    /\ AfterName(open.output, Len(r.output)) = Len(open.output) - 1 /\ Len(open.output) > Len(r.output) + 1
    /\ open.output[Len(open.output)] = [kind |-> "record", type |-> type, rdlen |-> 0]

Opened(r, name, type) == Write(WriteName(r, name), [kind |-> "record", type |-> type, rdlen |-> 0])

LEMMA RecordOpens ==
    ASSUME NEW r, IsRenderer(r), Compressed(r.output, r.compress),
           NEW name, NEW D, D = Derelativized(name), IsWhole(D), NEW type \in Types, NEW x, x = Opened(r, name, type)
    PROVE  IsRenderer(x) /\ Compressed(x.output, x.compress) /\ Begun(r, x, D, type)
<1>1. PICK o : o = WriteName(r, name)
  OBVIOUS
<1>2. /\ IsRenderer(o) /\ Compressed(o.output, o.compress) /\ Grows(r, o)
      /\ Len(o.output) > Len(r.output) /\ EndsWith(o.output, Len(r.output), Len(o.output))
      /\ NameAt(o.output, Len(r.output)).ok
      /\ Folded(NameAt(o.output, Len(r.output)).labels) = Folded(D)
  BY <1>1, WriteNameKeeps
<1>3. [kind |-> "record", type |-> type, rdlen |-> 0] \in Cells
  BY CellsMade
<1>4. PICK c : c = [kind |-> "record", type |-> type, rdlen |-> 0]
  OBVIOUS
<1>5. c \in Cells /\ x = Write(o, c)
  BY <1>1, <1>3, <1>4, Zenon DEF Opened
<1>6. /\ IsRenderer(x) /\ Compressed(x.output, x.compress) /\ Grows(o, x)
      /\ Len(x.output) = Len(o.output) + 1 /\ x.output[Len(o.output) + 1] = c
  BY <1>2, <1>5, WriteKeeps
<1>7. /\ r.output \in Wires /\ o.output \in Wires /\ x.output \in Wires
      /\ Len(r.output) \in Nat /\ Len(o.output) \in Nat /\ Len(x.output) \in Nat
  <2>1. r.output \in Wires /\ o.output \in Wires /\ x.output \in Wires
    BY <1>2, <1>6 DEF IsRenderer
  <2> QED
    BY <2>1, WireFacts
<1>8. Grows(r, x)
  BY <1>2, <1>6, <1>7, GrowsOn
<1>9. Keeps(o.output, x.output)
  BY <1>6, ExtendsKeeps DEF Grows
<1>10. PICK a : a = o.output
  OBVIOUS
<1>11. PICK b : b = x.output
  OBVIOUS
<1>12. PICK s : s = Len(r.output)
  OBVIOUS
<1>13. a \in Wires /\ b \in Wires /\ Keeps(a, b) /\ s \in 0 .. Len(a) /\ NameAt(a, s).ok /\ s \in Nat /\ EndsWith(a, s, Len(a))
  BY <1>2, <1>7, <1>9, <1>10, <1>11, <1>12
<1>14. NameAt(b, s) = NameAt(a, s) /\ AfterName(b, s) = AfterName(a, s)
  BY <1>13, ReadStays
<1>15. AfterName(a, s) = Len(a)
  BY <1>13, EndsWithAfter
<1>16. NameAt(b, s).ok /\ Folded(NameAt(b, s).labels) = Folded(D) /\ AfterName(b, s) = Len(a)
  BY <1>2, <1>10, <1>12, <1>14, <1>15, Zenon
<1>17. Len(a) = Len(b) - 1 /\ Len(b) > s + 1 /\ b[Len(b)] = c
  BY <1>2, <1>6, <1>7, <1>10, <1>11, <1>12
<1> QED
  BY <1>4, <1>6, <1>8, <1>11, <1>12, <1>16, <1>17, Zenon DEF Begun

Closed(whole, f) == Patched(whole, f, Len(whole.output) - f)

Filling(r, D, type, open, whole) ==
    /\ IsRenderer(r) /\ type \in Types /\ IsRenderer(open) /\ Begun(r, open, D, type)
    /\ IsRenderer(whole) /\ Compressed(whole.output, whole.compress) /\ Grows(open, whole)

Complete(r, D, type, whole, f, x) ==
    /\ IsRenderer(x) /\ Compressed(x.output, x.compress) /\ Grows(r, x)
    /\ RecordWritten(r.output, x.output, D, type) /\ AfterName(x.output, Len(r.output)) + 1 = f
    /\ Len(x.output) = Len(whole.output) /\ Keeps(whole.output, x.output)
    /\ \A j \in f + 1 .. Len(whole.output) : x.output[j] = whole.output[j]

LEMMA RecordCloses ==
    ASSUME NEW r, NEW D, NEW type, NEW open, NEW whole, Filling(r, D, type, open, whole),
           NEW f, f = Len(open.output), NEW x, x = Closed(whole, f)
    PROVE  Complete(r, D, type, whole, f, x)
<1> /\ IsRenderer(r) /\ type \in Types /\ IsRenderer(open) /\ Begun(r, open, D, type)
    /\ IsRenderer(whole) /\ Compressed(whole.output, whole.compress) /\ Grows(open, whole)
  BY DEF Filling
<1>0. /\ Grows(r, open)
      /\ NameAt(open.output, Len(r.output)).ok /\ Folded(NameAt(open.output, Len(r.output)).labels) = Folded(D)
      /\ AfterName(open.output, Len(r.output)) = Len(open.output) - 1 /\ Len(open.output) > Len(r.output) + 1
      /\ open.output[Len(open.output)] = [kind |-> "record", type |-> type, rdlen |-> 0]
  BY DEF Begun
<1>1. /\ r.output \in Wires /\ open.output \in Wires /\ whole.output \in Wires
      /\ Len(r.output) \in Nat /\ Len(open.output) \in Nat /\ Len(whole.output) \in Nat
      /\ Len(open.output) <= Len(whole.output)
  <2>1. r.output \in Wires /\ open.output \in Wires /\ whole.output \in Wires
    BY DEF IsRenderer
  <2>2. Len(open.output) <= Len(whole.output)
    BY DEF Grows, Extends
  <2> QED
    BY <2>1, <2>2, WireFacts
<1>2. f = Len(open.output)
  OBVIOUS
<1>3. PICK n : n = Len(whole.output) - f
  OBVIOUS
<1>4. Grows(r, whole)
  BY <1>0, <1>1, GrowsOn
<1>5. f \in Nat /\ f > Len(r.output) /\ f <= Len(whole.output) /\ n \in Nat /\ f >= 1
  BY <1>0, <1>1, <1>2, <1>3
<1>6. whole.output[f] = [kind |-> "record", type |-> type, rdlen |-> 0]
  <2>1. f \in 1 .. Len(open.output)
    BY <1>2, <1>5
  <2>2. whole.output[f] = open.output[f]
    BY <2>1 DEF Grows, Extends
  <2> QED
    BY <1>0, <1>2, <2>2
<1>7. x = Patched(whole, f, n)
  BY <1>2, <1>3, Zenon DEF Closed
<1>8. /\ IsRenderer(x) /\ Compressed(x.output, x.compress) /\ Grows(r, x)
      /\ Len(x.output) = Len(whole.output) /\ x.output[f] = [kind |-> "record", type |-> type, rdlen |-> n]
      /\ \A j \in 1 .. Len(whole.output) : j # f => x.output[j] = whole.output[j]
      /\ Keeps(whole.output, x.output)
  <2>1. f > Len(r.output) /\ f <= Len(whole.output) /\ f \in Nat /\ n \in Nat
    BY <1>5
  <2> QED
    BY ONLY IsRenderer(r), IsRenderer(whole), Compressed(whole.output, whole.compress), type \in Types, <1>4, <1>6, <1>7, <2>1, PatchedKeeps
<1>9. PICK a : a = open.output
  OBVIOUS
<1>10. PICK b : b = x.output
  OBVIOUS
<1>11. PICK s : s = Len(r.output)
  OBVIOUS
<1>12. a \in Wires /\ b \in Wires /\ s \in 0 .. Len(a) /\ s \in Nat
  BY <1>0, <1>1, <1>8, <1>9, <1>10, <1>11 DEF IsRenderer
<1>13. Keeps(a, b)
  <2>1. Len(a) <= Len(b) /\ Len(b) \in Nat
    BY <1>1, <1>8, <1>9, <1>10
  <2>2. ASSUME NEW i \in 1 .. Len(a), a[i].kind \in NameKinds
        PROVE  b[i] = a[i]
    <3>1. i # f
      <4>1. a[f].kind = "record"
        BY <1>0, <1>2, <1>9
      <4>2. "record" \notin NameKinds
        BY DEF NameKinds
      <4> QED
        BY <2>2, <4>1, <4>2
    <3>2. i \in 1 .. Len(whole.output)
      BY <1>1, <1>9
    <3>3. whole.output[i] = a[i]
      BY <1>9 DEF Grows, Extends
    <3> QED
      BY <1>8, <1>10, <3>1, <3>2, <3>3
  <2> QED
    BY <2>1, <2>2 DEF Keeps
<1>14. NameAt(a, s).ok
  BY <1>0, <1>9, <1>11
<1>15. NameAt(b, s) = NameAt(a, s) /\ AfterName(b, s) = AfterName(a, s)
  BY <1>12, <1>13, <1>14, ReadStays
<1>16. AfterName(b, s) + 1 = f /\ AfterName(b, s) \in s + 1 .. Len(b) - 1
  <2>1. PICK e : e = AfterName(b, s)
    OBVIOUS
  <2>2. e = Len(a) - 1
    BY <1>0, <1>9, <1>11, <1>15, <2>1
  <2>3. e = f - 1 /\ f > s + 1 /\ f <= Len(b) /\ s \in Nat /\ f \in Nat /\ Len(b) \in Nat
    BY <1>0, <1>1, <1>2, <1>5, <1>8, <1>9, <1>10, <1>11, <2>2
  <2>4. e + 1 = f /\ e \in s + 1 .. Len(b) - 1
    BY <2>3
  <2> QED
    BY <2>1, <2>4
<1>17. RecordWritten(r.output, x.output, D, type)
  <2>1. NameAt(b, s).ok /\ Folded(NameAt(b, s).labels) = Folded(D)
    BY <1>0, <1>9, <1>11, <1>15, Zenon
  <2>2. n = Len(b) - f
    BY <1>3, <1>8, <1>10
  <2>3. b[AfterName(b, s) + 1] = [kind |-> "record", type |-> type, rdlen |-> Len(b) - (AfterName(b, s) + 1)]
    BY <1>8, <1>10, <1>16, <2>2, Zenon
  <2> QED
    BY <1>10, <1>11, <1>16, <2>1, <2>3, Zenon DEF RecordWritten
<1>18. \A j \in f + 1 .. Len(whole.output) : x.output[j] = whole.output[j]
  <2> TAKE j \in f + 1 .. Len(whole.output)
  <2>1. j \in 1 .. Len(whole.output) /\ j # f
    BY <1>1, <1>5
  <2> QED
    BY <1>8, <2>1
<1> QED
  BY <1>2, <1>8, <1>10, <1>11, <1>16, <1>17, <1>18, Zenon DEF Complete

Filled(open, type, rd) ==
    CASE type = "NS" -> WriteName(open, rd)
      [] type = "OPT" -> Longer(open, Join(open.output, Options(rd)))
      [] OTHER -> Write(open, [kind |-> "datum", value |-> rd])

LEMMA WriteRecordIs ==
    ASSUME NEW r, NEW name, NEW type, NEW rd
    PROVE  WriteRecord(r, name, type, rd) =
             Closed(Filled(Opened(r, name, type), type, rd), Len(WriteName(r, name).output) + 1)
BY Zenon DEF WriteRecord, Opened, Longer, Join, Options, Patched, Closed, Filled

LEMMA OpenedLen ==
    ASSUME NEW r, IsRenderer(r), Compressed(r.output, r.compress),
           NEW name, NEW D, D = Derelativized(name), IsWhole(D), NEW type \in Types
    PROVE  Len(WriteName(r, name).output) + 1 = Len(Opened(r, name, type).output)
<1>1. PICK o : o = WriteName(r, name)
  OBVIOUS
<1>2. IsRenderer(o) /\ Compressed(o.output, o.compress)
  BY <1>1, WriteNameKeeps
<1>3. PICK c : c = [kind |-> "record", type |-> type, rdlen |-> 0]
  OBVIOUS
<1>4. c \in Cells
  BY <1>3, CellsMade
<1>5. Len(Write(o, c).output) = Len(o.output) + 1
  BY <1>2, <1>4, WriteKeeps
<1> QED
  BY <1>1, <1>3, <1>5, Zenon DEF Opened

LEMMA RecordMade ==
    ASSUME NEW r, IsRenderer(r), Compressed(r.output, r.compress),
           NEW name, IsWhole(Derelativized(name)), NEW type \in Types, NEW rd
    PROVE  WriteRecord(r, name, type, rd) =
             Closed(Filled(Opened(r, name, type), type, rd), Len(Opened(r, name, type).output))
BY WriteRecordIs, OpenedLen, Zenon

(* A record whose data are a name, one with other data, and the OPT.       *)
LEMMA NameRecordWritten ==
    ASSUME NEW r, IsRenderer(r), Compressed(r.output, r.compress),
           NEW name, NEW D, D = Derelativized(name), IsWhole(D), "NS" \in Types,
           NEW rd, NEW T, T = Derelativized(rd), IsWhole(T), NEW x, x = WriteRecord(r, name, "NS", rd)
    PROVE  /\ IsRenderer(x) /\ Compressed(x.output, x.compress) /\ Grows(r, x)
           /\ RecordWritten(r.output, x.output, D, "NS")
           /\ NameAt(x.output, AfterName(x.output, Len(r.output)) + 1).ok
           /\ Folded(NameAt(x.output, AfterName(x.output, Len(r.output)) + 1).labels) = Folded(T)
           /\ AfterName(x.output, AfterName(x.output, Len(r.output)) + 1) = Len(x.output)
<1>1. PICK open : open = Opened(r, name, "NS")
  OBVIOUS
<1>2. IsRenderer(open) /\ Compressed(open.output, open.compress) /\ Begun(r, open, D, "NS")
  BY <1>1, RecordOpens
<1>3. PICK whole : whole = WriteName(open, rd)
  OBVIOUS
<1>4. /\ IsRenderer(whole) /\ Compressed(whole.output, whole.compress) /\ Grows(open, whole)
      /\ Len(whole.output) > Len(open.output) /\ EndsWith(whole.output, Len(open.output), Len(whole.output))
      /\ NameAt(whole.output, Len(open.output)).ok
      /\ Folded(NameAt(whole.output, Len(open.output)).labels) = Folded(T)
  BY <1>2, <1>3, WriteNameKeeps
<1>f. PICK f : f = Len(open.output)
  OBVIOUS
<1>5. x = Closed(whole, f)
  <2>1. whole = Filled(open, "NS", rd)
    BY <1>3 DEF Filled
  <2> QED
    BY <1>1, <1>f, <2>1, RecordMade
<1>6. /\ IsRenderer(x) /\ Compressed(x.output, x.compress) /\ Grows(r, x)
      /\ RecordWritten(r.output, x.output, D, "NS") /\ AfterName(x.output, Len(r.output)) + 1 = f
      /\ Len(x.output) = Len(whole.output) /\ Keeps(whole.output, x.output)
  <2>1. Filling(r, D, "NS", open, whole)
    BY <1>2, <1>4 DEF Filling
  <2>2. Complete(r, D, "NS", whole, f, x)
    BY <1>5, <1>f, <2>1, RecordCloses, Zenon
  <2> QED
    BY <2>2 DEF Complete
<1>7. PICK a : a = whole.output
  OBVIOUS
<1>8. PICK b : b = x.output
  OBVIOUS
<1>9. PICK s : s = f
  OBVIOUS
<1>e. s = Len(open.output)
  BY <1>9, <1>f
<1>10. a \in Wires /\ b \in Wires /\ s \in 0 .. Len(a) /\ s \in Nat
  <2>1. open.output \in Wires /\ a \in Wires /\ b \in Wires
    BY <1>2, <1>4, <1>6, <1>7, <1>8 DEF IsRenderer
  <2>2. s \in Nat /\ Len(a) \in Nat /\ Len(a) > s
    BY <1>4, <1>7, <1>e, <2>1, WireFacts
  <2> QED
    BY <2>1, <2>2
<1>11. NameAt(a, s).ok /\ EndsWith(a, s, Len(a)) /\ Folded(NameAt(a, s).labels) = Folded(T)
  BY <1>4, <1>7, <1>e
<1>12. NameAt(b, s) = NameAt(a, s) /\ AfterName(b, s) = AfterName(a, s)
  BY <1>6, <1>7, <1>8, <1>10, <1>11, ReadStays
<1>13. AfterName(a, s) = Len(b)
  BY <1>6, <1>7, <1>8, <1>10, <1>11, EndsWithAfter
<1> QED
  BY <1>6, <1>8, <1>9, <1>11, <1>12, <1>13, Zenon

LEMMA DataRecordWritten ==
    ASSUME NEW r, IsRenderer(r), Compressed(r.output, r.compress),
           NEW name, NEW D, D = Derelativized(name), IsWhole(D), NEW type \in Types, type \notin {"NS", "OPT"},
           NEW rd \in Values, NEW x, x = WriteRecord(r, name, type, rd)
    PROVE  /\ IsRenderer(x) /\ Compressed(x.output, x.compress) /\ Grows(r, x)
           /\ RecordWritten(r.output, x.output, D, type)
           /\ AfterName(x.output, Len(r.output)) + 2 = Len(x.output)
           /\ x.output[AfterName(x.output, Len(r.output)) + 2] = [kind |-> "datum", value |-> rd]
<1>1. PICK open : open = Opened(r, name, type)
  OBVIOUS
<1>2. IsRenderer(open) /\ Compressed(open.output, open.compress) /\ Begun(r, open, D, type)
  BY <1>1, RecordOpens
<1>c. PICK c : c = [kind |-> "datum", value |-> rd]
  OBVIOUS
<1>d. c \in Cells
  BY <1>c, CellsMade
<1>3. PICK whole : whole = Write(open, c)
  OBVIOUS
<1>4. /\ IsRenderer(whole) /\ Compressed(whole.output, whole.compress) /\ Grows(open, whole)
      /\ Len(whole.output) = Len(open.output) + 1 /\ whole.output[Len(open.output) + 1] = c
  BY <1>2, <1>3, <1>d, WriteKeeps
<1>f. PICK f : f = Len(open.output)
  OBVIOUS
<1>5. x = Closed(whole, f)
  <2>1. whole = Filled(open, type, rd)
    BY <1>3, <1>c DEF Filled
  <2> QED
    BY <1>1, <1>f, <2>1, RecordMade
<1>6. /\ IsRenderer(x) /\ Compressed(x.output, x.compress) /\ Grows(r, x)
      /\ RecordWritten(r.output, x.output, D, type) /\ AfterName(x.output, Len(r.output)) + 1 = f
      /\ Len(x.output) = Len(whole.output)
      /\ \A j \in f + 1 .. Len(whole.output) : x.output[j] = whole.output[j]
  <2>1. Filling(r, D, type, open, whole)
    BY <1>2, <1>4 DEF Filling
  <2>2. Complete(r, D, type, whole, f, x)
    BY <1>5, <1>f, <2>1, RecordCloses, Zenon
  <2> QED
    BY <2>2 DEF Complete
<1>7. Len(open.output) \in Nat /\ Len(whole.output) \in Nat
  <2>1. open.output \in Wires /\ whole.output \in Wires
    BY <1>2, <1>4 DEF IsRenderer
  <2> QED
    BY <2>1, WireFacts
<1>8. PICK e : e = AfterName(x.output, Len(r.output))
  OBVIOUS
<1>9. e \in Nat /\ e + 1 = Len(open.output) /\ e + 1 = f
  <2>1. e \in Len(r.output) + 1 .. Len(x.output) - 1 /\ Len(r.output) \in Nat
    <3>1. r.output \in Wires
      BY DEF IsRenderer
    <3> QED
      BY <1>6, <1>8, <3>1, WireFacts DEF RecordWritten
  <2> QED
    BY <1>6, <1>8, <1>f, <2>1
<1>10. e + 2 = Len(x.output) /\ e + 2 = Len(open.output) + 1 /\ e + 2 \in f + 1 .. Len(whole.output)
  BY <1>4, <1>6, <1>7, <1>9
<1>11. x.output[e + 2] = c
  BY <1>4, <1>6, <1>10, Zenon
<1> QED
  BY <1>6, <1>8, <1>10, <1>11, <1>c, Zenon

LEMMA OptionRecordWritten ==
    ASSUME NEW r, IsRenderer(r), Compressed(r.output, r.compress),
           NEW name, NEW D, D = Derelativized(name), IsWhole(D), NEW n \in Nat, NEW x, x = WriteRecord(r, name, "OPT", n)
    PROVE  /\ IsRenderer(x) /\ Compressed(x.output, x.compress) /\ Grows(r, x)
           /\ RecordWritten(r.output, x.output, D, "OPT")
<1>0. "OPT" \in Types
  BY DEF Types
<1>1. PICK open : open = Opened(r, name, "OPT")
  OBVIOUS
<1>2. IsRenderer(open) /\ Compressed(open.output, open.compress) /\ Begun(r, open, D, "OPT")
  BY <1>0, <1>1, RecordOpens
<1>3. PICK whole : whole = Longer(open, Join(open.output, Options(n)))
  OBVIOUS
<1>4. IsRenderer(whole) /\ Compressed(whole.output, whole.compress) /\ Grows(open, whole)
  BY <1>2, <1>3, OptionsKeep
<1>f. PICK f : f = Len(open.output)
  OBVIOUS
<1>5. x = Closed(whole, f)
  <2>1. whole = Filled(open, "OPT", n)
    BY <1>3 DEF Filled
  <2> QED
    BY <1>0, <1>1, <1>f, <2>1, RecordMade
<1>6. /\ IsRenderer(x) /\ Compressed(x.output, x.compress) /\ Grows(r, x)
      /\ RecordWritten(r.output, x.output, D, "OPT")
  <2>1. Filling(r, D, "OPT", open, whole)
    BY <1>0, <1>2, <1>4 DEF Filling
  <2>2. Complete(r, D, "OPT", whole, f, x)
    BY <1>5, <1>f, <2>1, RecordCloses, Zenon
  <2> QED
    BY <2>2 DEF Complete
<1> QED
  BY <1>6

-----------------------------------------------------------------------------
(* What was written is undone: the output, and what points into it.        *)
LEMMA RolledBack ==
    ASSUME NEW r, IsRenderer(r), Compressed(r.output, r.compress), NEW x, IsRenderer(x),
           Extends(r.output, x.output), DOMAIN r.compress \subseteq DOMAIN x.compress,
           \A n \in DOMAIN r.compress : x.compress[n] = r.compress[n],
           \A n \in DOMAIN x.compress \ DOMAIN r.compress : x.compress[n] \in Nat /\ x.compress[n] >= Len(r.output)
    PROVE  Rollback(x, Len(r.output)) = Grown(x, r.output, r.compress)
<1>0. /\ r.output \in Wires /\ x.output \in Wires /\ Len(r.output) \in Nat /\ Len(x.output) \in Nat
      /\ Len(r.output) <= Len(x.output)
  <2>1. r.output \in Wires /\ x.output \in Wires
    BY DEF IsRenderer
  <2> QED
    BY <2>1, WireFacts DEF Extends
<1>1. SubSeq(x.output, 1, Len(r.output)) = r.output
  <2>1. r.output \in Seq(Cells) /\ x.output \in Seq(Cells)
    BY <1>0 DEF Wires
  <2>2. /\ SubSeq(x.output, 1, Len(r.output)) \in Seq(Cells) /\ Len(SubSeq(x.output, 1, Len(r.output))) = Len(r.output)
        /\ \A i \in 1 .. Len(r.output) : SubSeq(x.output, 1, Len(r.output))[i] = x.output[i]
    BY <1>0, <2>1, SubSeqProperties
  <2>3. \A i \in 1 .. Len(r.output) : x.output[i] = r.output[i]
    BY DEF Extends
  <2> QED
    BY <2>1, <2>2, <2>3, SeqEqual
<1>2. {n \in DOMAIN x.compress : x.compress[n] < Len(r.output)} = DOMAIN r.compress
  <2>1. ASSUME NEW n \in DOMAIN r.compress
        PROVE  n \in DOMAIN x.compress /\ x.compress[n] < Len(r.output)
    <3>1. r.compress[n] \in 1 .. Len(r.output) - 1
      BY DEF Compressed
    <3> QED
      BY <1>0, <3>1
  <2>2. ASSUME NEW n \in DOMAIN x.compress, x.compress[n] < Len(r.output)
        PROVE  n \in DOMAIN r.compress
    BY <1>0, <2>2
  <2> QED
    BY <2>1, <2>2
<1>3. Restrict(x.compress, DOMAIN r.compress) = r.compress
  <2>1. r.compress = [n \in DOMAIN r.compress |-> r.compress[n]]
    BY DEF Compressed
  <2> QED
    BY <2>1 DEF Restrict
<1> QED
  BY <1>1, <1>2, <1>3, Zenon DEF Rollback, Grown

-----------------------------------------------------------------------------
(* Names that are given, made absolute and relative again.                 *)
LEMMA AbsoluteIs == \A name : Absolute(name) <=> name # <<>> /\ name[Len(name)] = Empty
BY Zenon DEF Absolute, Last, Empty

LEMMA GivenFacts ==
    ASSUME NEW name \in NamesGiven
    PROVE  /\ name \in Seq(Labels) /\ Len(name) \in Nat
           /\ \A i \in 1 .. Len(name) - 1 : name[i] # Empty
<1>1. name \in Seq(Labels) /\ \A i \in 1 .. Len(name) - 1 : name[i] # Empty
  BY WireAssumption, Zenon DEF Empty
<1> QED
  BY <1>1, LenProperties

LEMMA OriginFacts ==
    /\ IsWhole(ZoneOrigin) /\ ZoneOrigin \in Seq(Labels) /\ Len(ZoneOrigin) \in Nat /\ Len(ZoneOrigin) >= 1
    /\ ZoneOrigin[Len(ZoneOrigin)] = Empty
<1>1. ZoneOrigin \in NamesGiven
  BY Zenon DEF NamesGiven
<1>2. /\ ZoneOrigin \in Seq(Labels) /\ Len(ZoneOrigin) \in Nat
      /\ \A i \in 1 .. Len(ZoneOrigin) - 1 : ZoneOrigin[i] # Empty
  BY <1>1, GivenFacts
<1>3. ZoneOrigin # <<>> /\ ZoneOrigin[Len(ZoneOrigin)] = Empty
  BY WireAssumption, Zenon DEF Last, Empty
<1>4. Len(ZoneOrigin) \in Nat /\ Len(ZoneOrigin) > 0
  BY <1>2, <1>3, WholeSuffix
<1>5. \A i \in 1 .. Len(ZoneOrigin) : i \in 1 .. Len(ZoneOrigin) - 1 \/ i = Len(ZoneOrigin)
  BY <1>4
<1>6. \A i \in 1 .. Len(ZoneOrigin) - 1 : i # Len(ZoneOrigin)
  BY <1>4
<1>7. \A i \in 1 .. Len(ZoneOrigin) : (ZoneOrigin[i] = Empty) <=> (i = Len(ZoneOrigin))
  BY <1>2, <1>3, <1>5, <1>6, Zenon
<1> QED
  BY <1>2, <1>3, <1>4, <1>7 DEF IsWhole

LEMMA DerelativizedWhole ==
    ASSUME NEW name \in NamesGiven
    PROVE  IsWhole(Derelativized(name))
<1>1. /\ name \in Seq(Labels) /\ Len(name) \in Nat
      /\ \A i \in 1 .. Len(name) - 1 : name[i] # Empty
  BY GivenFacts
<1>2. CASE Absolute(name)
  <2>1. name # <<>> /\ name[Len(name)] = Empty /\ Derelativized(name) = name
    BY <1>2, AbsoluteIs, Zenon DEF Derelativized
  <2>2. Len(name) > 0
    BY <1>1, <2>1, WholeSuffix
  <2>3. \A i \in 1 .. Len(name) : i \in 1 .. Len(name) - 1 \/ i = Len(name)
    BY <1>1, <2>2
  <2>4. \A i \in 1 .. Len(name) - 1 : i # Len(name)
    BY <1>1
  <2>5. \A i \in 1 .. Len(name) : (name[i] = Empty) <=> (i = Len(name))
    BY <1>1, <2>1, <2>3, <2>4, Zenon
  <2> QED
    BY <1>1, <2>1, <2>5 DEF IsWhole
<1>3. CASE ~Absolute(name)
  <2>1. PICK D : D = Join(name, ZoneOrigin)
    OBVIOUS
  <2>2. Derelativized(name) = D
    BY <1>3, <2>1, Zenon DEF Derelativized, Join
  <2>3. /\ D \in Seq(Labels) /\ Len(D) = Len(name) + Len(ZoneOrigin)
        /\ \A i \in 1 .. Len(name) : D[i] = name[i]
        /\ \A i \in 1 .. Len(ZoneOrigin) : D[Len(name) + i] = ZoneOrigin[i]
    BY <1>1, <2>1, OriginFacts, JoinLabels
  <2>4. \A i \in 1 .. Len(name) : name[i] # Empty
    <3>1. name = <<>> \/ name[Len(name)] # Empty
      BY <1>3, AbsoluteIs, Zenon
    <3>2. name = <<>> => Len(name) = 0
      BY EmptySeq
    <3>3. \A i \in 1 .. Len(name) : i \in 1 .. Len(name) - 1 \/ i = Len(name)
      BY <1>1
    <3> QED
      BY <1>1, <3>1, <3>2, <3>3
  <2>5. ASSUME NEW i \in 1 .. Len(D)
        PROVE  (D[i] = Empty) <=> (i = Len(D))
    <3>1. CASE i <= Len(name)
      <4>1. i \in 1 .. Len(name) /\ i # Len(D)
        BY <1>1, <2>3, <3>1, OriginFacts
      <4> QED
        BY <2>3, <2>4, <4>1
    <3>2. CASE i > Len(name)
      <4>1. PICK j \in 1 .. Len(ZoneOrigin) : i = Len(name) + j
        <5>1. i - Len(name) \in 1 .. Len(ZoneOrigin) /\ i = Len(name) + (i - Len(name))
          BY <1>1, <2>3, <3>2, OriginFacts
        <5> QED
          BY <5>1
      <4>2. D[i] = ZoneOrigin[j]
        BY <2>3, <4>1
      <4>3. (ZoneOrigin[j] = Empty) <=> (j = Len(ZoneOrigin))
        BY OriginFacts DEF IsWhole
      <4>4. (j = Len(ZoneOrigin)) <=> (i = Len(D))
        <5>1. PICK l : l = Len(name)
          OBVIOUS
        <5>2. PICK z : z = Len(ZoneOrigin)
          OBVIOUS
        <5>3. l \in Nat /\ z \in Nat /\ j \in 1 .. z /\ i = l + j /\ Len(D) = l + z
          BY <1>1, <2>3, <4>1, <5>1, <5>2, OriginFacts
        <5>4. (j = z) <=> (i = l + z)
          BY <5>3
        <5> QED
          BY <5>2, <5>3, <5>4
      <4> QED
        BY <4>2, <4>3, <4>4
    <3> QED
      BY <1>1, <2>3, <3>1, <3>2, OriginFacts
  <2>6. D # <<>>
    <3>1. Len(D) >= 1
      BY <1>1, <2>3, OriginFacts
    <3>2. D = <<>> => Len(D) = 0
      BY EmptySeq
    <3> QED
      BY <3>1, <3>2
  <2> QED
    BY <2>2, <2>3, <2>5, <2>6 DEF IsWhole
<1> QED
  BY <1>2, <1>3

LEMMA SuffixIs ==
    ASSUME NEW x \in Seq(Labels), NEW k \in 1 .. Len(x), NEW u, u = SuffixFrom(x, k)
    PROVE  u \in Seq(Labels) /\ Len(u) = Len(x) - k + 1 /\ \A i \in 1 .. Len(x) - k + 1 : u[i] = x[i + k - 1]
<1>1. Len(x) \in Nat /\ \A i \in k .. Len(x) : x[i] \in Labels
  BY LenProperties
<1> QED
  BY <1>1, SubSeqProperties DEF SuffixFrom

LEMMA FrontFacts ==
    ASSUME NEW x \in Seq(Labels), NEW n \in 0 .. Len(x)
    PROVE  /\ SubSeq(x, 1, n) \in Seq(Labels) /\ Len(SubSeq(x, 1, n)) = n
           /\ \A i \in 1 .. n : SubSeq(x, 1, n)[i] = x[i]
<1>1. Len(x) \in Nat
  BY LenProperties
<1> QED
  BY <1>1, SubSeqProperties

Outside(x, n) == n >= 0 /\ Folded(SuffixFrom(x, n + 1)) = Folded(ZoneOrigin)

LEMMA RelativizedIs ==
    ASSUME NEW x, NEW n, n = Len(x) - Len(ZoneOrigin)
    PROVE  Relativized(x) = IF Outside(x, n) THEN SubSeq(x, 1, n) ELSE x
BY Zenon DEF Relativized, Outside

(* Two names that differ in case only are made relative alike.             *)
LEMMA RelativizedSame ==
    ASSUME NEW x \in Seq(Labels), NEW y \in Seq(Labels), Folded(x) = Folded(y)
    PROVE  Folded(Relativized(x)) = Folded(Relativized(y)) /\ Relativized(x) \in Seq(Labels)
<1>1. Len(x) = Len(y) /\ Len(x) \in Nat /\ \A i \in 1 .. Len(x) : Fold(x[i]) = Fold(y[i])
  BY FoldedSame, LenProperties
<1>2. PICK n : n = Len(x) - Len(ZoneOrigin)
  OBVIOUS
<1>3. n \in Int /\ n < Len(x) /\ n = Len(y) - Len(ZoneOrigin)
  BY <1>1, <1>2, OriginFacts
<1>4. /\ Relativized(x) = IF Outside(x, n) THEN SubSeq(x, 1, n) ELSE x
      /\ Relativized(y) = IF Outside(y, n) THEN SubSeq(y, 1, n) ELSE y
  BY <1>2, <1>3, RelativizedIs
<1>5. CASE n >= 0
  <2>1. n + 1 \in 1 .. Len(x) /\ n \in 0 .. Len(x) /\ n \in 0 .. Len(y) /\ n + 1 \in 1 .. Len(y)
    BY <1>1, <1>3, <1>5
  <2>2. PICK u : u = SuffixFrom(x, n + 1)
    OBVIOUS
  <2>3. PICK v : v = SuffixFrom(y, n + 1)
    OBVIOUS
  <2>4. PICK k : k = n + 1
    OBVIOUS
  <2>5. /\ u \in Seq(Labels) /\ Len(u) = Len(x) - k + 1 /\ \A i \in 1 .. Len(x) - k + 1 : u[i] = x[i + k - 1]
        /\ v \in Seq(Labels) /\ Len(v) = Len(y) - k + 1 /\ \A i \in 1 .. Len(y) - k + 1 : v[i] = y[i + k - 1]
    <3>1. k \in 1 .. Len(x) /\ u = SuffixFrom(x, k) /\ k \in 1 .. Len(y) /\ v = SuffixFrom(y, k)
      BY <2>1, <2>2, <2>3, <2>4, Zenon
    <3> QED
      BY <3>1, SuffixIs
  <2>6. \A i \in 1 .. Len(u) : Fold(u[i]) = Fold(v[i])
    <3> TAKE i \in 1 .. Len(u)
    <3>1. i \in 1 .. Len(x) - k + 1 /\ i \in 1 .. Len(y) - k + 1 /\ i + k - 1 \in 1 .. Len(x)
      BY <1>1, <2>1, <2>4, <2>5
    <3> QED
      BY <1>1, <2>5, <3>1
  <2>7. Folded(u) = Folded(v)
    BY <1>1, <2>5, <2>6, FoldedSame
  <2>8. Outside(x, n) <=> Outside(y, n)
    BY <2>2, <2>3, <2>7, Zenon DEF Outside
  <2>9. PICK f : f = SubSeq(x, 1, n)
    OBVIOUS
  <2>10. PICK g : g = SubSeq(y, 1, n)
    OBVIOUS
  <2>11. /\ f \in Seq(Labels) /\ Len(f) = n /\ \A i \in 1 .. n : f[i] = x[i]
         /\ g \in Seq(Labels) /\ Len(g) = n /\ \A i \in 1 .. n : g[i] = y[i]
    BY <2>1, <2>9, <2>10, FrontFacts
  <2>12. \A i \in 1 .. Len(f) : Fold(f[i]) = Fold(g[i])
    <3> TAKE i \in 1 .. Len(f)
    <3>1. i \in 1 .. n /\ i \in 1 .. Len(x)
      BY <1>1, <2>1, <2>11
    <3> QED
      BY <1>1, <2>11, <3>1
  <2>13. Folded(f) = Folded(g)
    BY <2>11, <2>12, FoldedSame
  <2> QED
    BY <1>4, <2>8, <2>9, <2>10, <2>11, <2>13, Zenon
<1>6. CASE ~(n >= 0)
  <2>1. ~Outside(x, n) /\ ~Outside(y, n)
    BY <1>6 DEF Outside
  <2> QED
    BY <1>4, <2>1
<1> QED
  BY <1>5, <1>6

LEMMA GivenRelativized ==
    ASSUME NEW name \in NamesGiven, ~Absolute(name)
    PROVE  Relativized(Derelativized(name)) = Relativized(name)
<1>1. /\ name \in Seq(Labels) /\ Len(name) \in Nat
  BY GivenFacts
<1>2. PICK D : D = Join(name, ZoneOrigin)
  OBVIOUS
<1>3. Derelativized(name) = D
  BY <1>2, Zenon DEF Derelativized, Join
<1>4. /\ D \in Seq(Labels) /\ Len(D) = Len(name) + Len(ZoneOrigin)
      /\ \A i \in 1 .. Len(name) : D[i] = name[i]
      /\ \A i \in 1 .. Len(ZoneOrigin) : D[Len(name) + i] = ZoneOrigin[i]
  BY <1>1, <1>2, OriginFacts, JoinLabels
<1>5. PICK n : n = Len(name)
  OBVIOUS
<1>6. n = Len(D) - Len(ZoneOrigin) /\ n \in 0 .. Len(D) /\ n \in Nat /\ n + 1 \in 1 .. Len(D)
  BY <1>1, <1>4, <1>5, OriginFacts
<1>7. Relativized(D) = name
  <2>1. PICK u : u = SuffixFrom(D, n + 1)
    OBVIOUS
  <2>2. PICK k : k = n + 1
    OBVIOUS
  <2>3. u \in Seq(Labels) /\ Len(u) = Len(D) - k + 1 /\ \A i \in 1 .. Len(D) - k + 1 : u[i] = D[i + k - 1]
    <3>1. k \in 1 .. Len(D) /\ u = SuffixFrom(D, k)
      BY <1>6, <2>1, <2>2, Zenon
    <3> QED
      BY <1>4, <3>1, SuffixIs
  <2>4. Len(u) = Len(ZoneOrigin) /\ \A i \in 1 .. Len(u) : u[i] = ZoneOrigin[i]
    BY <1>4, <1>5, <1>6, <2>2, <2>3, OriginFacts
  <2>5. \A i \in 1 .. Len(u) : Fold(u[i]) = Fold(ZoneOrigin[i])
    BY <2>4, Zenon
  <2>6. Folded(u) = Folded(ZoneOrigin)
    BY <2>3, <2>4, <2>5, OriginFacts, FoldedSame
  <2>7. Outside(D, n)
    BY <1>6, <2>1, <2>6 DEF Outside
  <2>8. Relativized(D) = SubSeq(D, 1, n)
    BY <1>6, <2>7, RelativizedIs
  <2>9. PICK f : f = SubSeq(D, 1, n)
    OBVIOUS
  <2>10. f \in Seq(Labels) /\ Len(f) = n /\ \A i \in 1 .. n : f[i] = D[i]
    BY <1>4, <1>6, <2>9, FrontFacts
  <2>11. Len(f) = Len(name) /\ \A i \in 1 .. Len(f) : f[i] = name[i]
    BY <1>4, <1>5, <2>10
  <2>12. f = name
    BY <1>1, <2>10, <2>11, SeqEqual
  <2> QED
    BY <2>8, <2>9, <2>12
<1>8. Relativized(name) = name
  <2>1. PICK m : m = Len(name) - Len(ZoneOrigin)
    OBVIOUS
  <2>2. ~Outside(name, m)
    <3> SUFFICES ASSUME Outside(name, m) PROVE FALSE
      OBVIOUS
    <3>1. m >= 0 /\ m \in Nat /\ m + 1 \in 1 .. Len(name)
      BY <1>1, <2>1, OriginFacts DEF Outside
    <3>2. PICK u : u = SuffixFrom(name, m + 1)
      OBVIOUS
    <3>3. PICK k : k = m + 1
      OBVIOUS
    <3>4. u \in Seq(Labels) /\ Len(u) = Len(name) - k + 1 /\ \A i \in 1 .. Len(name) - k + 1 : u[i] = name[i + k - 1]
      <4>1. k \in 1 .. Len(name) /\ u = SuffixFrom(name, k)
        BY <3>1, <3>2, <3>3, Zenon
      <4> QED
        BY <1>1, <4>1, SuffixIs
    <3>5. Folded(u) = Folded(ZoneOrigin)
      BY <3>2 DEF Outside
    <3>6. \A i \in 1 .. Len(u) : Fold(u[i]) = Fold(ZoneOrigin[i])
      BY <3>4, <3>5, OriginFacts, FoldedSame
    <3>7. Len(u) = Len(ZoneOrigin) /\ Len(u) \in 1 .. Len(u)
      BY <1>1, <2>1, <3>1, <3>3, <3>4, OriginFacts
    <3>8. u[Len(u)] = name[Len(name)] /\ Len(name) \in 1 .. Len(name)
      BY <1>1, <2>1, <3>1, <3>3, <3>4, <3>7
    <3>9. Fold(name[Len(name)]) = Fold(Empty)
      BY <3>6, <3>7, <3>8, OriginFacts
    <3>10. name[Len(name)] \in Labels
      BY <1>1, <3>8, LenProperties
    <3>11. name[Len(name)] = Empty
      BY <3>9, <3>10, WireAssumption, Zenon DEF Empty
    <3>12. name # <<>>
      BY <1>1, <3>8, EmptySeq
    <3> QED
      BY <3>11, <3>12, AbsoluteIs
  <2> QED
    BY <2>1, <2>2, RelativizedIs
<1> QED
  BY <1>3, <1>7, <1>8

LEMMA ReadAsGiven ==
    ASSUME NEW name \in NamesGiven, NEW labels \in Seq(Labels), Folded(labels) = Folded(Derelativized(name))
    PROVE  Folded(Relativized(labels)) = Folded(Relativized(name)) /\ Relativized(labels) \in Seq(Labels)
<1>1. Derelativized(name) \in Seq(Labels)
  BY DerelativizedWhole DEF IsWhole
<1>2. Folded(Relativized(labels)) = Folded(Relativized(Derelativized(name))) /\ Relativized(labels) \in Seq(Labels)
  BY <1>1, RelativizedSame
<1>3. Absolute(name) => Derelativized(name) = name
  BY Zenon DEF Derelativized
<1> QED
  BY <1>2, <1>3, GivenRelativized, Zenon

(* A name that has the case of the root is the root.                       *)
LEMMA RootWhole == IsWhole(Root) /\ Derelativized(<<"">>) = Root
<1>1. Root \in Seq(Labels) /\ Len(Root) = 1 /\ Root[1] = Empty
  BY RootLabel
<1>2. Root # <<>>
  BY <1>1, EmptySeq
<1>3. \A i \in 1 .. Len(Root) : (Root[i] = Empty) <=> (i = Len(Root))
  BY <1>1
<1>4. Absolute(Root)
  BY <1>1, <1>2, AbsoluteIs
<1>5. <<"">> = Root
  BY Zenon DEF Root
<1> QED
  BY <1>1, <1>2, <1>3, <1>4, <1>5, Zenon DEF IsWhole, Derelativized

LEMMA ReadAsRoot ==
    ASSUME NEW labels \in Seq(Labels), Folded(labels) = Folded(Root)
    PROVE  labels = Root
<1>1. Root \in Seq(Labels) /\ Len(Root) = 1 /\ Root[1] = Empty
  BY RootLabel
<1>2. Len(labels) = 1 /\ \A i \in 1 .. Len(labels) : Fold(labels[i]) = Fold(Root[i])
  BY <1>1, FoldedSame
<1>3. labels[1] \in Labels /\ Fold(labels[1]) = Fold(Empty)
  BY <1>1, <1>2, LenProperties
<1>4. labels[1] = Empty
  BY <1>3, WireAssumption, Zenon DEF Empty
<1> QED
  BY <1>1, <1>2, <1>4, SeqEqual

-----------------------------------------------------------------------------
(* The message as far as it was read.                                      *)
Data == Values \cup {Folded(labels) : labels \in Seq(Labels)}
RRsetsRead == [name : Seq(Labels), type : Types \cup {"ANY"}, rds : SUBSET Data]

IsMessage(m) ==
    /\ m = [ok |-> m.ok, at |-> m.at, sections |-> m.sections, index |-> m.index, opt |-> m.opt]
    /\ m.sections \in [Sections -> Seq(RRsetsRead)]

Key(s, rrset) == <<s, Folded(rrset.name), rrset.type>>

(* The index leads to each RRset, and from nothing else.                   *)
IndexOf(sections, index) ==
    /\ index = [key \in DOMAIN index |-> index[key]]
    /\ \A s \in 1 .. 3 : \A i \in 1 .. Len(sections[s]) :
         Key(s, sections[s][i]) \in DOMAIN index /\ index[Key(s, sections[s][i])] = i
    /\ \A key \in DOMAIN index : \E s \in 1 .. 3 : \E i \in 1 .. Len(sections[s]) : key = Key(s, sections[s][i])

Indexed(m) == IndexOf(m.sections, m.index)

InMessage(m, q) == \E s \in Sections : \E i \in 1 .. Len(m.sections[s]) : q \in Held(s, m.sections[s][i])

LEMMA AppendRRset ==
    ASSUME NEW q \in Seq(RRsetsRead), NEW c \in RRsetsRead
    PROVE  /\ Append(q, c) \in Seq(RRsetsRead) /\ Len(Append(q, c)) = Len(q) + 1 /\ Append(q, c)[Len(q) + 1] = c
           /\ Len(q) \in Nat /\ \A i \in 1 .. Len(q) : Append(q, c)[i] = q[i] /\ q[i] \in RRsetsRead
BY AppendProperties, LenProperties

LEMMA HeldFacts ==
    ASSUME NEW s, s # 0, NEW rrset
    PROVE  /\ rrset.rds = {} => Held(s, rrset) = {}
           /\ \A q : q \in Held(s, rrset) <=> \E rd \in rrset.rds : q = <<s, Folded(rrset.name), rrset.type, rd>>
<1>1. rrset.rds = {} => Held(s, rrset) = {}
  BY DEF Held
<1>2. \A q : q \in Held(s, rrset) <=> \E rd \in rrset.rds : q = <<s, Folded(rrset.name), rrset.type, rd>>
  BY Zenon DEF Held
<1> QED
  BY <1>1, <1>2

(* The RRsets of a section were changed, or one was added to them.         *)
Changed(m, s, q, index) == [m EXCEPT !.sections[s] = q, !.index = index]

OnlyChanged(m, s, x) == \A t \in Sections \ {s} : x.sections[t] = m.sections[t]
HeldElsewhere(m, s, q) == \E t \in Sections \ {s} : \E i \in 1 .. Len(m.sections[t]) : q \in Held(t, m.sections[t][i])
HeldBy(s, rrsets, q) == \E i \in 1 .. Len(rrsets) : q \in Held(s, rrsets[i])

LEMMA ChangedIs ==
    ASSUME NEW m, IsMessage(m), NEW s \in Sections, NEW q \in Seq(RRsetsRead), NEW index, NEW x, x = Changed(m, s, q, index)
    PROVE  /\ IsMessage(x) /\ x.index = index /\ x.ok = m.ok /\ x.at = m.at /\ x.opt = m.opt
           /\ x.sections[s] = q /\ OnlyChanged(m, s, x)
<1>1. PICK f : f = [m.sections EXCEPT ![s] = q]
  OBVIOUS
<1>2. /\ f \in [Sections -> Seq(RRsetsRead)] /\ f[s] = q
      /\ \A t \in Sections \ {s} : f[t] = m.sections[t]
  BY <1>1 DEF IsMessage
<1>3. x = [ok |-> m.ok, at |-> m.at, sections |-> f, index |-> index, opt |-> m.opt]
  <2>1. m = [ok |-> m.ok, at |-> m.at, sections |-> m.sections, index |-> m.index, opt |-> m.opt]
    BY DEF IsMessage
  <2>2. x = [[m EXCEPT !.sections = f] EXCEPT !.index = index]
    BY <1>1 DEF Changed
  <2> QED
    BY ONLY <2>1, <2>2
<1> QED
  BY <1>2, <1>3 DEF IsMessage, OnlyChanged

LEMMA InChanged ==
    ASSUME NEW m, NEW s \in Sections, NEW x, OnlyChanged(m, s, x), NEW q
    PROVE  InMessage(x, q) <=> HeldElsewhere(m, s, q) \/ HeldBy(s, x.sections[s], q)
BY Zenon DEF InMessage, OnlyChanged, HeldElsewhere, HeldBy

LEMMA InItself ==
    ASSUME NEW m, NEW s \in Sections, NEW q
    PROVE  InMessage(m, q) <=> HeldElsewhere(m, s, q) \/ HeldBy(s, m.sections[s], q)
BY Zenon DEF InMessage, HeldElsewhere, HeldBy

Finding(m, s, name, type, f, key, i) ==
    /\ IsMessage(m) /\ Indexed(m) /\ s \in 1 .. 3 /\ name \in Seq(Labels) /\ type \in Types
    /\ f = Found(m, s, name, type) /\ key = <<s, Folded(name), type>> /\ i = f.index[key]

FoundAs(m, s, f, key, i) ==
    /\ IsMessage(f) /\ Indexed(f) /\ f.ok = m.ok /\ f.at = m.at /\ f.opt = m.opt
    /\ i \in 1 .. Len(f.sections[s]) /\ Key(s, f.sections[s][i]) = key
    /\ \A q : InMessage(f, q) <=> InMessage(m, q)

LEMMA FoundFacts ==
    ASSUME NEW m, NEW s, NEW name, NEW type, NEW f, NEW key, NEW i, Finding(m, s, name, type, f, key, i)
    PROVE  FoundAs(m, s, f, key, i)
<1> /\ IsMessage(m) /\ Indexed(m) /\ s \in 1 .. 3 /\ name \in Seq(Labels) /\ type \in Types
    /\ f = Found(m, s, name, type) /\ key = <<s, Folded(name), type>> /\ i = f.index[key]
  BY DEF Finding
<1>1. CASE key \in DOMAIN m.index
  <2>1. f = m
    BY <1>1 DEF Found
  <2>a. PICK t \in 1 .. 3 : \E j \in 1 .. Len(m.sections[t]) : key = Key(t, m.sections[t][j])
    BY <1>1 DEF Indexed, IndexOf
  <2>2. PICK j \in 1 .. Len(m.sections[t]) : key = Key(t, m.sections[t][j])
    BY <2>a
  <2>3. t = s
    BY <2>2 DEF Key
  <2>4. m.index[key] = j
    BY <2>2 DEF Indexed, IndexOf
  <2> QED
    BY <2>1, <2>2, <2>3, <2>4 DEF FoundAs
<1>2. CASE key \notin DOMAIN m.index
  <2>1. PICK new : new = [name |-> name, type |-> type, rds |-> {}]
    OBVIOUS
  <2>2. PICK old : old = m.sections[s]
    OBVIOUS
  <2>3. s \in Sections /\ s # 0 /\ old \in Seq(RRsetsRead) /\ new \in RRsetsRead
    BY <2>1, <2>2 DEF IsMessage, RRsetsRead, Sections
  <2>4. PICK more : more = Append(old, new)
    OBVIOUS
  <2>5. /\ more \in Seq(RRsetsRead) /\ Len(more) = Len(old) + 1 /\ more[Len(old) + 1] = new
        /\ Len(old) \in Nat /\ \A j \in 1 .. Len(old) : more[j] = old[j]
    BY <2>3, <2>4, AppendRRset
  <2>6. PICK index : index = [k \in DOMAIN m.index \cup {key} |-> IF k = key THEN Len(old) + 1 ELSE m.index[k]]
    OBVIOUS
  <2>7. f = Changed(m, s, more, index)
    BY <1>2, <2>1, <2>2, <2>4, <2>6, Zenon DEF Found, Changed
  <2>8. /\ IsMessage(f) /\ f.index = index /\ f.ok = m.ok /\ f.at = m.at /\ f.opt = m.opt
        /\ f.sections[s] = more /\ OnlyChanged(m, s, f)
    BY <2>3, <2>5, <2>7, ChangedIs
  <2>b. \A t \in Sections \ {s} : f.sections[t] = m.sections[t]
    BY <2>8 DEF OnlyChanged
  <2>9. i = Len(old) + 1
    BY <2>6, <2>8
  <2>10. Key(s, new) = key
    BY <2>1 DEF Key
  <2>11. i \in 1 .. Len(f.sections[s]) /\ Key(s, f.sections[s][i]) = key
    BY <2>5, <2>8, <2>9, <2>10
  <2>12. Indexed(f)
    <3>1. /\ f.index = [k \in DOMAIN f.index |-> f.index[k]] /\ DOMAIN f.index = DOMAIN m.index \cup {key}
          /\ f.index[key] = Len(old) + 1 /\ \A k \in DOMAIN m.index : f.index[k] = m.index[k]
      BY <1>2, <2>6, <2>8
    <3>2. ASSUME NEW t \in 1 .. 3, NEW j \in 1 .. Len(f.sections[t])
          PROVE  Key(t, f.sections[t][j]) \in DOMAIN f.index /\ f.index[Key(t, f.sections[t][j])] = j
      <4>1. CASE t # s
        <5>1. t \in Sections \ {s} /\ f.sections[t] = m.sections[t]
          BY <2>b, <4>1 DEF Sections
        <5>2. Key(t, m.sections[t][j]) \in DOMAIN m.index /\ m.index[Key(t, m.sections[t][j])] = j
          BY <5>1 DEF Indexed, IndexOf
        <5> QED
          BY <3>1, <5>1, <5>2
      <4>2. CASE t = s
        <5>1. CASE j = Len(old) + 1
          BY <2>5, <2>8, <2>10, <3>1, <4>2, <5>1
        <5>2. CASE j # Len(old) + 1
          <6>1. j \in 1 .. Len(old)
            BY <2>5, <2>8, <4>2, <5>2
          <6>2. Key(s, old[j]) \in DOMAIN m.index /\ m.index[Key(s, old[j])] = j
            BY <2>2, <6>1 DEF Indexed, IndexOf
          <6> QED
            BY <2>5, <2>8, <3>1, <4>2, <6>1, <6>2
        <5> QED
          BY <5>1, <5>2
      <4> QED
        BY <4>1, <4>2
    <3>3. ASSUME NEW k \in DOMAIN f.index
          PROVE  \E t \in 1 .. 3 : \E j \in 1 .. Len(f.sections[t]) : k = Key(t, f.sections[t][j])
      <4>1. CASE k = key
        BY <2>9, <2>11, <4>1
      <4>2. CASE k \in DOMAIN m.index
        <5>a. PICK t \in 1 .. 3 : \E j \in 1 .. Len(m.sections[t]) : k = Key(t, m.sections[t][j])
          BY <4>2 DEF Indexed, IndexOf
        <5>1. PICK j \in 1 .. Len(m.sections[t]) : k = Key(t, m.sections[t][j])
          BY <5>a
        <5>2. CASE t # s
          <6>1. t \in Sections \ {s} /\ f.sections[t] = m.sections[t]
            BY <2>b, <5>2 DEF Sections
          <6> QED
            BY <5>1, <6>1
        <5>3. CASE t = s
          <6>1. j \in 1 .. Len(old) /\ j \in 1 .. Len(more) /\ more[j] = old[j]
            BY <2>2, <2>5, <5>1, <5>3
          <6>2. j \in 1 .. Len(f.sections[s]) /\ k = Key(s, f.sections[s][j])
            BY <2>2, <2>8, <5>1, <5>3, <6>1
          <6> QED
            BY <6>2
        <5> QED
          BY <5>2, <5>3
      <4> QED
        BY <3>1, <4>1, <4>2
    <3> QED
      BY <3>1, <3>2, <3>3, Zenon DEF Indexed, IndexOf
  <2>13. ASSUME NEW q
         PROVE  InMessage(f, q) <=> InMessage(m, q)
    <3>1. InMessage(f, q) <=> HeldElsewhere(m, s, q) \/ HeldBy(s, more, q)
      BY <2>3, <2>8, InChanged
    <3>2. InMessage(m, q) <=> HeldElsewhere(m, s, q) \/ HeldBy(s, old, q)
      BY <2>2, <2>3, InItself
    <3>3. Held(s, new) = {}
      BY <2>1, <2>3, HeldFacts
    <3>4. \A j \in 1 .. Len(more) : j \in 1 .. Len(old) \/ more[j] = new
      BY <2>5
    <3>5. \A j \in 1 .. Len(old) : j \in 1 .. Len(more) /\ more[j] = old[j]
      BY <2>5
    <3>6. HeldBy(s, more, q) <=> HeldBy(s, old, q)
      BY <3>3, <3>4, <3>5 DEF HeldBy
    <3> QED
      BY <3>1, <3>2, <3>6
  <2> QED
    BY <2>8, <2>11, <2>12, <2>13 DEF FoundAs
<1> QED
  BY <1>1, <1>2

LEMMA IndexStays ==
    ASSUME NEW f, NEW g, \A t \in 1 .. 3 : f[t] = g[t], NEW index, IndexOf(g, index)
    PROVE  IndexOf(f, index)
<1>1. ASSUME NEW t \in 1 .. 3, NEW j \in 1 .. Len(f[t])
      PROVE  Key(t, f[t][j]) \in DOMAIN index /\ index[Key(t, f[t][j])] = j
  <2>1. f[t] = g[t] /\ j \in 1 .. Len(g[t])
    OBVIOUS
  <2>2. Key(t, g[t][j]) \in DOMAIN index /\ index[Key(t, g[t][j])] = j
    BY <2>1 DEF IndexOf
  <2> QED
    BY <2>1, <2>2
<1>2. ASSUME NEW key \in DOMAIN index
      PROVE  \E t \in 1 .. 3 : \E j \in 1 .. Len(f[t]) : key = Key(t, f[t][j])
  <2>1. PICK t \in 1 .. 3 : \E j \in 1 .. Len(g[t]) : key = Key(t, g[t][j])
    BY DEF IndexOf
  <2>2. f[t] = g[t]
    OBVIOUS
  <2> QED
    BY <2>1, <2>2
<1>3. index = [key \in DOMAIN index |-> index[key]]
  BY DEF IndexOf
<1> QED
  BY <1>1, <1>2, <1>3, Zenon DEF IndexOf

(* Data go to the RRset at i, and reading goes on at a.                    *)
Added(m, s, i, rd, a) == [m EXCEPT !.at = a, !.sections[s][i].rds = @ \cup {rd}]

MovedTo(m, a, o) == [ok |-> m.ok, at |-> a, sections |-> m.sections, index |-> m.index, opt |-> o]

MovedAs(m, a, x) ==
    IsMessage(x) /\ Indexed(x) /\ x.ok = m.ok /\ x.at = a /\ \A q : InMessage(x, q) <=> InMessage(m, q)

LEMMA MovedFacts ==
    ASSUME NEW m, IsMessage(m), Indexed(m), NEW a, NEW o, NEW x, x = MovedTo(m, a, o)
    PROVE  MovedAs(m, a, x)
<1>1. x.ok = m.ok /\ x.at = a /\ x.opt = o /\ x.sections = m.sections /\ x.index = m.index
  BY DEF MovedTo
<1>2. IsMessage(x)
  BY <1>1 DEF IsMessage, MovedTo
<1>3. Indexed(x)
  BY <1>1 DEF Indexed
<1>4. \A q : InMessage(x, q) <=> InMessage(m, q)
  BY <1>1, Zenon DEF InMessage
<1> QED
  BY <1>1, <1>2, <1>3, <1>4 DEF MovedAs

MessageWith(m, at, sections) == [ok |-> m.ok, at |-> at, sections |-> sections, index |-> m.index, opt |-> m.opt]
Enlarged(rrset, rd) == [rrset EXCEPT !.rds = @ \cup {rd}]
Replaced(q, i, new) == [q EXCEPT ![i] = new]

Adding(m, s, old, i, rd, a, x, new, more) ==
    /\ IsMessage(m) /\ s \in 1 .. 3 /\ old = m.sections[s] /\ i \in 1 .. Len(old) /\ rd \in Data
    /\ x = Added(m, s, i, rd, a) /\ new = Enlarged(old[i], rd) /\ more = Replaced(old, i, new)

Addition(m, s, old, i, rd, a, x, new, more) ==
    /\ x = MessageWith(m, a, Replaced(m.sections, s, more))
    /\ more \in Seq(RRsetsRead) /\ Len(more) = Len(old) /\ more[i] = new
    /\ \A j \in 1 .. Len(more) : j # i => more[j] = old[j]
    /\ new.name = old[i].name /\ new.type = old[i].type /\ new.rds = old[i].rds \cup {rd}

LEMMA AddedIs ==
    ASSUME NEW m, NEW s, NEW old, NEW i, NEW rd, NEW a, NEW x, NEW new, NEW more,
           Adding(m, s, old, i, rd, a, x, new, more)
    PROVE  Addition(m, s, old, i, rd, a, x, new, more)
<1> /\ IsMessage(m) /\ s \in 1 .. 3 /\ old = m.sections[s] /\ i \in 1 .. Len(old) /\ rd \in Data
    /\ x = Added(m, s, i, rd, a) /\ new = Enlarged(old[i], rd) /\ more = Replaced(old, i, new)
  BY DEF Adding
<1>2. old \in Seq(RRsetsRead) /\ Len(old) \in Nat /\ i \in 1 .. Len(old)
  <2>1. s \in Sections
    BY DEF Sections
  <2>2. old \in Seq(RRsetsRead)
    BY <2>1 DEF IsMessage
  <2> QED
    BY <2>2, LenProperties
<1>3. old[i] \in RRsetsRead
  BY <1>2, LenProperties
<1>4. /\ new \in RRsetsRead /\ new.name = old[i].name /\ new.type = old[i].type
      /\ new.rds = old[i].rds \cup {rd}
  <2>1. new = [old[i] EXCEPT !.rds = @ \cup {rd}]
    BY DEF Enlarged
  <2>2. old[i].rds \cup {rd} \in SUBSET Data
    BY <1>3 DEF RRsetsRead
  <2> QED
    BY <1>3, <2>1, <2>2 DEF RRsetsRead
<1>5. more = [old EXCEPT ![i] = new]
  BY DEF Replaced
<1>6. /\ more \in Seq(RRsetsRead) /\ Len(more) = Len(old) /\ more[i] = new
      /\ \A j \in 1 .. Len(old) : j # i => more[j] = old[j]
  <2>1. old \in [1 .. Len(old) -> RRsetsRead]
    BY <1>2, LenProperties
  <2>2. more \in [1 .. Len(old) -> RRsetsRead]
    BY <1>4, <1>5, <2>1, Zenon
  <2>3. more \in Seq(RRsetsRead)
    <3>1. PICK n \in Nat : n = Len(old)
      BY <1>2
    <3>2. more \in [1 .. n -> RRsetsRead]
      BY <2>2, <3>1, Zenon
    <3> QED
      BY ONLY <3>2, n \in Nat, SeqDef
  <2>4. Len(more) = Len(old)
    BY <1>2, <2>2, <2>3, LenProperties, SameCount
  <2> QED
    BY <1>2, <1>5, <2>1, <2>3, <2>4, Zenon
<1>7. x = MessageWith(m, a, Replaced(m.sections, s, more))
  <2>1. m = [ok |-> m.ok, at |-> m.at, sections |-> m.sections, index |-> m.index, opt |-> m.opt]
    BY DEF IsMessage
  <2>2. PICK p : p = [m EXCEPT !.at = a]
    OBVIOUS
  <2>3. p = [ok |-> m.ok, at |-> a, sections |-> m.sections, index |-> m.index, opt |-> m.opt]
    BY ONLY <2>1, <2>2
  <2>4. x = [p EXCEPT !.sections = [m.sections EXCEPT ![s] = [old EXCEPT ![i] = [old[i] EXCEPT !.rds = old[i].rds \cup {rd}]]]]
    BY <2>2, <2>3 DEF Added
  <2>5. PICK f : f = Replaced(m.sections, s, more)
    OBVIOUS
  <2>6. x = [p EXCEPT !.sections = f]
    BY <2>4, <2>5, Zenon DEF Replaced, Enlarged
  <2>7. x = MessageWith(m, a, f)
    BY ONLY <2>3, <2>6 DEF MessageWith
  <2> QED
    BY <2>5, <2>7
<1> QED
  BY <1>4, <1>6, <1>7 DEF Addition

AddedAs(m, s, i, rd, a, x) ==
    /\ IsMessage(x) /\ Indexed(x) /\ x.ok = m.ok /\ x.at = a /\ x.opt = m.opt
    /\ \A q : InMessage(x, q) <=>
         InMessage(m, q) \/ q = <<s, Folded(m.sections[s][i].name), m.sections[s][i].type, rd>>

LEMMA AddedFacts ==
    ASSUME NEW m, IsMessage(m), Indexed(m), NEW s \in 1 .. 3, NEW i \in 1 .. Len(m.sections[s]), NEW rd \in Data, NEW a,
           NEW x, x = Added(m, s, i, rd, a)
    PROVE  AddedAs(m, s, i, rd, a, x)
<1>3. PICK old : old = m.sections[s]
  OBVIOUS
<1>1. PICK new : new = Enlarged(old[i], rd)
  OBVIOUS
<1>2. PICK more : more = Replaced(old, i, new)
  OBVIOUS
<1>4. s \in Sections /\ s # 0
  BY DEF Sections
<1>5. /\ x = MessageWith(m, a, Replaced(m.sections, s, more))
      /\ more \in Seq(RRsetsRead) /\ Len(more) = Len(old) /\ more[i] = new
      /\ \A j \in 1 .. Len(more) : j # i => more[j] = old[j]
      /\ new.name = old[i].name /\ new.type = old[i].type
      /\ new.rds = old[i].rds \cup {rd}
  <2>1. i \in 1 .. Len(old)
    BY <1>3
  <2> QED
    <3>1. Adding(m, s, old, i, rd, a, x, new, more)
      BY <1>1, <1>2, <1>3, <2>1 DEF Adding
    <3> QED
      BY <3>1, AddedIs DEF Addition
<1>6. /\ x.index = m.index /\ x.sections[s] = more /\ OnlyChanged(m, s, x)
      /\ x.ok = m.ok /\ x.at = a /\ x.opt = m.opt
      /\ IsMessage(x)
  <2>1. PICK f : f = Replaced(m.sections, s, more)
    OBVIOUS
  <2>2. f \in [Sections -> Seq(RRsetsRead)] /\ f[s] = more /\ \A t \in Sections \ {s} : f[t] = m.sections[t]
    BY <1>4, <1>5, <2>1 DEF IsMessage, Replaced
  <2>3. x = [ok |-> m.ok, at |-> a, sections |-> f, index |-> m.index, opt |-> m.opt]
    BY <1>5, <2>1 DEF MessageWith
  <2> QED
    BY <2>2, <2>3 DEF IsMessage, OnlyChanged
<1>7. Indexed(x)
  <2>1. ASSUME NEW t \in 1 .. 3, NEW j \in 1 .. Len(x.sections[t])
        PROVE  j \in 1 .. Len(m.sections[t]) /\ Key(t, x.sections[t][j]) = Key(t, m.sections[t][j])
    <3>1. CASE t = s
      <4>1. j \in 1 .. Len(more) /\ x.sections[t][j] = more[j] /\ m.sections[t] = old
        BY <1>3, <1>6, <3>1
      <4>2. more[j].name = old[j].name /\ more[j].type = old[j].type
        BY <1>5, <4>1
      <4>3. Key(t, more[j]) = Key(t, old[j])
        BY <4>2 DEF Key
      <4> QED
        BY <1>5, <4>1, <4>3
    <3>2. CASE t # s
      BY <1>6, <3>2 DEF OnlyChanged, Sections
    <3> QED
      BY <3>1, <3>2
  <2>2. \A t \in 1 .. 3 : Len(x.sections[t]) = Len(m.sections[t])
    BY <1>3, <1>5, <1>6 DEF OnlyChanged, Sections
  <2>3. \A t \in 1 .. 3 : \A j \in 1 .. Len(m.sections[t]) : Key(t, x.sections[t][j]) = Key(t, m.sections[t][j])
    BY <2>1, <2>2
  <2>4. ASSUME NEW t \in 1 .. 3, NEW j \in 1 .. Len(x.sections[t])
        PROVE  Key(t, x.sections[t][j]) \in DOMAIN m.index /\ m.index[Key(t, x.sections[t][j])] = j
    <3>1. j \in 1 .. Len(m.sections[t]) /\ Key(t, x.sections[t][j]) = Key(t, m.sections[t][j])
      BY <2>1
    <3>2. Key(t, m.sections[t][j]) \in DOMAIN m.index /\ m.index[Key(t, m.sections[t][j])] = j
      BY <3>1 DEF Indexed, IndexOf
    <3> QED
      BY <3>1, <3>2, Zenon
  <2>5. ASSUME NEW key \in DOMAIN m.index
        PROVE  \E t \in 1 .. 3 : \E j \in 1 .. Len(x.sections[t]) : key = Key(t, x.sections[t][j])
    <3>1. PICK t \in 1 .. 3 : \E j \in 1 .. Len(m.sections[t]) : key = Key(t, m.sections[t][j])
      BY DEF Indexed, IndexOf
    <3>2. PICK j \in 1 .. Len(m.sections[t]) : key = Key(t, m.sections[t][j])
      BY <3>1
    <3>3. j \in 1 .. Len(x.sections[t]) /\ key = Key(t, x.sections[t][j])
      BY <2>2, <2>3, <3>2, Zenon
    <3> QED
      BY <3>3
  <2>6. m.index = [key \in DOMAIN m.index |-> m.index[key]]
    BY DEF Indexed, IndexOf
  <2>7. IndexOf(x.sections, m.index)
    BY <2>4, <2>5, <2>6, Zenon DEF IndexOf
  <2> QED
    BY <1>6, <2>7, Zenon DEF Indexed
<1>8. ASSUME NEW q
      PROVE  InMessage(x, q) <=> InMessage(m, q) \/ q = <<s, Folded(old[i].name), old[i].type, rd>>
  <2>1. InMessage(x, q) <=> HeldElsewhere(m, s, q) \/ HeldBy(s, more, q)
    BY <1>4, <1>6, InChanged
  <2>2. InMessage(m, q) <=> HeldElsewhere(m, s, q) \/ HeldBy(s, old, q)
    BY <1>3, <1>4, InItself
  <2>3. q \in Held(s, new) <=> q \in Held(s, old[i]) \/ q = <<s, Folded(old[i].name), old[i].type, rd>>
    <3>1. q \in Held(s, new) <=> \E d \in new.rds : q = <<s, Folded(new.name), new.type, d>>
      BY <1>4, HeldFacts, Zenon
    <3>2. q \in Held(s, old[i]) <=> \E d \in old[i].rds : q = <<s, Folded(old[i].name), old[i].type, d>>
      BY <1>4, HeldFacts, Zenon
    <3>3. \A d : d \in new.rds <=> d \in old[i].rds \/ d = rd
      BY <1>5
    <3> QED
      BY <1>5, <3>1, <3>2, <3>3, Zenon
  <2>4. HeldBy(s, more, q) <=> HeldBy(s, old, q) \/ q = <<s, Folded(old[i].name), old[i].type, rd>>
    <3>1. i \in 1 .. Len(old) /\ i \in 1 .. Len(more)
      BY <1>3, <1>5
    <3>2. \A j \in 1 .. Len(old) : j # i => more[j] = old[j]
      BY <1>5
    <3> QED
      BY <1>5, <2>3, <3>1, <3>2, Zenon DEF HeldBy
  <2> QED
    BY <2>1, <2>2, <2>4
<1> QED
  BY <1>3, <1>6, <1>7, <1>8 DEF AddedAs

(* The record at e + 1, read from where its name is.                       *)
RecordAt(w, at, e, type, n) ==
    /\ NameAt(w, at).ok /\ e = AfterName(w, at)
    /\ w[e + 1].kind = "record" /\ w[e + 1].type = type /\ w[e + 1].rdlen = n /\ ~(e + 1 + n > Len(w))

DataAt(w, e, type) == IF type = "NS" THEN Folded(Relativized(NameAt(w, e + 1).labels)) ELSE w[e + 1 + 1].value

OrdinaryResult(w, m, s, e, type, n, x) ==
    \E f, i, labels : /\ labels = Relativized(NameAt(w, m.at).labels) /\ f = Found(m, s, labels, type)
                      /\ i = f.index[<<s, Folded(labels), type>>]
                      /\ x = Added(f, s, i, DataAt(w, e, type), e + 1 + n)

NoOption(m) == m.opt = -1
OptionResult(m, e, n, ok) == [m EXCEPT !.at = e + 1 + n, !.opt = n, !.ok = ok]
SignatureResult(m, a, ok) == [m EXCEPT !.at = a, !.ok = ok]

Unreserved(w, e, type, n) ==
    type \notin {"OPT", "TSIG"} /\ (type = "NS" => NameAt(w, e + 1).ok /\ AfterName(w, e + 1) = e + 1 + n)

LEMMA ReadRecordIs ==
    ASSUME NEW w, NEW m, m.ok, NEW e, NEW type, NEW n, RecordAt(w, m.at, e, type, n), NEW s, Unreserved(w, e, type, n)
    PROVE  OrdinaryResult(w, m, s, e, type, n, ReadRecord(w, m, s))
<1>1. /\ NameAt(w, m.at).ok /\ e = AfterName(w, m.at)
      /\ w[e + 1].kind = "record" /\ w[e + 1].type = type /\ w[e + 1].rdlen = n /\ ~(e + 1 + n > Len(w))
  BY DEF RecordAt
<1>2. CASE type # "NS"
  BY <1>1, <1>2, Zenon DEF ReadRecord, Added, DataAt, OrdinaryResult, Unreserved
<1>3. CASE type = "NS"
  BY <1>1, <1>3, Zenon DEF ReadRecord, Added, DataAt, OrdinaryResult, Unreserved
<1> QED
  BY <1>2, <1>3

LEMMA ReadOptionIs ==
    ASSUME NEW w, NEW m, m.ok, NoOption(m), NEW e, NEW n, RecordAt(w, m.at, e, "OPT", n), NameAt(w, m.at).labels = Root
    PROVE  ReadRecord(w, m, 3) = OptionResult(m, e, n, TRUE)
<1>1. /\ NameAt(w, m.at).ok /\ e = AfterName(w, m.at)
      /\ w[e + 1].kind = "record" /\ w[e + 1].type = "OPT" /\ w[e + 1].rdlen = n /\ ~(e + 1 + n > Len(w))
  BY DEF RecordAt
<1>2. ReadRecord(w, m, 3) = OptionResult(m, e, n, 3 = 3 /\ m.opt = -1 /\ NameAt(w, m.at).labels = <<"">>)
  BY <1>1, Zenon DEF ReadRecord, OptionResult
<1>3. (3 = 3 /\ m.opt = -1 /\ NameAt(w, m.at).labels = <<"">>) = TRUE
  BY Zenon DEF NoOption, Root
<1> QED
  BY <1>2, <1>3, Zenon

LEMMA ReadSignatureIs ==
    ASSUME NEW w, NEW m, m.ok, NEW e, NEW n, RecordAt(w, m.at, e, "TSIG", n), e + 1 + n = Len(w)
    PROVE  ReadRecord(w, m, 3) = SignatureResult(m, Len(w), TRUE)
<1>1. /\ NameAt(w, m.at).ok /\ e = AfterName(w, m.at)
      /\ w[e + 1].kind = "record" /\ w[e + 1].type = "TSIG" /\ w[e + 1].rdlen = n /\ ~(e + 1 + n > Len(w))
  BY DEF RecordAt
<1>2. ReadRecord(w, m, 3) = SignatureResult(m, e + 1 + n, 3 = 3 /\ e + 1 + n = Len(w))
  BY <1>1, Zenon DEF ReadRecord, SignatureResult
<1>3. (3 = 3 /\ e + 1 + n = Len(w)) = TRUE
  BY Zenon
<1> QED
  BY <1>2, <1>3, Zenon

(* What was read so far: nothing but R, as far as at.                      *)
Fine(m, at, R) ==
    /\ IsMessage(m) /\ Indexed(m) /\ m.ok = TRUE /\ m.at = at
    /\ \A q : InMessage(m, q) <=> q \in R

(* One record is read, and what is then read so far.                       *)
Rereading(w, m, at, R, e, type, n, s, rd, x, name) ==
    /\ w \in Wires /\ at \in 0 .. Len(w) /\ Fine(m, at, R) /\ type \in Types /\ s \in 1 .. 3
    /\ RecordAt(w, at, e, type, n) /\ Unreserved(w, e, type, n) /\ rd = DataAt(w, e, type) /\ rd \in Data
    /\ x = ReadRecord(w, m, s) /\ name = Folded(Relativized(NameAt(w, at).labels))
Reread(m, R, e, type, n, s, rd, x, name) == Fine(x, e + 1 + n, R \cup {<<s, name, type, rd>>}) /\ x.opt = m.opt

LEMMA OrdinaryRead ==
    ASSUME NEW w, NEW m, NEW at, NEW R, NEW e, NEW type, NEW n, NEW s, NEW rd, NEW x, NEW name,
           Rereading(w, m, at, R, e, type, n, s, rd, x, name)
    PROVE  Reread(m, R, e, type, n, s, rd, x, name)
<1> /\ w \in Wires /\ at \in 0 .. Len(w) /\ Fine(m, at, R) /\ type \in Types /\ s \in 1 .. 3
    /\ RecordAt(w, at, e, type, n) /\ Unreserved(w, e, type, n) /\ rd = DataAt(w, e, type) /\ rd \in Data
    /\ x = ReadRecord(w, m, s) /\ name = Folded(Relativized(NameAt(w, at).labels))
  BY DEF Rereading
<1>1. IsMessage(m) /\ Indexed(m) /\ m.ok /\ m.ok = TRUE /\ m.at = at /\ \A q : InMessage(m, q) <=> q \in R
  BY DEF Fine
<1>a. OrdinaryResult(w, m, s, e, type, n, x)
  <2>1. RecordAt(w, m.at, e, type, n)
    BY <1>1
  <2> QED
    BY <1>1, <2>1, ReadRecordIs
<1>2. PICK f, i, labels :
         /\ labels = Relativized(NameAt(w, at).labels) /\ f = Found(m, s, labels, type)
         /\ i = f.index[<<s, Folded(labels), type>>]
         /\ x = Added(f, s, i, rd, e + 1 + n)
  BY <1>1, <1>a, Zenon DEF OrdinaryResult
<1>3. labels \in Seq(Labels)
  <2>1. NameAt(w, at).labels \in Seq(Labels)
    BY NameAtType DEF NameResults
  <2> QED
    BY <1>2, <2>1, RelativizedSame
<1>4. PICK key : key = <<s, Folded(labels), type>>
  OBVIOUS
<1>5. /\ IsMessage(f) /\ Indexed(f) /\ f.ok = m.ok /\ f.at = m.at /\ f.opt = m.opt
      /\ i \in 1 .. Len(f.sections[s]) /\ Key(s, f.sections[s][i]) = key
      /\ \A q : InMessage(f, q) <=> InMessage(m, q)
  <2>1. Finding(m, s, labels, type, f, key, i)
    BY <1>1, <1>2, <1>3, <1>4 DEF Finding
  <2> QED
    BY <2>1, FoundFacts DEF FoundAs
<1>6. PICK a : a = e + 1 + n
  OBVIOUS
<1>7. x = Added(f, s, i, rd, a)
  BY <1>2, <1>6
<1>8. /\ IsMessage(x) /\ Indexed(x) /\ x.ok = f.ok /\ x.at = a /\ x.opt = f.opt
      /\ \A q : InMessage(x, q) <=>
           InMessage(f, q) \/ q = <<s, Folded(f.sections[s][i].name), f.sections[s][i].type, rd>>
  <2>1. AddedAs(f, s, i, rd, a, x)
    BY <1>5, <1>7, AddedFacts
  <2> QED
    BY <2>1 DEF AddedAs
<1>9. Folded(f.sections[s][i].name) = name /\ f.sections[s][i].type = type
  <2>1. PICK rrset : rrset = f.sections[s][i]
    BY Zenon
  <2>2. Key(s, rrset) = <<s, Folded(labels), type>> /\ Folded(labels) = name
    BY <1>2, <1>4, <1>5, <2>1
  <2>3. Folded(rrset.name) = name /\ rrset.type = type
    BY <2>2 DEF Key
  <2> QED
    BY <2>1, <2>3
<1>10. \A q : InMessage(x, q) <=> q \in R \cup {<<s, name, type, rd>>}
  BY <1>1, <1>5, <1>8, <1>9, Zenon
<1> QED
  BY <1>1, <1>5, <1>6, <1>8, <1>10 DEF Fine, Reread

LEMMA OptionRead ==
    ASSUME NEW w, NEW m, NEW at, NEW R, Fine(m, at, R), NoOption(m), NEW e, NEW n,
           RecordAt(w, at, e, "OPT", n), NameAt(w, at).labels = Root, NEW x, x = ReadRecord(w, m, 3)
    PROVE  Fine(x, e + 1 + n, R)
<1>1. IsMessage(m) /\ Indexed(m) /\ m.ok /\ m.ok = TRUE /\ m.at = at /\ \A q : InMessage(m, q) <=> q \in R
  BY DEF Fine
<1>2. x = OptionResult(m, e, n, TRUE)
  <2>1. RecordAt(w, m.at, e, "OPT", n) /\ NameAt(w, m.at).labels = Root
    BY <1>1, Zenon
  <2> QED
    BY <1>1, <2>1, ReadOptionIs
<1>4. x = [m EXCEPT !.at = e + 1 + n, !.opt = n, !.ok = TRUE]
  BY <1>2, Zenon DEF OptionResult
<1>5. m = [ok |-> m.ok, at |-> m.at, sections |-> m.sections, index |-> m.index, opt |-> m.opt]
  BY <1>1 DEF IsMessage
<1>7. PICK a : a = e + 1 + n
  OBVIOUS
<1>8. x = MovedTo(m, a, n)
  BY ONLY <1>1, <1>4, <1>5, <1>7 DEF MovedTo
<1>9. /\ IsMessage(x) /\ Indexed(x) /\ x.ok = m.ok /\ x.at = a
      /\ \A q : InMessage(x, q) <=> InMessage(m, q)
  <2>1. MovedAs(m, a, x)
    BY <1>1, <1>8, MovedFacts
  <2> QED
    BY <2>1 DEF MovedAs
<1> QED
  BY <1>1, <1>7, <1>9, Zenon DEF Fine

LEMMA SignatureRead ==
    ASSUME NEW w, NEW m, NEW at, NEW R, Fine(m, at, R), NEW e, NEW n,
           RecordAt(w, at, e, "TSIG", n), e + 1 + n = Len(w), NEW x, x = ReadRecord(w, m, 3)
    PROVE  Fine(x, Len(w), R)
<1>1. IsMessage(m) /\ Indexed(m) /\ m.ok /\ m.ok = TRUE /\ m.at = at /\ \A q : InMessage(m, q) <=> q \in R
  BY DEF Fine
<1>2. x = SignatureResult(m, Len(w), TRUE)
  <2>1. RecordAt(w, m.at, e, "TSIG", n)
    BY <1>1
  <2> QED
    BY <1>1, <2>1, ReadSignatureIs
<1>4. x = [m EXCEPT !.at = Len(w), !.ok = TRUE]
  BY <1>2, Zenon DEF SignatureResult
<1>5. m = [ok |-> m.ok, at |-> m.at, sections |-> m.sections, index |-> m.index, opt |-> m.opt]
  BY <1>1 DEF IsMessage
<1>7. PICK a : a = Len(w)
  OBVIOUS
<1>8. x = MovedTo(m, a, m.opt)
  BY ONLY <1>1, <1>4, <1>5, <1>7 DEF MovedTo
<1>9. /\ IsMessage(x) /\ Indexed(x) /\ x.ok = m.ok /\ x.at = a
      /\ \A q : InMessage(x, q) <=> InMessage(m, q)
  <2>1. MovedAs(m, a, x)
    BY <1>1, <1>8, MovedFacts
  <2> QED
    BY <2>1 DEF MovedAs
<1> QED
  BY <1>1, <1>7, <1>9, Zenon DEF Fine

LEMMA QuestionRead ==
    ASSUME NEW w \in Wires, NEW m, NEW at \in 0 .. Len(w), NEW R, Fine(m, at, R),
           NameAt(w, at).ok, NEW e, e = AfterName(w, at), w[e + 1].kind = "question", NEW x, x = ReadQuestion(w, m),
           NEW name, name = Folded(Relativized(NameAt(w, at).labels))
    PROVE  Fine(x, e + 1, R \cup {<<0, name, "ANY", <<>>>>}) /\ x.opt = m.opt
<1>1. IsMessage(m) /\ Indexed(m) /\ m.ok /\ m.ok = TRUE /\ m.at = at /\ \A q : InMessage(m, q) <=> q \in R
  BY DEF Fine
<1>2. PICK new : new = [name |-> Relativized(NameAt(w, at).labels), type |-> "ANY", rds |-> {}]
  OBVIOUS
<1>3. new \in RRsetsRead /\ Folded(new.name) = name /\ new.type = "ANY"
  <2>1. NameAt(w, at).labels \in Seq(Labels)
    BY NameAtType DEF NameResults
  <2>2. Relativized(NameAt(w, at).labels) \in Seq(Labels)
    BY <2>1, RelativizedSame
  <2> QED
    BY <1>2, <2>2 DEF RRsetsRead
<1>4. PICK old : old = m.sections[0]
  OBVIOUS
<1>5. old \in Seq(RRsetsRead) /\ 0 \in Sections
  BY <1>1, <1>4 DEF IsMessage, Sections
<1>6. PICK more : more = Append(old, new)
  OBVIOUS
<1>7. /\ more \in Seq(RRsetsRead) /\ Len(more) = Len(old) + 1 /\ more[Len(old) + 1] = new
      /\ Len(old) \in Nat /\ \A j \in 1 .. Len(old) : more[j] = old[j]
  BY <1>3, <1>5, <1>6, AppendRRset
<1>8. x = [m EXCEPT !.at = e + 1, !.sections[0] = Append(@, new)]
  BY <1>1, <1>2, Zenon DEF ReadQuestion
<1>9. PICK f : f = Replaced(m.sections, 0, more)
  OBVIOUS
<1>10. x = [ok |-> m.ok, at |-> e + 1, sections |-> f, index |-> m.index, opt |-> m.opt]
  <2>1. m = [ok |-> m.ok, at |-> m.at, sections |-> m.sections, index |-> m.index, opt |-> m.opt]
    BY <1>1 DEF IsMessage
  <2>2. PICK p : p = [m EXCEPT !.at = e + 1]
    OBVIOUS
  <2>3. p = [ok |-> m.ok, at |-> e + 1, sections |-> m.sections, index |-> m.index, opt |-> m.opt]
    BY ONLY <2>1, <2>2
  <2>4. x = [p EXCEPT !.sections = [m.sections EXCEPT ![0] = Append(old, new)]]
    BY <1>4, <1>8, <2>2, <2>3
  <2>5. x = [p EXCEPT !.sections = f]
    BY <1>6, <1>9, <2>4, Zenon DEF Replaced
  <2> QED
    BY ONLY <2>3, <2>5
<1>11. f \in [Sections -> Seq(RRsetsRead)] /\ f[0] = more /\ \A t \in Sections \ {0} : f[t] = m.sections[t]
  BY <1>1, <1>5, <1>7, <1>9 DEF IsMessage, Replaced
<1>12. /\ IsMessage(x) /\ x.sections = f /\ x.index = m.index /\ x.ok = m.ok /\ x.at = e + 1 /\ x.opt = m.opt
       /\ OnlyChanged(m, 0, x)
  BY <1>10, <1>11 DEF IsMessage, OnlyChanged
<1>13. Indexed(x)
  <2>1. \A t \in 1 .. 3 : f[t] = m.sections[t]
    BY <1>11 DEF Sections
  <2>2. IndexOf(f, m.index)
    <3>1. IndexOf(m.sections, m.index)
      BY <1>1 DEF Indexed
    <3> QED
      BY <2>1, <3>1, IndexStays
  <2> QED
    BY <1>12, <2>2, Zenon DEF Indexed
<1>14. ASSUME NEW q
       PROVE  InMessage(x, q) <=> q \in R \cup {<<0, name, "ANY", <<>>>>}
  <2>1. InMessage(x, q) <=> HeldElsewhere(m, 0, q) \/ HeldBy(0, more, q)
    BY <1>5, <1>11, <1>12, InChanged
  <2>2. InMessage(m, q) <=> HeldElsewhere(m, 0, q) \/ HeldBy(0, old, q)
    BY <1>4, <1>5, InItself
  <2>3. q \in Held(0, new) <=> q = <<0, name, "ANY", <<>>>>
    BY <1>3 DEF Held
  <2>4. \A j \in 1 .. Len(more) : j \in 1 .. Len(old) \/ more[j] = new
    BY <1>7
  <2>5. (\A j \in 1 .. Len(old) : j \in 1 .. Len(more) /\ more[j] = old[j]) /\ Len(old) + 1 \in 1 .. Len(more)
    BY <1>7
  <2>6. HeldBy(0, more, q) <=> HeldBy(0, old, q) \/ q = <<0, name, "ANY", <<>>>>
    BY <1>7, <2>3, <2>4, <2>5, Zenon DEF HeldBy
  <2> QED
    BY <1>1, <2>1, <2>2, <2>6
<1> QED
  BY <1>1, <1>12, <1>13, <1>14 DEF Fine

-----------------------------------------------------------------------------
(* Sections are read one record after the other.                           *)
One(w, m, s) == IF s = 0 THEN ReadQuestion(w, m) ELSE ReadRecord(w, m, s)
Step(w, m, s, so, n) == IF n = 0 THEN m ELSE One(w, so[n - 1], s)
Steps(w, m, s, c, so) == so = [n \in 0 .. c |-> Step(w, m, s, so, n)]

LEMMA SectionIs ==
    \A w, m, s, c : ReadSection(w, m, s, c) = (CHOOSE so : so = [n \in 0 .. c |-> Step(w, m, s, so, n)])[c]
BY Zenon DEF ReadSection, Step, One

LEMMA StepsExist ==
    ASSUME NEW w, NEW m, NEW s
    PROVE  \A c \in Nat : \E so : Steps(w, m, s, c, so)
<1> DEFINE T == {c \in Nat : ~\E so : Steps(w, m, s, c, so)}
<1>1. 0 \notin T
  <2> DEFINE g == [n \in 0 .. 0 |-> m]
  <2>1. \A n \in 0 .. 0 : Step(w, m, s, g, n) = m
    BY DEF Step
  <2>2. Steps(w, m, s, 0, g)
    BY <2>1, Zenon DEF Steps
  <2> QED
    BY <2>2
<1>2. ASSUME NEW c \in Nat, c \notin T
      PROVE  c + 1 \notin T
  <2>1. PICK f : Steps(w, m, s, c, f)
    BY <1>2
  <2> DEFINE g == [n \in 0 .. c + 1 |-> IF n = c + 1 THEN One(w, f[c], s) ELSE f[n]]
  <2>2. \A n \in 0 .. c + 1 : g[n] = Step(w, m, s, g, n)
    <3> TAKE n \in 0 .. c + 1
    <3>1. CASE n = c + 1
      <4>1. c \in 0 .. c + 1 /\ c # c + 1 /\ n # 0 /\ n - 1 = c
        BY <3>1
      <4>2. g[c] = f[c] /\ g[n] = One(w, f[c], s)
        BY <3>1, <4>1
      <4> HIDE DEF g
      <4> QED
        BY <4>1, <4>2 DEF Step
    <3>2. CASE n # c + 1
      <4>1. n \in 0 .. c
        BY <3>2
      <4>2. f[n] = Step(w, m, s, f, n)
        BY <2>1, <4>1, Zenon DEF Steps
      <4>3. g[n] = f[n]
        BY <3>2
      <4>4. n # 0 => n - 1 \in 0 .. c + 1 /\ n - 1 # c + 1
        BY <4>1
      <4>5. n # 0 => g[n - 1] = f[n - 1]
        BY <4>4
      <4> HIDE DEF g
      <4> QED
        BY <4>2, <4>3, <4>5 DEF Step
    <3> QED
      BY <3>1, <3>2
  <2>3. g = [n \in 0 .. c + 1 |-> g[n]]
    OBVIOUS
  <2> HIDE DEF g
  <2>4. Steps(w, m, s, c + 1, g)
    BY <2>2, <2>3, Zenon DEF Steps
  <2> QED
    BY <2>4
<1>3. T \subseteq Nat
  OBVIOUS
<1> HIDE DEF T
<1>4. T = {}
  BY <1>1, <1>2, <1>3, NeverFails
<1> QED
  BY <1>4 DEF T

LEMMA StepsAgree ==
    ASSUME NEW w, NEW m, NEW s, NEW c \in Nat, NEW f, Steps(w, m, s, c, f), NEW d \in Nat, c <= d,
           NEW g, Steps(w, m, s, d, g)
    PROVE  \A n \in 0 .. c : f[n] = g[n]
<1> DEFINE T == {n \in Nat : n <= c /\ f[n] # g[n]}
<1>0. /\ \A n \in 0 .. c : f[n] = Step(w, m, s, f, n)
      /\ \A n \in 0 .. d : g[n] = Step(w, m, s, g, n)
  BY Zenon DEF Steps
<1>1. 0 \notin T
  <2>1. f[0] = m /\ g[0] = m
    BY <1>0 DEF Step
  <2> QED
    BY <2>1
<1>2. ASSUME NEW i \in Nat, i \notin T
      PROVE  i + 1 \notin T
  <2> SUFFICES ASSUME i + 1 <= c PROVE f[i + 1] = g[i + 1]
    OBVIOUS
  <2>1. i + 1 \in 0 .. c /\ i + 1 \in 0 .. d /\ i + 1 # 0 /\ i + 1 - 1 = i /\ i <= c
    OBVIOUS
  <2>2. f[i] = g[i]
    BY <1>2, <2>1
  <2>3. f[i + 1] = One(w, f[i], s) /\ g[i + 1] = One(w, g[i], s)
    BY <1>0, <2>1 DEF Step
  <2> QED
    BY <2>2, <2>3
<1>3. T \subseteq Nat
  OBVIOUS
<1> HIDE DEF T
<1>4. T = {}
  BY <1>1, <1>2, <1>3, NeverFails
<1> QED
  BY <1>4 DEF T

LEMMA SectionUnrolls ==
    ASSUME NEW w, NEW m, NEW s, NEW n \in Nat
    PROVE  /\ ReadSection(w, m, s, 0) = m
           /\ ReadSection(w, m, s, n + 1) = One(w, ReadSection(w, m, s, n), s)
<1>1. ASSUME NEW c \in Nat
      PROVE  \E so : Steps(w, m, s, c, so) /\ ReadSection(w, m, s, c) = so[c]
  <2>1. PICK so : so = CHOOSE f : f = [k \in 0 .. c |-> Step(w, m, s, f, k)]
    OBVIOUS
  <2>2. \E f : f = [k \in 0 .. c |-> Step(w, m, s, f, k)]
    <3>1. \E f : Steps(w, m, s, c, f)
      BY StepsExist
    <3> QED
      BY <3>1, Zenon DEF Steps
  <2>3. so = [k \in 0 .. c |-> Step(w, m, s, so, k)]
    BY <2>1, <2>2, Zenon
  <2>4. ReadSection(w, m, s, c) = so[c]
    BY <2>1, SectionIs, Zenon
  <2> QED
    BY <2>3, <2>4, Zenon DEF Steps
<1>2. ReadSection(w, m, s, 0) = m
  <2>1. PICK f : Steps(w, m, s, 0, f) /\ ReadSection(w, m, s, 0) = f[0]
    BY <1>1
  <2> QED
    BY <2>1 DEF Steps, Step
<1>3. PICK f : Steps(w, m, s, n, f) /\ ReadSection(w, m, s, n) = f[n]
  BY <1>1
<1>4. n + 1 \in Nat /\ n <= n + 1 /\ n \in 0 .. n /\ n + 1 \in 0 .. n + 1 /\ n + 1 # 0 /\ n + 1 - 1 = n
  OBVIOUS
<1>5. PICK g : Steps(w, m, s, n + 1, g) /\ ReadSection(w, m, s, n + 1) = g[n + 1]
  BY <1>1, <1>4
<1>6. f[n] = g[n]
  BY <1>3, <1>4, <1>5, StepsAgree
<1>7. g[n + 1] = One(w, g[n], s)
  <2>1. g[n + 1] = Step(w, m, s, g, n + 1)
    BY <1>4, <1>5, Zenon DEF Steps
  <2> QED
    BY <1>4, <2>1 DEF Step
<1> QED
  BY <1>2, <1>3, <1>5, <1>6, <1>7

(* The records of an RRset are written one after the other.                *)
Writing(r, name, type, rds, so, n) == IF n = 0 THEN r ELSE WriteRecord(so[n - 1], name, type, rds[n])
Writes(r, name, type, rds, c, so) == so = [n \in 0 .. c |-> Writing(r, name, type, rds, so, n)]

LEMMA WritesExist ==
    ASSUME NEW r, NEW name, NEW type, NEW rds
    PROVE  \A c \in Nat : \E so : Writes(r, name, type, rds, c, so)
<1> DEFINE T == {c \in Nat : ~\E so : Writes(r, name, type, rds, c, so)}
<1>1. 0 \notin T
  <2> DEFINE g == [n \in 0 .. 0 |-> r]
  <2>1. \A n \in 0 .. 0 : Writing(r, name, type, rds, g, n) = r
    BY DEF Writing
  <2>2. Writes(r, name, type, rds, 0, g)
    BY <2>1, Zenon DEF Writes
  <2> QED
    BY <2>2
<1>2. ASSUME NEW c \in Nat, c \notin T
      PROVE  c + 1 \notin T
  <2>1. PICK f : Writes(r, name, type, rds, c, f)
    BY <1>2
  <2> DEFINE g == [n \in 0 .. c + 1 |-> IF n = c + 1 THEN WriteRecord(f[c], name, type, rds[c + 1]) ELSE f[n]]
  <2>2. \A n \in 0 .. c + 1 : g[n] = Writing(r, name, type, rds, g, n)
    <3> TAKE n \in 0 .. c + 1
    <3>1. CASE n = c + 1
      <4>1. c \in 0 .. c + 1 /\ c # c + 1 /\ n # 0 /\ n - 1 = c
        BY <3>1
      <4>2. g[c] = f[c] /\ g[n] = WriteRecord(f[c], name, type, rds[c + 1])
        BY <3>1, <4>1
      <4> HIDE DEF g
      <4> QED
        BY <3>1, <4>1, <4>2 DEF Writing
    <3>2. CASE n # c + 1
      <4>1. n \in 0 .. c
        BY <3>2
      <4>2. f[n] = Writing(r, name, type, rds, f, n)
        BY <2>1, <4>1, Zenon DEF Writes
      <4>3. g[n] = f[n]
        BY <3>2
      <4>4. n # 0 => n - 1 \in 0 .. c + 1 /\ n - 1 # c + 1
        BY <4>1
      <4>5. n # 0 => g[n - 1] = f[n - 1]
        BY <4>4
      <4> HIDE DEF g
      <4> QED
        BY <4>2, <4>3, <4>5 DEF Writing
    <3> QED
      BY <3>1, <3>2
  <2>3. g = [n \in 0 .. c + 1 |-> g[n]]
    OBVIOUS
  <2> HIDE DEF g
  <2>4. Writes(r, name, type, rds, c + 1, g)
    BY <2>2, <2>3, Zenon DEF Writes
  <2> QED
    BY <2>4
<1>3. T \subseteq Nat
  OBVIOUS
<1> HIDE DEF T
<1>4. T = {}
  BY <1>1, <1>2, <1>3, NeverFails
<1> QED
  BY <1>4 DEF T

RRsetAdded(r, section, name, type, rds) ==
    \E so : /\ so[0] = [r EXCEPT !.section = section]
            /\ \A n \in 1 .. Len(rds) : so[n] = WriteRecord(so[n - 1], name, type, rds[n])
            /\ AddRRset(r, section, name, type, rds) = Tracked(r, so[Len(rds)], section, Len(rds))

LEMMA AddRRsetIs ==
    ASSUME NEW r, NEW section, NEW name, NEW type, NEW rds, Len(rds) \in Nat
    PROVE  RRsetAdded(r, section, name, type, rds)
<1>1. PICK q : q = [r EXCEPT !.section = section]
  OBVIOUS
<1>2. PICK so : so = CHOOSE f : f = [n \in 0 .. Len(rds) |-> Writing(q, name, type, rds, f, n)]
  OBVIOUS
<1>3. \E f : f = [n \in 0 .. Len(rds) |-> Writing(q, name, type, rds, f, n)]
  <2>1. \E f : Writes(q, name, type, rds, Len(rds), f)
    BY WritesExist
  <2> QED
    BY <2>1, Zenon DEF Writes
<1>4. so = [n \in 0 .. Len(rds) |-> Writing(q, name, type, rds, so, n)]
  BY <1>2, <1>3, Zenon
<1>5. AddRRset(r, section, name, type, rds) = Tracked(r, so[Len(rds)], section, Len(rds))
  BY <1>1, <1>2, Zenon DEF AddRRset, Writing
<1>6. \A n \in 0 .. Len(rds) : so[n] = Writing(q, name, type, rds, so, n)
  BY <1>4, Zenon
<1>7. so[0] = q
  BY <1>6 DEF Writing
<1>8. \A n \in 1 .. Len(rds) : so[n] = WriteRecord(so[n - 1], name, type, rds[n])
  <2> TAKE n \in 1 .. Len(rds)
  <2>1. n \in 0 .. Len(rds) /\ n # 0
    OBVIOUS
  <2> QED
    BY <1>6, <2>1 DEF Writing
<1> QED
  BY <1>1, <1>5, <1>7, <1>8, Zenon DEF RRsetAdded

-----------------------------------------------------------------------------
(* x goes on where w ends; only its header may be another one.             *)
Continues(w, x) ==
    /\ Len(w) <= Len(x)
    /\ \A i \in 1 .. Len(w) : w[i].kind # "header" => x[i] = w[i]

LEMMA ContinuesKeeps ==
    ASSUME NEW w, NEW x, Continues(w, x)
    PROVE  Keeps(w, x)
<1>1. "header" \notin NameKinds
  BY DEF NameKinds
<1> QED
  BY <1>1 DEF Continues, Keeps

LEMMA ContinuesOn ==
    ASSUME NEW w, NEW y, NEW x, Extends(w, y), Continues(y, x), Len(w) \in Nat, Len(y) \in Nat, Len(x) \in Nat
    PROVE  Continues(w, x)
<1>1. Len(w) <= Len(y) /\ \A i \in 1 .. Len(w) : y[i] = w[i]
  BY DEF Extends
<1>2. Len(y) <= Len(x) /\ \A i \in 1 .. Len(y) : y[i].kind # "header" => x[i] = y[i]
  BY DEF Continues
<1>3. ASSUME NEW i \in 1 .. Len(w), w[i].kind # "header"
      PROVE  x[i] = w[i]
  <2>1. i \in 1 .. Len(y)
    BY <1>1
  <2>2. y[i] = w[i]
    BY <1>1
  <2> QED
    BY <1>2, <1>3, <2>1, <2>2
<1> QED
  BY <1>1, <1>2, <1>3 DEF Continues

(* A message, section after section.                                       *)
First(x, c) == ReadSection(x, Unread, 0, c[0])
Second(x, c) == ReadSection(x, First(x, c), 1, c[1])
Third(x, c) == ReadSection(x, Second(x, c), 2, c[2])
Message(x, c) == ReadSection(x, Third(x, c), 3, c[3])
Earlier(x, c, s) == CASE s = 0 -> Unread [] s = 1 -> First(x, c) [] s = 2 -> Second(x, c) [] OTHER -> Third(x, c)
Sofar(x, c, s, n) == ReadSection(x, Earlier(x, c, s), s, n)

NoneAfter(c, s) == \A t \in Sections : t > s => c[t] = 0

LEMMA ReadMessageIs ==
    ASSUME NEW x, NEW c, c = x[1].counts
    PROVE  ReadMessage(x) = [Message(x, c) EXCEPT !.ok = Message(x, c).ok /\ Message(x, c).at = Len(x)]
BY Zenon DEF ReadMessage, Ended, First, Second, Third, Message

LEMMA NoneRead ==
    \A w, m, s : ReadSection(w, m, s, 0) = m
<1> TAKE w, m, s
<1>1. 0 \in Nat
  OBVIOUS
<1> QED
  BY <1>1, SectionUnrolls, Zenon

LEMMA MessageSofar ==
    ASSUME NEW x, NEW c \in [Sections -> Nat], NEW s \in Sections, NoneAfter(c, s)
    PROVE  Message(x, c) = Sofar(x, c, s, c[s])
<1>0. s \in 0 .. 3 /\ \A t \in 0 .. 3 : t > s => c[t] = 0
  BY DEF Sections, NoneAfter
<1>1. CASE s = 0
  <2>1. c[1] = 0 /\ c[2] = 0 /\ c[3] = 0
    BY <1>0, <1>1
  <2> QED
    BY <1>1, <2>1, NoneRead DEF Message, First, Second, Third, Earlier, Sofar
<1>2. CASE s = 1
  <2>1. c[2] = 0 /\ c[3] = 0
    BY <1>0, <1>2
  <2> QED
    BY <1>2, <2>1, NoneRead DEF Message, First, Second, Third, Earlier, Sofar
<1>3. CASE s = 2
  <2>1. c[3] = 0
    BY <1>0, <1>3
  <2> QED
    BY <1>3, <2>1, NoneRead DEF Message, First, Second, Third, Earlier, Sofar
<1>4. CASE s = 3
  BY <1>4 DEF Message, Third, Earlier, Sofar
<1> QED
  BY <1>0, <1>1, <1>2, <1>3, <1>4

LEMMA EarlierSame ==
    ASSUME NEW x, NEW c, NEW d, NEW s \in Sections, \A t \in Sections : t < s => c[t] = d[t]
    PROVE  Earlier(x, c, s) = Earlier(x, d, s)
<1>0. s \in 0 .. 3 /\ \A t \in 0 .. 3 : t < s => c[t] = d[t]
  BY DEF Sections
<1>1. CASE s = 0
  BY <1>1 DEF Earlier
<1>2. CASE s = 1
  <2>1. c[0] = d[0]
    BY <1>0, <1>2
  <2> QED
    BY <1>2, <2>1 DEF Earlier, First
<1>3. CASE s = 2
  <2>1. c[0] = d[0] /\ c[1] = d[1]
    BY <1>0, <1>3
  <2> QED
    BY <1>3, <2>1 DEF Earlier, First, Second
<1>4. CASE s = 3
  <2>1. c[0] = d[0] /\ c[1] = d[1] /\ c[2] = d[2]
    BY <1>0, <1>4
  <2> QED
    BY <1>4, <2>1 DEF Earlier, First, Second, Third
<1> QED
  BY <1>0, <1>1, <1>2, <1>3, <1>4

Counted(c, s, n) == [c EXCEPT ![s] = @ + n]

LEMMA CountedMessage ==
    ASSUME NEW x, NEW c \in [Sections -> Nat], NEW s \in Sections, NoneAfter(c, s), NEW n \in Nat,
           NEW d, d = Counted(c, s, n)
    PROVE  d \in [Sections -> Nat] /\ NoneAfter(d, s) /\ Message(x, d) = Sofar(x, c, s, c[s] + n)
<1>1. d \in [Sections -> Nat] /\ d[s] = c[s] + n /\ \A t \in Sections \ {s} : d[t] = c[t]
  BY DEF Counted
<1>2. NoneAfter(d, s)
  BY <1>1 DEF NoneAfter, Sections
<1>3. Earlier(x, d, s) = Earlier(x, c, s)
  <2>1. \A t \in Sections : t < s => d[t] = c[t]
    BY <1>1 DEF Sections
  <2> QED
    BY <2>1, EarlierSame
<1>4. Message(x, d) = Sofar(x, d, s, d[s])
  BY <1>1, <1>2, MessageSofar
<1> QED
  BY <1>1, <1>2, <1>3, <1>4 DEF Sofar

LEMMA OneCounted ==
    ASSUME NEW c \in [Sections -> Nat], NEW s \in Sections, NoneAfter(c, s), NEW d, d = Counted(c, s, 1)
    PROVE  \A x : Message(x, d) = Sofar(x, c, s, c[s] + 1)
<1>1. 1 \in Nat
  OBVIOUS
<1> QED
  BY <1>1, CountedMessage

(* However w goes on, n records of section s read back, and R with them.   *)
ReadsBack(w, c, s, n, R) ==
    \A x \in Wires : Continues(w, x) => Fine(Sofar(x, c, s, n), Len(w), R) /\ NoOption(Sofar(x, c, s, n))

Readable(w, c, R) ==
    \A x \in Wires : Continues(w, x) => Fine(Message(x, c), Len(w), R) /\ NoOption(Message(x, c))

LEMMA SofarUnrolls ==
    ASSUME NEW x, NEW c, NEW s, NEW n \in Nat
    PROVE  Sofar(x, c, s, n + 1) = One(x, Sofar(x, c, s, n), s)
BY SectionUnrolls DEF Sofar

(* What was written behind w still stands in whatever continues it.        *)
LEMMA RecordStays ==
    ASSUME NEW w \in Wires, NEW y \in Wires, NEW D, NEW type \in Types, RecordWritten(w, y, D, type),
           NEW x \in Wires, Continues(y, x), NEW e, e = AfterName(y, Len(w))
    PROVE  /\ RecordAt(x, Len(w), e, type, Len(y) - (e + 1)) /\ e \in Nat /\ e + 1 <= Len(y) /\ e + 1 + (Len(y) - (e + 1)) = Len(y)
           /\ Len(w) \in 0 .. Len(x) /\ NameAt(x, Len(w)) = NameAt(y, Len(w))
<1>0. Len(w) \in Nat /\ Len(y) \in Nat /\ Len(x) \in Nat /\ Len(y) <= Len(x)
  BY WireFacts DEF Continues
<1>1. /\ NameAt(y, Len(w)).ok /\ e \in Len(w) + 1 .. Len(y) - 1
      /\ y[e + 1] = [kind |-> "record", type |-> type, rdlen |-> Len(y) - (e + 1)]
  BY DEF RecordWritten
<1>2. Len(w) \in 0 .. Len(y) /\ e \in Nat /\ e + 1 \in 1 .. Len(y)
  BY <1>0, <1>1
<1>3. NameAt(x, Len(w)) = NameAt(y, Len(w)) /\ AfterName(x, Len(w)) = e
  <2>1. Keeps(y, x)
    BY ContinuesKeeps
  <2> QED
    BY <1>1, <1>2, <2>1, ReadStays
<1>4. PICK n : n = Len(y) - (e + 1)
  OBVIOUS
<1>5. y[e + 1].kind = "record" /\ y[e + 1].type = type /\ y[e + 1].rdlen = n
  BY <1>1, <1>4
<1>6. x[e + 1] = y[e + 1]
  BY <1>2, <1>5 DEF Continues
<1>7. e + 1 + n = Len(y) /\ ~(e + 1 + n > Len(x)) /\ Len(w) \in 0 .. Len(x)
  BY <1>0, <1>2, <1>4
<1>8. RecordAt(x, Len(w), e, type, n)
  BY <1>1, <1>3, <1>5, <1>6, <1>7 DEF RecordAt
<1> QED
  BY <1>2, <1>3, <1>4, <1>7, <1>8

Given(type, rd) == IF type = "NS" THEN rd \in NamesGiven ELSE rd \in Values
DataOf(type, rd) == IF type = "NS" THEN Folded(Relativized(rd)) ELSE rd
RecordOf(s, name, type, rd) == <<s, Folded(Relativized(name)), type, DataOf(type, rd)>>

LEMMA RecordReadAgain ==
    ASSUME NEW w \in Wires, NEW c, NEW s \in 1 .. 3, NEW n \in Nat, NEW R, ReadsBack(w, c, s, n, R),
           NEW name \in NamesGiven, NEW type \in Types, type \notin {"OPT", "TSIG"}, NEW rd,
           NEW y \in Wires, Extends(w, y), RecordWritten(w, y, Derelativized(name), type),
           NEW x \in Wires, Continues(y, x), NEW e, e = AfterName(y, Len(w)),
           Unreserved(x, e, type, Len(y) - (e + 1)), DataAt(x, e, type) = rd, rd \in Data,
           NEW m, m = Sofar(x, c, s, n + 1)
    PROVE  Fine(m, Len(y), R \cup {<<s, Folded(Relativized(name)), type, rd>>}) /\ NoOption(m)
<1>0. Len(w) \in Nat /\ Len(y) \in Nat /\ Len(x) \in Nat
  BY WireFacts
<1>1. PICK p : p = Sofar(x, c, s, n)
  OBVIOUS
<1>2. Fine(p, Len(w), R) /\ NoOption(p)
  <2>1. Continues(w, x)
    BY <1>0, ContinuesOn
  <2> QED
    BY <1>1, <2>1 DEF ReadsBack
<1>3. PICK k : k = Len(y) - (e + 1)
  OBVIOUS
<1>4. PICK at : at = Len(w)
  OBVIOUS
<1>5. RecordAt(x, at, e, type, k) /\ e + 1 + k = Len(y) /\ at \in 0 .. Len(x) /\ NameAt(x, at) = NameAt(y, at)
  BY <1>3, <1>4, RecordStays
<1>6. m = ReadRecord(x, p, s)
  <2>1. m = One(x, p, s)
    BY <1>1, SofarUnrolls
  <2>2. s # 0
    OBVIOUS
  <2> QED
    BY <2>1, <2>2 DEF One
<1>7. PICK folded : folded = Folded(Relativized(NameAt(x, at).labels))
  OBVIOUS
<1>8. Fine(m, e + 1 + k, R \cup {<<s, folded, type, rd>>}) /\ m.opt = p.opt
  <2>1. Fine(p, at, R)
    BY <1>2, <1>4
  <2>2. Unreserved(x, e, type, k)
    BY <1>3
  <2>3. rd = DataAt(x, e, type)
    OBVIOUS
  <2>4. Rereading(x, p, at, R, e, type, k, s, rd, m, folded)
    BY <1>5, <1>6, <1>7, <2>1, <2>2, <2>3 DEF Rereading
  <2>5. Reread(p, R, e, type, k, s, rd, m, folded)
    BY <2>4, OrdinaryRead
  <2> QED
    BY <2>5 DEF Reread
<1>9. folded = Folded(Relativized(name))
  <2>1. PICK labels : labels = NameAt(x, at).labels
    OBVIOUS
  <2>2. labels \in Seq(Labels)
    BY <1>5, <2>1, NameAtType DEF NameResults
  <2>3. Folded(labels) = Folded(Derelativized(name))
    BY <1>4, <1>5, <2>1 DEF RecordWritten
  <2> QED
    BY <1>7, <2>1, <2>2, <2>3, ReadAsGiven
<1> QED
  BY <1>2, <1>5, <1>8, <1>9 DEF NoOption

LEMMA DataRecordReads ==
    ASSUME NEW r, IsRenderer(r), Compressed(r.output, r.compress),
           NEW c, NEW s \in 1 .. 3, NEW n \in Nat, NEW R, ReadsBack(r.output, c, s, n, R),
           NEW name \in NamesGiven, NEW type \in Types, type \notin {"NS", "OPT", "TSIG"}, NEW rd \in Values,
           NEW x, x = WriteRecord(r, name, type, rd)
    PROVE  /\ IsRenderer(x) /\ Compressed(x.output, x.compress) /\ Grows(r, x)
           /\ ReadsBack(x.output, c, s, n + 1, R \cup {RecordOf(s, name, type, rd)})
<1>1. PICK D : D = Derelativized(name)
  OBVIOUS
<1>2. PICK y : y = x.output
  OBVIOUS
<1>3. PICK w : w = r.output
  OBVIOUS
<1>4. PICK e : e = AfterName(y, Len(w))
  OBVIOUS
<1>5. /\ IsRenderer(x) /\ Compressed(x.output, x.compress) /\ Grows(r, x)
      /\ RecordWritten(w, y, D, type) /\ e + 2 = Len(y) /\ y[e + 2] = [kind |-> "datum", value |-> rd]
  <2>1. IsWhole(D)
    BY <1>1, DerelativizedWhole
  <2> QED
    BY <1>1, <1>2, <1>3, <1>4, <2>1, DataRecordWritten
<1>6. w \in Wires /\ y \in Wires /\ Len(w) \in Nat /\ Len(y) \in Nat /\ Extends(w, y)
  <2>1. w \in Wires /\ y \in Wires /\ Extends(w, y)
    BY <1>2, <1>3, <1>5 DEF IsRenderer, Grows
  <2> QED
    BY <2>1, WireFacts
<1>7. e \in Nat /\ e + 1 + 1 = e + 2 /\ e + 2 \in 1 .. Len(y)
  <2>1. e \in Len(w) + 1 .. Len(y) - 1
    BY <1>4, <1>5 DEF RecordWritten
  <2> QED
    BY <1>5, <1>6, <2>1
<1>8. ASSUME NEW z \in Wires, Continues(y, z)
      PROVE  Fine(Sofar(z, c, s, n + 1), Len(y), R \cup {RecordOf(s, name, type, rd)}) /\ NoOption(Sofar(z, c, s, n + 1))
  <2>1. y[e + 2].kind = "datum" /\ y[e + 2].value = rd
    BY <1>5
  <2>2. z[e + 2] = y[e + 2]
    BY <1>7, <1>8, <2>1 DEF Continues
  <2>3. DataAt(z, e, type) = rd
    BY <1>7, <2>1, <2>2 DEF DataAt
  <2>4. Unreserved(z, e, type, Len(y) - (e + 1))
    BY DEF Unreserved
  <2>5. rd \in Data
    BY DEF Data
  <2>6. PICK m : m = Sofar(z, c, s, n + 1)
    OBVIOUS
  <2>7. ReadsBack(w, c, s, n, R)
    BY <1>3
  <2>8. RecordWritten(w, y, Derelativized(name), type)
    BY <1>1, <1>5
  <2>9. Fine(m, Len(y), R \cup {<<s, Folded(Relativized(name)), type, rd>>}) /\ NoOption(m)
    BY <1>4, <1>6, <1>8, <2>3, <2>4, <2>5, <2>6, <2>7, <2>8, RecordReadAgain
  <2>10. RecordOf(s, name, type, rd) = <<s, Folded(Relativized(name)), type, rd>>
    BY DEF RecordOf, DataOf
  <2> QED
    BY <2>6, <2>9, <2>10
<1>9. ReadsBack(y, c, s, n + 1, R \cup {RecordOf(s, name, type, rd)})
  BY <1>8, Zenon DEF ReadsBack
<1> QED
  BY <1>2, <1>5, <1>9

LEMMA NameRecordReads ==
    ASSUME NEW r, IsRenderer(r), Compressed(r.output, r.compress),
           NEW c, NEW s \in 1 .. 3, NEW n \in Nat, NEW R, ReadsBack(r.output, c, s, n, R),
           NEW name \in NamesGiven, "NS" \in Types, NEW rd \in NamesGiven,
           NEW x, x = WriteRecord(r, name, "NS", rd)
    PROVE  /\ IsRenderer(x) /\ Compressed(x.output, x.compress) /\ Grows(r, x)
           /\ ReadsBack(x.output, c, s, n + 1, R \cup {RecordOf(s, name, "NS", rd)})
<1>1. PICK D : D = Derelativized(name)
  OBVIOUS
<1>t. PICK T : T = Derelativized(rd)
  OBVIOUS
<1>2. PICK y : y = x.output
  OBVIOUS
<1>3. PICK w : w = r.output
  OBVIOUS
<1>4. PICK e : e = AfterName(y, Len(w))
  OBVIOUS
<1>5. /\ IsRenderer(x) /\ Compressed(x.output, x.compress) /\ Grows(r, x)
      /\ RecordWritten(w, y, D, "NS") /\ NameAt(y, e + 1).ok
      /\ Folded(NameAt(y, e + 1).labels) = Folded(T) /\ AfterName(y, e + 1) = Len(y)
  <2>1. IsWhole(D) /\ IsWhole(T)
    BY <1>1, <1>t, DerelativizedWhole
  <2> QED
    BY <1>1, <1>t, <1>2, <1>3, <1>4, <2>1, NameRecordWritten
<1>6. w \in Wires /\ y \in Wires /\ Len(w) \in Nat /\ Len(y) \in Nat /\ Extends(w, y)
  <2>1. w \in Wires /\ y \in Wires /\ Extends(w, y)
    BY <1>2, <1>3, <1>5 DEF IsRenderer, Grows
  <2> QED
    BY <2>1, WireFacts
<1>7. e \in Nat /\ e + 1 \in 0 .. Len(y)
  <2>1. e \in Len(w) + 1 .. Len(y) - 1
    BY <1>4, <1>5 DEF RecordWritten
  <2> QED
    BY <1>5, <1>6, <2>1
<1>8. ASSUME NEW z \in Wires, Continues(y, z)
      PROVE  Fine(Sofar(z, c, s, n + 1), Len(y), R \cup {RecordOf(s, name, "NS", rd)}) /\ NoOption(Sofar(z, c, s, n + 1))
  <2>1. NameAt(z, e + 1) = NameAt(y, e + 1) /\ AfterName(z, e + 1) = AfterName(y, e + 1)
    <3>1. Keeps(y, z)
      BY <1>8, ContinuesKeeps
    <3> QED
      BY <1>5, <1>6, <1>7, <1>8, <3>1, ReadStays
  <2>2. PICK labels : labels = NameAt(y, e + 1).labels
    OBVIOUS
  <2>3. labels \in Seq(Labels)
    BY <1>6, <1>7, <2>2, NameAtType DEF NameResults
  <2>4. Folded(Relativized(labels)) = Folded(Relativized(rd)) /\ Relativized(labels) \in Seq(Labels)
    BY <1>5, <1>t, <2>2, <2>3, ReadAsGiven
  <2>5. PICK data : data = Folded(Relativized(rd))
    OBVIOUS
  <2>6. DataAt(z, e, "NS") = data /\ data \in Data
    BY <2>1, <2>2, <2>4, <2>5 DEF DataAt, Data
  <2>7. Unreserved(z, e, "NS", Len(y) - (e + 1))
    <3>1. e + 1 + (Len(y) - (e + 1)) = Len(y)
      BY <1>6, <1>7
    <3> QED
      BY <1>5, <2>1, <3>1 DEF Unreserved
  <2>8. PICK m : m = Sofar(z, c, s, n + 1)
    OBVIOUS
  <2>9. ReadsBack(w, c, s, n, R)
    BY <1>3
  <2>10. RecordWritten(w, y, Derelativized(name), "NS")
    BY <1>1, <1>5
  <2>11. Fine(m, Len(y), R \cup {<<s, Folded(Relativized(name)), "NS", data>>}) /\ NoOption(m)
    BY <1>4, <1>6, <1>8, <2>6, <2>7, <2>8, <2>9, <2>10, RecordReadAgain
  <2>12. RecordOf(s, name, "NS", rd) = <<s, Folded(Relativized(name)), "NS", data>>
    BY <2>5 DEF RecordOf, DataOf
  <2> QED
    BY <2>8, <2>11, <2>12
<1>9. ReadsBack(y, c, s, n + 1, R \cup {RecordOf(s, name, "NS", rd)})
  BY <1>8, Zenon DEF ReadsBack
<1> QED
  BY <1>2, <1>5, <1>9

LEMMA QuestionReads ==
    ASSUME NEW r, IsRenderer(r), Compressed(r.output, r.compress),
           NEW c, NEW n \in Nat, NEW R, ReadsBack(r.output, c, 0, n, R),
           NEW name \in NamesGiven, NEW x, x = Write(WriteName(r, name), [kind |-> "question"])
    PROVE  /\ IsRenderer(x) /\ Compressed(x.output, x.compress) /\ Grows(r, x)
           /\ ReadsBack(x.output, c, 0, n + 1, R \cup {<<0, Folded(Relativized(name)), "ANY", <<>>>>})
<1>1. PICK D : D = Derelativized(name)
  OBVIOUS
<1>2. PICK o : o = WriteName(r, name)
  OBVIOUS
<1>3. PICK q : q = [kind |-> "question"]
  OBVIOUS
<1>4. q \in Cells /\ q.kind = "question"
  BY <1>3, CellsMade
<1>5. /\ IsRenderer(o) /\ Compressed(o.output, o.compress) /\ Grows(r, o)
      /\ Len(o.output) > Len(r.output) /\ EndsWith(o.output, Len(r.output), Len(o.output))
      /\ NameAt(o.output, Len(r.output)).ok
      /\ Folded(NameAt(o.output, Len(r.output)).labels) = Folded(D)
  <2>1. IsWhole(D)
    BY <1>1, DerelativizedWhole
  <2> QED
    BY <1>1, <1>2, <2>1, WriteNameKeeps
<1>6. /\ IsRenderer(x) /\ Compressed(x.output, x.compress) /\ Grows(o, x)
      /\ Len(x.output) = Len(o.output) + 1 /\ x.output[Len(o.output) + 1] = q
  BY <1>2, <1>3, <1>4, <1>5, WriteKeeps
<1>7. PICK w : w = r.output
  OBVIOUS
<1>8. PICK v : v = o.output
  OBVIOUS
<1>9. PICK y : y = x.output
  OBVIOUS
<1>10. /\ w \in Wires /\ v \in Wires /\ y \in Wires /\ Len(w) \in Nat /\ Len(v) \in Nat /\ Len(y) \in Nat
       /\ Len(v) > Len(w) /\ Len(y) = Len(v) + 1 /\ Extends(v, y)
  <2>1. w \in Wires /\ v \in Wires /\ y \in Wires /\ Extends(v, y)
    BY <1>5, <1>6, <1>7, <1>8, <1>9 DEF IsRenderer, Grows
  <2> QED
    BY <1>5, <1>6, <1>7, <1>8, <1>9, <2>1, WireFacts
<1>11. Grows(r, x)
  BY <1>5, <1>6, <1>7, <1>8, <1>9, <1>10, GrowsOn
<1>12. AfterName(v, Len(w)) = Len(v)
  BY <1>5, <1>7, <1>8, <1>10, EndsWithAfter
<1>13. ASSUME NEW z \in Wires, Continues(y, z)
       PROVE  /\ Fine(Sofar(z, c, 0, n + 1), Len(y), R \cup {<<0, Folded(Relativized(name)), "ANY", <<>>>>})
              /\ NoOption(Sofar(z, c, 0, n + 1))
  <2>0. Len(z) \in Nat /\ Len(y) <= Len(z)
    BY <1>13, WireFacts DEF Continues
  <2>1. Continues(v, z)
    BY <1>10, <1>13, <2>0, ContinuesOn
  <2>2. Continues(w, z)
    <3>1. Extends(w, v)
      BY <1>5, <1>7, <1>8 DEF Grows
    <3> QED
      BY <1>10, <2>0, <2>1, <3>1, ContinuesOn
  <2>3. PICK at : at = Len(w)
    OBVIOUS
  <2>4. at \in 0 .. Len(v) /\ at \in 0 .. Len(z)
    BY <1>10, <2>0, <2>3
  <2>5. NameAt(v, at).ok /\ Folded(NameAt(v, at).labels) = Folded(D) /\ AfterName(v, at) = Len(v)
    BY <1>5, <1>7, <1>8, <1>12, <2>3
  <2>6. NameAt(z, at) = NameAt(v, at) /\ AfterName(z, at) = Len(v)
    <3>1. Keeps(v, z)
      BY <2>1, ContinuesKeeps
    <3> QED
      BY <1>10, <1>13, <2>4, <2>5, <3>1, ReadStays
  <2>7. PICK e : e = AfterName(z, at)
    OBVIOUS
  <2>8. e + 1 = Len(y) /\ e + 1 \in 1 .. Len(y) /\ y[e + 1] = q
    BY <1>6, <1>8, <1>9, <1>10, <2>6, <2>7
  <2>9. z[e + 1].kind = "question"
    <3>1. y[e + 1].kind # "header"
      BY <1>4, <2>8
    <3>2. z[e + 1] = y[e + 1]
      BY <1>13, <2>8, <3>1 DEF Continues
    <3> QED
      BY <1>4, <2>8, <3>2
  <2>10. PICK p : p = Sofar(z, c, 0, n)
    OBVIOUS
  <2>11. Fine(p, at, R) /\ NoOption(p)
    BY <1>7, <1>13, <2>2, <2>3, <2>10 DEF ReadsBack
  <2>12. PICK m : m = Sofar(z, c, 0, n + 1)
    OBVIOUS
  <2>13. m = ReadQuestion(z, p)
    BY <2>10, <2>12, SofarUnrolls DEF One
  <2>14. PICK folded : folded = Folded(Relativized(NameAt(z, at).labels))
    OBVIOUS
  <2>15. Fine(m, e + 1, R \cup {<<0, folded, "ANY", <<>>>>}) /\ m.opt = p.opt
    <3>1. NameAt(z, at).ok
      BY <2>5, <2>6
    <3> QED
      BY <1>13, <2>4, <2>7, <2>9, <2>11, <2>13, <2>14, <3>1, QuestionRead, ZenonT(60)
  <2>16. folded = Folded(Relativized(name))
    <3>1. PICK labels : labels = NameAt(z, at).labels
      OBVIOUS
    <3>2. labels \in Seq(Labels)
      BY <1>13, <2>4, <3>1, NameAtType DEF NameResults
    <3> QED
      BY <1>1, <2>5, <2>6, <2>14, <3>1, <3>2, ReadAsGiven
  <2>17. PICK k : k = e + 1
    OBVIOUS
  <2> QED
    BY <2>8, <2>11, <2>12, <2>15, <2>16 DEF NoOption
<1>14. ReadsBack(y, c, 0, n + 1, R \cup {<<0, Folded(Relativized(name)), "ANY", <<>>>>})
  BY <1>13, Zenon DEF ReadsBack
<1> QED
  BY <1>6, <1>9, <1>11, <1>14

LEMMA RecordReads ==
    ASSUME NEW r, IsRenderer(r), Compressed(r.output, r.compress),
           NEW c, NEW s \in 1 .. 3, NEW n \in Nat, NEW R, ReadsBack(r.output, c, s, n, R),
           NEW name \in NamesGiven, NEW type \in Types, type \notin {"OPT", "TSIG"}, NEW rd, Given(type, rd),
           NEW x, x = WriteRecord(r, name, type, rd)
    PROVE  /\ IsRenderer(x) /\ Compressed(x.output, x.compress) /\ Grows(r, x)
           /\ ReadsBack(x.output, c, s, n + 1, R \cup {RecordOf(s, name, type, rd)})
<1>1. CASE type = "NS"
  <2>1. rd \in NamesGiven
    BY <1>1 DEF Given
  <2> QED
    BY <1>1, <2>1, NameRecordReads
<1>2. CASE type # "NS"
  <2>1. rd \in Values /\ type \notin {"NS", "OPT", "TSIG"}
    BY <1>2 DEF Given
  <2> QED
    BY <2>1, DataRecordReads
<1> QED
  BY <1>1, <1>2

LEMMA GrowsItself ==
    ASSUME NEW r, IsRenderer(r), Compressed(r.output, r.compress)
    PROVE  Grows(r, r)
<1>1. Len(r.output) \in Nat
  <2>1. r.output \in Wires
    BY DEF IsRenderer
  <2> QED
    BY <2>1, WireFacts
<1>2. r.compress = [n \in DOMAIN r.compress |-> r.compress[n]]
  BY Zenon DEF Compressed
<1> QED
  BY <1>1, <1>2 DEF Grows, Extends

(* Written from q on, one record of rds after the other.                   *)
Series(q, name, type, rds, so) ==
    /\ Len(rds) \in Nat /\ so[0] = q
    /\ \A n \in 1 .. Len(rds) : so[n] = WriteRecord(so[n - 1], name, type, rds[n]) /\ Given(type, rds[n])
RecordsTo(s, name, type, rds, n) == {RecordOf(s, name, type, rds[i]) : i \in 1 .. n}
WrittenTo(q, c, s, k, R, x) ==
    IsRenderer(x) /\ Compressed(x.output, x.compress) /\ Grows(q, x) /\ ReadsBack(x.output, c, s, k, R)

LEMMA SeriesReads ==
    ASSUME NEW q, IsRenderer(q), Compressed(q.output, q.compress),
           NEW c, NEW s \in 1 .. 3, NEW k \in Nat, NEW R, ReadsBack(q.output, c, s, k, R),
           NEW name \in NamesGiven, NEW type \in Types, type \notin {"OPT", "TSIG"},
           NEW rds, NEW so, Series(q, name, type, rds, so)
    PROVE  WrittenTo(q, c, s, k + Len(rds), R \cup RecordsTo(s, name, type, rds, Len(rds)), so[Len(rds)])
<1>0. Len(rds) \in Nat /\ so[0] = q
  BY DEF Series
<1> DEFINE T == {n \in Nat : n <= Len(rds) /\ ~WrittenTo(q, c, s, k + n, R \cup RecordsTo(s, name, type, rds, n), so[n])}
<1>1. 0 \notin T
  <2>1. RecordsTo(s, name, type, rds, 0) = {}
    BY DEF RecordsTo
  <2>2. k + 0 = k /\ R \cup {} = R
    OBVIOUS
  <2>3. WrittenTo(q, c, s, k, R, q)
    BY GrowsItself DEF WrittenTo
  <2>4. WrittenTo(q, c, s, k + 0, R \cup RecordsTo(s, name, type, rds, 0), so[0])
    BY <1>0, <2>1, <2>2, <2>3
  <2> QED
    BY <2>4
<1>2. ASSUME NEW n \in Nat, n \notin T
      PROVE  n + 1 \notin T
  <2> SUFFICES ASSUME n + 1 <= Len(rds)
               PROVE  WrittenTo(q, c, s, k + (n + 1), R \cup RecordsTo(s, name, type, rds, n + 1), so[n + 1])
    OBVIOUS
  <2>1. n + 1 \in 1 .. Len(rds) /\ n + 1 - 1 = n /\ n <= Len(rds) /\ k + n \in Nat /\ k + (n + 1) = k + n + 1
    BY <1>0
  <2>2. WrittenTo(q, c, s, k + n, R \cup RecordsTo(s, name, type, rds, n), so[n])
    BY <1>2, <2>1
  <2> HIDE DEF T
  <2>3. PICK r : r = so[n]
    OBVIOUS
  <2>4. PICK x : x = so[n + 1]
    OBVIOUS
  <2>5. PICK rd : rd = rds[n + 1]
    OBVIOUS
  <2>6. PICK Q : Q = R \cup RecordsTo(s, name, type, rds, n)
    OBVIOUS
  <2>7. PICK j \in Nat : j = k + n
    BY <2>1
  <2>8. x = WriteRecord(r, name, type, rd) /\ Given(type, rd)
    BY <2>1, <2>3, <2>4, <2>5 DEF Series
  <2>9. IsRenderer(r) /\ Compressed(r.output, r.compress) /\ Grows(q, r) /\ ReadsBack(r.output, c, s, j, Q)
    BY <2>2, <2>3, <2>6, <2>7 DEF WrittenTo
  <2>10. /\ IsRenderer(x) /\ Compressed(x.output, x.compress) /\ Grows(r, x)
         /\ ReadsBack(x.output, c, s, j + 1, Q \cup {RecordOf(s, name, type, rd)})
    BY <2>8, <2>9, RecordReads
  <2>11. Grows(q, x)
    <3>1. q.output \in Wires /\ r.output \in Wires /\ x.output \in Wires
      BY <2>9, <2>10 DEF IsRenderer
    <3>2. Len(q.output) \in Nat /\ Len(r.output) \in Nat /\ Len(x.output) \in Nat
      BY <3>1, WireFacts
    <3> QED
      BY <2>9, <2>10, <3>2, GrowsOn
  <2>12. Q \cup {RecordOf(s, name, type, rd)} = R \cup RecordsTo(s, name, type, rds, n + 1)
    <3>1. \A i : i \in 1 .. n + 1 <=> i \in 1 .. n \/ i = n + 1
      OBVIOUS
    <3>2. RecordsTo(s, name, type, rds, n + 1) = RecordsTo(s, name, type, rds, n) \cup {RecordOf(s, name, type, rd)}
      BY <2>5, <3>1, Zenon DEF RecordsTo
    <3> QED
      BY <2>6, <3>2
  <2>13. WrittenTo(q, c, s, j + 1, R \cup RecordsTo(s, name, type, rds, n + 1), x)
    BY <2>10, <2>11, <2>12 DEF WrittenTo
  <2> QED
    BY <2>1, <2>4, <2>7, <2>13
<1>3. T \subseteq Nat
  OBVIOUS
<1>4. \A n \in Nat : n <= Len(rds) /\ n \notin T =>
        WrittenTo(q, c, s, k + n, R \cup RecordsTo(s, name, type, rds, n), so[n])
  OBVIOUS
<1> HIDE DEF T
<1>5. T = {}
  BY <1>1, <1>2, <1>3, NeverFails
<1>6. PICK n \in Nat : n = Len(rds) /\ n <= Len(rds)
  BY <1>0
<1>7. n \notin T
  BY <1>5
<1>8. WrittenTo(q, c, s, k + n, R \cup RecordsTo(s, name, type, rds, n), so[n])
  BY <1>4, <1>6, <1>7
<1> QED
  BY <1>6, <1>8

-----------------------------------------------------------------------------
(* What fits is kept and counted, what does not is rolled back.            *)
Sectioned(r, s) == [r EXCEPT !.section = s]

LEMMA SectionedIs ==
    ASSUME NEW r, IsRenderer(r), NEW s \in Sections, NEW q, q = Sectioned(r, s)
    PROVE  /\ IsRenderer(q) /\ q.output = r.output /\ q.compress = r.compress /\ q.section = s
           /\ q.counts = r.counts /\ q.max = r.max /\ q.fits = r.fits
<1>1. r = [output |-> r.output, compress |-> r.compress, section |-> r.section, counts |-> r.counts,
           max |-> r.max, fits |-> r.fits]
  BY DEF IsRenderer
<1>2. q = [output |-> r.output, compress |-> r.compress, section |-> s, counts |-> r.counts,
           max |-> r.max, fits |-> r.fits]
  BY ONLY <1>1, q = Sectioned(r, s) DEF Sectioned
<1>3. /\ q.output = r.output /\ q.compress = r.compress /\ q.section = s
      /\ q.counts = r.counts /\ q.max = r.max /\ q.fits = r.fits
  BY ONLY <1>2
<1>4. IsRenderer(q)
  BY <1>2, <1>3 DEF IsRenderer
<1> QED
  BY <1>3, <1>4

Tracking(r, s, q, last) ==
    /\ IsRenderer(r) /\ Compressed(r.output, r.compress) /\ s \in Sections /\ q = Sectioned(r, s)
    /\ IsRenderer(last) /\ Compressed(last.output, last.compress) /\ Grows(q, last)
IsKept(r, s, n, last, x) ==
    /\ IsRenderer(x) /\ Compressed(x.output, x.compress) /\ x.fits = TRUE
    /\ x.output = last.output /\ x.section = s /\ x.counts = Counted(r.counts, s, n)
IsUndone(r, s, x) ==
    /\ IsRenderer(x) /\ Compressed(x.output, x.compress) /\ x.fits = FALSE
    /\ x.output = r.output /\ x.section = s /\ x.counts = r.counts

LEMMA TrackedKeeps ==
    ASSUME NEW r, NEW s, NEW q, NEW last, Tracking(r, s, q, last), NEW n \in Nat,
           ~(Len(last.output) > r.max), NEW x, x = Tracked(r, last, s, n)
    PROVE  IsKept(r, s, n, last, x)
<1> /\ IsRenderer(r) /\ Compressed(r.output, r.compress) /\ s \in Sections /\ q = Sectioned(r, s)
    /\ IsRenderer(last) /\ Compressed(last.output, last.compress) /\ Grows(q, last)
  BY DEF Tracking
<1>1. last.section = s /\ last.counts = r.counts
  BY SectionedIs DEF Grows
<1>2. last = [output |-> last.output, compress |-> last.compress, section |-> last.section, counts |-> last.counts,
              max |-> last.max, fits |-> last.fits]
  BY DEF IsRenderer
<1>3. PICK c : c = Counted(r.counts, s, n)
  OBVIOUS
<1>4. c \in [Sections -> Nat]
  <2>1. r.counts \in [Sections -> Nat]
    BY DEF IsRenderer
  <2> QED
    BY <1>3, <2>1 DEF Counted
<1>5. x = [last EXCEPT !.fits = TRUE, !.counts[s] = @ + n]
  BY Zenon DEF Tracked
<1>6. x = [output |-> last.output, compress |-> last.compress, section |-> last.section, counts |-> c,
           max |-> last.max, fits |-> TRUE]
  <2>1. PICK p : p = [last EXCEPT !.fits = TRUE]
    OBVIOUS
  <2>2. p = [output |-> last.output, compress |-> last.compress, section |-> last.section, counts |-> last.counts,
             max |-> last.max, fits |-> TRUE]
    BY ONLY <1>2, <2>1
  <2>3. x = [p EXCEPT !.counts = [last.counts EXCEPT ![s] = @ + n]]
    BY ONLY <1>5, <1>2, <2>1, <2>2
  <2>4. x = [p EXCEPT !.counts = c]
    BY <1>1, <1>3, <2>3 DEF Counted
  <2> QED
    BY ONLY <2>2, <2>4
<1>7. /\ x.output = last.output /\ x.compress = last.compress /\ x.section = last.section /\ x.counts = c
      /\ x.max = last.max /\ x.fits = TRUE
  BY ONLY <1>6
<1>8. IsRenderer(x)
  BY <1>4, <1>6, <1>7 DEF IsRenderer
<1> QED
  BY <1>1, <1>3, <1>7, <1>8 DEF IsKept

LEMMA TrackedUndoes ==
    ASSUME NEW r, NEW s, NEW q, NEW last, Tracking(r, s, q, last), NEW n,
           Len(last.output) > r.max, NEW x, x = Tracked(r, last, s, n)
    PROVE  IsUndone(r, s, x)
<1> /\ IsRenderer(r) /\ Compressed(r.output, r.compress) /\ s \in Sections /\ q = Sectioned(r, s)
    /\ IsRenderer(last) /\ Compressed(last.output, last.compress) /\ Grows(q, last)
  BY DEF Tracking
<1>1. last.section = s /\ last.counts = r.counts /\ q.output = r.output /\ q.compress = r.compress
  BY SectionedIs DEF Grows
<1>2. last = [output |-> last.output, compress |-> last.compress, section |-> last.section, counts |-> last.counts,
              max |-> last.max, fits |-> last.fits]
  BY DEF IsRenderer
<1>3. Rollback(last, Len(r.output)) = Grown(last, r.output, r.compress)
  <2>1. /\ Extends(r.output, last.output) /\ DOMAIN r.compress \subseteq DOMAIN last.compress
        /\ \A m \in DOMAIN r.compress : last.compress[m] = r.compress[m]
        /\ \A m \in DOMAIN last.compress \ DOMAIN r.compress :
             last.compress[m] \in Nat /\ last.compress[m] >= Len(r.output)
    BY <1>1 DEF Grows
  <2> QED
    BY <2>1, RolledBack
<1>4. x = [Grown(last, r.output, r.compress) EXCEPT !.fits = FALSE]
  BY <1>3, Zenon DEF Tracked
<1>5. x = [output |-> r.output, compress |-> r.compress, section |-> last.section, counts |-> last.counts,
           max |-> last.max, fits |-> FALSE]
  BY ONLY <1>2, <1>4 DEF Grown
<1>6. /\ x.output = r.output /\ x.compress = r.compress /\ x.section = last.section /\ x.counts = last.counts
      /\ x.max = last.max /\ x.fits = FALSE
  BY ONLY <1>5
<1>7. IsRenderer(x)
  BY <1>5, <1>6 DEF IsRenderer
<1> QED
  BY <1>1, <1>6, <1>7 DEF IsUndone

-----------------------------------------------------------------------------
(* While records are added: all that was added reads back.                 *)
Sound(r, R) ==
    /\ IsRenderer(r) /\ Compressed(r.output, r.compress)
    /\ NoneAfter(r.counts, r.section) /\ Readable(r.output, r.counts, R)

LEMMA ReadableSofar ==
    ASSUME NEW w, NEW c \in [Sections -> Nat], NEW s \in Sections, NoneAfter(c, s), NEW R
    PROVE  Readable(w, c, R) <=> ReadsBack(w, c, s, c[s], R)
<1>1. \A x : Message(x, c) = Sofar(x, c, s, c[s])
  BY MessageSofar
<1> QED
  BY <1>1, Zenon DEF Readable, ReadsBack

LEMMA KeptReadable ==
    ASSUME NEW c \in [Sections -> Nat], NEW s \in Sections, NoneAfter(c, s), NEW n \in Nat, NEW d, d = Counted(c, s, n),
           NEW w, NEW R, ReadsBack(w, c, s, c[s] + n, R)
    PROVE  d \in [Sections -> Nat] /\ NoneAfter(d, s) /\ Readable(w, d, R)
<1>1. \A x : d \in [Sections -> Nat] /\ NoneAfter(d, s) /\ Message(x, d) = Sofar(x, c, s, c[s] + n)
  BY CountedMessage
<1> QED
  BY <1>1, Zenon DEF Readable, ReadsBack

KeptOrNot(x, R, Q) == (x.fits = TRUE /\ Sound(x, Q)) \/ (x.fits = FALSE /\ Sound(x, R))

LEMMA SoundTracked ==
    ASSUME NEW r, NEW R, Sound(r, R), NEW s \in Sections, s >= r.section, NEW q, NEW last, Tracking(r, s, q, last),
           NEW n \in Nat, NEW Q, ReadsBack(last.output, r.counts, s, r.counts[s] + n, Q), NEW x, x = Tracked(r, last, s, n)
    PROVE  KeptOrNot(x, R, Q)
<1>1. /\ IsRenderer(r) /\ Compressed(r.output, r.compress)
      /\ NoneAfter(r.counts, r.section) /\ Readable(r.output, r.counts, R)
  BY DEF Sound
<1>2. r.counts \in [Sections -> Nat] /\ r.section \in Sections
  BY <1>1 DEF IsRenderer
<1>3. NoneAfter(r.counts, s)
  BY <1>1, <1>2 DEF NoneAfter, Sections
<1>4. CASE Len(last.output) > r.max
  <2>1. IsUndone(r, s, x)
    BY <1>4, TrackedUndoes
  <2> QED
    BY <1>1, <1>3, <2>1 DEF IsUndone, Sound, KeptOrNot
<1>5. CASE ~(Len(last.output) > r.max)
  <2>1. IsKept(r, s, n, last, x)
    BY <1>5, TrackedKeeps
  <2>2. PICK d : d = Counted(r.counts, s, n)
    OBVIOUS
  <2>3. d \in [Sections -> Nat] /\ NoneAfter(d, s) /\ Readable(last.output, d, Q)
    BY <1>2, <1>3, <2>2, KeptReadable
  <2> QED
    BY <2>1, <2>2, <2>3 DEF IsKept, Sound, KeptOrNot
<1> QED
  BY <1>4, <1>5

LEMMA QuestionSound ==
    ASSUME NEW r, NEW R, Sound(r, R), r.section = 0, NEW name \in Questions, NEW x, x = AddQuestion(r, name),
           NEW Q, Q = R \cup {<<0, Folded(Relativized(name)), "ANY", <<>>>>}
    PROVE  KeptOrNot(x, R, Q)
<1>1. /\ IsRenderer(r) /\ Compressed(r.output, r.compress)
      /\ NoneAfter(r.counts, 0) /\ Readable(r.output, r.counts, R)
  BY DEF Sound
<1>2. r.counts \in [Sections -> Nat] /\ 0 \in Sections /\ r.counts[0] \in Nat
  BY <1>1 DEF IsRenderer, Sections
<1>3. ReadsBack(r.output, r.counts, 0, r.counts[0], R)
  BY <1>1, <1>2, ReadableSofar
<1>4. PICK last : last = Write(WriteName(r, name), [kind |-> "question"])
  OBVIOUS
<1>5. /\ IsRenderer(last) /\ Compressed(last.output, last.compress) /\ Grows(r, last)
      /\ ReadsBack(last.output, r.counts, 0, r.counts[0] + 1, Q)
  <2>1. name \in NamesGiven
    BY Zenon DEF NamesGiven
  <2> QED
    BY <1>1, <1>2, <1>3, <1>4, <2>1, QuestionReads
<1>6. Tracking(r, 0, r, last)
  <2>1. r = Sectioned(r, 0)
    <3>1. r = [output |-> r.output, compress |-> r.compress, section |-> r.section, counts |-> r.counts,
               max |-> r.max, fits |-> r.fits]
      BY <1>1 DEF IsRenderer
    <3> QED
      BY ONLY <3>1, r.section = 0 DEF Sectioned
  <2> QED
    BY <1>1, <1>2, <1>5, <2>1 DEF Tracking
<1>7. x = Tracked(r, last, 0, 1)
  BY <1>4, Zenon DEF AddQuestion
<1>8. r.section \in Nat /\ 0 >= r.section /\ 1 \in Nat
  OBVIOUS
<1> QED
  BY <1>2, <1>5, <1>6, <1>7, <1>8, SoundTracked

RRsetRecords(rrset) ==
    {<<rrset.section, Folded(Relativized(rrset.name)), rrset.type,
       IF rrset.type = "NS" THEN Folded(Relativized(rd)) ELSE rd>> : rd \in Range(rrset.rdatas)}

LEMMA RRsetGiven ==
    ASSUME NEW rrset \in RRsets
    PROVE  /\ rrset.section \in 1 .. 3 /\ rrset.name \in NamesGiven /\ rrset.type \in Types
           /\ rrset.type \notin {"OPT", "TSIG"} /\ Len(rrset.rdatas) \in Nat
           /\ DOMAIN rrset.rdatas = 1 .. Len(rrset.rdatas)
           /\ \A i \in 1 .. Len(rrset.rdatas) : Given(rrset.type, rrset.rdatas[i])
<1>1. rrset.section \in 1 .. 3 /\ rrset.type \notin {"OPT", "TSIG"} /\ rrset.rdatas \in Seq(Range(rrset.rdatas))
  BY WireAssumption, Zenon
<1>2. PICK S : S = Range(rrset.rdatas)
  OBVIOUS
<1>3. /\ Len(rrset.rdatas) \in Nat /\ DOMAIN rrset.rdatas = 1 .. Len(rrset.rdatas)
      /\ \A i \in 1 .. Len(rrset.rdatas) : rrset.rdatas[i] \in S
  <2>1. rrset.rdatas \in Seq(S)
    BY <1>1, <1>2
  <2> QED
    BY <2>1, LenProperties
<1>4. rrset.name \in NamesGiven /\ rrset.type \in Types
  BY Zenon DEF NamesGiven, Types
<1>5. ASSUME NEW i \in 1 .. Len(rrset.rdatas)
      PROVE  Given(rrset.type, rrset.rdatas[i])
  <2>1. rrset.rdatas[i] \in Range(rrset.rdatas)
    BY <1>2, <1>3
  <2>2. rrset.rdatas[i] \in Values
    BY <2>1, Zenon DEF Values
  <2>3. rrset.type = "NS" => rrset.rdatas[i] \in NamesGiven
    BY <2>1, Zenon DEF NamesGiven
  <2> QED
    BY <2>2, <2>3 DEF Given
<1> QED
  BY <1>1, <1>3, <1>4, <1>5

LEMMA RRsetRecordsAre ==
    ASSUME NEW rrset \in RRsets
    PROVE  RecordsTo(rrset.section, rrset.name, rrset.type, rrset.rdatas, Len(rrset.rdatas)) = RRsetRecords(rrset)
<1>1. DOMAIN rrset.rdatas = 1 .. Len(rrset.rdatas)
  BY RRsetGiven
<1>2. Range(rrset.rdatas) = {rrset.rdatas[i] : i \in 1 .. Len(rrset.rdatas)}
  BY <1>1 DEF Range
<1>3. RRsetRecords(rrset) = {RecordOf(rrset.section, rrset.name, rrset.type, rd) : rd \in Range(rrset.rdatas)}
  BY Zenon DEF RRsetRecords, RecordOf, DataOf
<1>4. PICK N : N = 1 .. Len(rrset.rdatas)
  OBVIOUS
<1>5. PICK V : V = Range(rrset.rdatas)
  OBVIOUS
<1>6. V = {rrset.rdatas[i] : i \in N}
  BY <1>2, <1>4, <1>5
<1>7. RecordsTo(rrset.section, rrset.name, rrset.type, rrset.rdatas, Len(rrset.rdatas))
        = {RecordOf(rrset.section, rrset.name, rrset.type, rrset.rdatas[i]) : i \in N}
  BY <1>4, Zenon DEF RecordsTo
<1>8. RRsetRecords(rrset) = {RecordOf(rrset.section, rrset.name, rrset.type, rd) : rd \in V}
  BY <1>3, <1>5
<1> QED
  BY ONLY <1>6, <1>7, <1>8

LEMMA RRsetSound ==
    ASSUME NEW r, NEW R, Sound(r, R), NEW rrset \in RRsets, rrset.section >= r.section,
           NEW x, x = AddRRset(r, rrset.section, rrset.name, rrset.type, rrset.rdatas),
           NEW Q, Q = R \cup RRsetRecords(rrset)
    PROVE  KeptOrNot(x, R, Q)
<1>1. /\ IsRenderer(r) /\ Compressed(r.output, r.compress)
      /\ NoneAfter(r.counts, r.section) /\ Readable(r.output, r.counts, R)
  BY DEF Sound
<1>2. PICK s : s = rrset.section
  OBVIOUS
<1>3. PICK name : name = rrset.name
  OBVIOUS
<1>4. PICK type : type = rrset.type
  OBVIOUS
<1>5. PICK rds : rds = rrset.rdatas
  OBVIOUS
<1>6. /\ s \in 1 .. 3 /\ s \in Sections /\ name \in NamesGiven /\ type \in Types /\ type \notin {"OPT", "TSIG"}
      /\ Len(rds) \in Nat /\ \A i \in 1 .. Len(rds) : Given(type, rds[i])
  BY <1>2, <1>3, <1>4, <1>5, RRsetGiven DEF Sections
<1>7. r.counts \in [Sections -> Nat] /\ r.counts[s] \in Nat /\ NoneAfter(r.counts, s)
  BY <1>1, <1>2, <1>6 DEF IsRenderer, Sections, NoneAfter
<1>8. ReadsBack(r.output, r.counts, s, r.counts[s], R)
  BY <1>1, <1>6, <1>7, ReadableSofar
<1>9. PICK q : q = Sectioned(r, s)
  OBVIOUS
<1>10. IsRenderer(q) /\ q.output = r.output /\ q.compress = r.compress
  BY <1>1, <1>6, <1>9, SectionedIs
<1>11. PICK so : /\ so[0] = q /\ \A n \in 1 .. Len(rds) : so[n] = WriteRecord(so[n - 1], name, type, rds[n])
                 /\ AddRRset(r, s, name, type, rds) = Tracked(r, so[Len(rds)], s, Len(rds))
  <2>1. RRsetAdded(r, s, name, type, rds)
    BY <1>6, AddRRsetIs
  <2> QED
    BY <1>9, <2>1, Zenon DEF Sectioned, RRsetAdded
<1>12. Series(q, name, type, rds, so)
  BY <1>6, <1>11 DEF Series
<1>13. PICK last : last = so[Len(rds)]
  OBVIOUS
<1>14. PICK n \in Nat : n = Len(rds)
  BY <1>6
<1>15. PICK k \in Nat : k = r.counts[s]
  BY <1>7
<1>16. WrittenTo(q, r.counts, s, k + n, Q, last)
  <2>1. ReadsBack(q.output, r.counts, s, k, R) /\ Compressed(q.output, q.compress)
    BY <1>1, <1>8, <1>10, <1>15
  <2>2. WrittenTo(q, r.counts, s, k + Len(rds), R \cup RecordsTo(s, name, type, rds, Len(rds)), so[Len(rds)])
    BY <1>6, <1>10, <1>12, <2>1, SeriesReads
  <2>3. RecordsTo(s, name, type, rds, Len(rds)) = RRsetRecords(rrset)
    BY <1>2, <1>3, <1>4, <1>5, RRsetRecordsAre
  <2> QED
    BY <1>13, <1>14, <2>2, <2>3
<1>17. Tracking(r, s, q, last) /\ ReadsBack(last.output, r.counts, s, r.counts[s] + n, Q)
  BY <1>1, <1>6, <1>9, <1>15, <1>16 DEF WrittenTo, Tracking
<1>18. x = Tracked(r, last, s, n) /\ s >= r.section
  BY <1>2, <1>3, <1>4, <1>5, <1>11, <1>13, <1>14
<1> QED
  BY <1>6, <1>17, <1>18, SoundTracked

-----------------------------------------------------------------------------
(* The last part: the OPT and the signature, which nothing follows.        *)
Finished(w, c, R) == \A x \in Wires : Continues(w, x) => Fine(Message(x, c), Len(w), R)

AllRecords(sections) == UNION {RecordsIn(s, sections[s]) : s \in Sections}
AllOneEach(sections) == \A s \in Sections \ {0} : OneEach(sections[s])

LEMMA FineRestores ==
    ASSUME NEW w, NEW c, c = w[1].counts, NEW R, Fine(Message(w, c), Len(w), R)
    PROVE  Restored(ReadMessage(w), R)
<1>1. PICK m : m = Message(w, c)
  OBVIOUS
<1>2. IsMessage(m) /\ Indexed(m) /\ m.ok = TRUE /\ m.at = Len(w) /\ \A q : InMessage(m, q) <=> q \in R
  BY <1>1 DEF Fine
<1>3. PICK message : message = ReadMessage(w)
  OBVIOUS
<1>4. message = [m EXCEPT !.ok = m.ok /\ m.at = Len(w)]
  BY <1>1, <1>3, ReadMessageIs
<1>5. message.ok = TRUE /\ message.sections = m.sections
  <2>1. (m.ok /\ m.at = Len(w)) = TRUE
    BY <1>2
  <2>2. message = [m EXCEPT !.ok = TRUE]
    BY <1>4, <2>1
  <2>3. m = [ok |-> m.ok, at |-> m.at, sections |-> m.sections, index |-> m.index, opt |-> m.opt]
    BY <1>2 DEF IsMessage
  <2> QED
    BY ONLY <2>2, <2>3
<1>6. \A s \in Sections : /\ DOMAIN m.sections[s] = 1 .. Len(m.sections[s])
                          /\ Range(m.sections[s]) = {m.sections[s][i] : i \in 1 .. Len(m.sections[s])}
  <2> TAKE s \in Sections
  <2>1. PICK q : q = m.sections[s]
    OBVIOUS
  <2>2. q \in Seq(RRsetsRead)
    BY <1>2, <2>1 DEF IsMessage
  <2>3. DOMAIN q = 1 .. Len(q)
    BY <2>2, LenProperties
  <2>4. Range(q) = {q[i] : i \in 1 .. Len(q)}
    BY <2>3 DEF Range
  <2> QED
    BY <2>1, <2>3, <2>4
<1>7. AllRecords(m.sections) = R
  <2>1. ASSUME NEW q, InMessage(m, q)
        PROVE  q \in AllRecords(m.sections)
    <3>1. PICK s \in Sections : \E i \in 1 .. Len(m.sections[s]) : q \in Held(s, m.sections[s][i])
      BY <2>1 DEF InMessage
    <3>2. PICK i \in 1 .. Len(m.sections[s]) : q \in Held(s, m.sections[s][i])
      BY <3>1
    <3>3. m.sections[s][i] \in Range(m.sections[s])
      BY <1>6
    <3>4. q \in RecordsIn(s, m.sections[s])
      BY <3>2, <3>3, Zenon DEF RecordsIn
    <3> QED
      BY <3>4, Zenon DEF AllRecords
  <2>2. ASSUME NEW q \in AllRecords(m.sections)
        PROVE  InMessage(m, q)
    <3>1. PICK s \in Sections : q \in RecordsIn(s, m.sections[s])
      BY Zenon DEF AllRecords
    <3>2. PICK rrset \in Range(m.sections[s]) : q \in Held(s, rrset)
      BY <3>1, Zenon DEF RecordsIn
    <3>3. PICK i \in 1 .. Len(m.sections[s]) : rrset = m.sections[s][i]
      BY <1>6
    <3> QED
      BY <3>2, <3>3 DEF InMessage
  <2> QED
    BY <1>2, <2>1, <2>2
<1>8. AllOneEach(m.sections)
  <2> SUFFICES ASSUME NEW s \in Sections \ {0}, NEW i \in DOMAIN m.sections[s], NEW j \in DOMAIN m.sections[s],
                      m.sections[s][i].type = m.sections[s][j].type,
                      Folded(m.sections[s][i].name) = Folded(m.sections[s][j].name)
               PROVE  i = j
    BY Zenon DEF AllOneEach, OneEach
  <2>1. s \in 1 .. 3 /\ s \in Sections
    BY DEF Sections
  <2>2. i \in 1 .. Len(m.sections[s]) /\ j \in 1 .. Len(m.sections[s])
    BY <1>6, <2>1, Zenon
  <2>3. Key(s, m.sections[s][i]) = Key(s, m.sections[s][j])
    BY DEF Key
  <2>4. m.index[Key(s, m.sections[s][i])] = i /\ m.index[Key(s, m.sections[s][j])] = j
    BY <1>2, <2>1, <2>2, Zenon DEF Indexed, IndexOf
  <2> QED
    BY <2>3, <2>4
<1> QED
  BY <1>3, <1>5, <1>7, <1>8 DEF Restored, AllRecords, AllOneEach

(* The header is written again, with the counts.                           *)
LEMMA HeaderWritten ==
    ASSUME NEW r, IsRenderer(r), Compressed(r.output, r.compress), NEW x, x = WriteHeader(r)
    PROVE  /\ IsRenderer(x) /\ Compressed(x.output, x.compress) /\ Continues(r.output, x.output)
           /\ Len(x.output) = Len(r.output) /\ x.counts = r.counts /\ x.section = r.section /\ x.fits = r.fits
           /\ x.output[1].counts = r.counts /\ x.max = r.max
           /\ \A y \in Wires : Continues(x.output, y) => Continues(r.output, y)
<1>1. /\ r = [output |-> r.output, compress |-> r.compress, section |-> r.section, counts |-> r.counts,
              max |-> r.max, fits |-> r.fits]
      /\ r.output \in Wires /\ Len(r.output) >= 1 /\ r.output[1].kind = "header"
      /\ r.section \in Sections /\ r.counts \in [Sections -> Nat] /\ r.fits \in BOOLEAN
  BY DEF IsRenderer
<1>2. PICK h : h = [kind |-> "header", counts |-> r.counts]
  OBVIOUS
<1>3. h \in Cells /\ h.kind = "header" /\ h.counts = r.counts
  BY <1>1, <1>2, CellsMade
<1>4. PICK w : w = r.output
  OBVIOUS
<1>5. PICK o : o = [w EXCEPT ![1] = h]
  OBVIOUS
<1>6. w \in Wires /\ Len(w) \in Nat /\ 1 \in 1 .. Len(w)
  BY <1>1, <1>4, WireFacts
<1>7. /\ o \in Wires /\ Len(o) = Len(w) /\ o[1] = h
      /\ \A i \in 1 .. Len(w) : i # 1 => o[i] = w[i]
  <2>1. w \in Seq(Cells)
    BY <1>6 DEF Wires
  <2>2. o \in Seq(Cells) /\ Len(o) = Len(w) /\ o[1] = h /\ \A i \in 1 .. Len(w) : i # 1 => o[i] = w[i]
    BY <1>3, <1>5, <1>6, <2>1
  <2> QED
    BY <2>2 DEF Wires
<1>8. x = [output |-> o, compress |-> r.compress, section |-> r.section, counts |-> r.counts,
           max |-> r.max, fits |-> r.fits]
  <2>1. x = [r EXCEPT !.output[1] = [kind |-> "header", counts |-> r.counts]]
    BY Zenon DEF WriteHeader
  <2>2. x = [r EXCEPT !.output[1] = h]
    BY <1>2, <2>1
  <2>3. x = [r EXCEPT !.output = o]
    BY <1>4, <1>5, <2>2
  <2> QED
    BY ONLY <1>1, <2>3
<1>9. /\ x.output = o /\ x.compress = r.compress /\ x.section = r.section /\ x.counts = r.counts
      /\ x.max = r.max /\ x.fits = r.fits
  BY ONLY <1>8
<1>10. IsRenderer(x)
  <2>1. Len(o) >= 1 /\ o[1].kind = "header"
    BY <1>1, <1>3, <1>4, <1>7
  <2> QED
    BY <1>1, <1>7, <1>8, <1>9, <2>1 DEF IsRenderer
<1>11. Continues(w, o)
  BY <1>1, <1>4, <1>6, <1>7 DEF Continues
<1>12. Compressed(o, r.compress)
  <2>1. Keeps(w, o)
    BY <1>11, ContinuesKeeps
  <2> QED
    BY <1>4, <1>6, <1>7, <2>1, StaysCompressed
<1>13. ASSUME NEW y \in Wires, Continues(o, y)
       PROVE  Continues(w, y)
  <2>1. Len(o) <= Len(y) /\ \A i \in 1 .. Len(o) : o[i].kind # "header" => y[i] = o[i]
    BY <1>13 DEF Continues
  <2>2. ASSUME NEW i \in 1 .. Len(w), w[i].kind # "header"
        PROVE  y[i] = w[i]
    <3>1. i # 1
      BY <1>1, <1>4, <2>2
    <3>2. o[i] = w[i]
      BY <1>7, <3>1
    <3> QED
      BY <1>7, <2>1, <2>2, <3>2
  <2> QED
    BY <1>7, <2>1, <2>2 DEF Continues
<1>14. x.output[1].counts = r.counts
  BY <1>3, <1>7, <1>9
<1> QED
  BY <1>4, <1>7, <1>9, <1>10, <1>11, <1>12, <1>13, <1>14

Finishing(r, R) == IsRenderer(r) /\ Compressed(r.output, r.compress) /\ Finished(r.output, r.counts, R)

LEMMA OneRecord ==
    ASSUME NEW r, NEW s, NEW name, NEW type, NEW rd, NEW q, q = Sectioned(r, s), NEW last, last = WriteRecord(q, name, type, rd)
    PROVE  AddRRset(r, s, name, type, <<rd>>) = Tracked(r, last, s, 1)
<1>1. PICK rds : rds = <<rd>>
  OBVIOUS
<1>2. Len(rds) = 1 /\ rds[1] = rd /\ Len(rds) \in Nat
  BY <1>1
<1>3. RRsetAdded(r, s, name, type, rds)
  BY <1>2, AddRRsetIs
<1>4. PICK so : /\ so[0] = q /\ \A n \in 1 .. Len(rds) : so[n] = WriteRecord(so[n - 1], name, type, rds[n])
                /\ AddRRset(r, s, name, type, rds) = Tracked(r, so[Len(rds)], s, Len(rds))
  BY <1>3, Zenon DEF RRsetAdded, Sectioned
<1>5. 1 \in 1 .. Len(rds) /\ 1 - 1 = 0
  BY <1>2
<1>6. so[1] = WriteRecord(so[1 - 1], name, type, rds[1])
  BY <1>4, <1>5
<1>7. so[1] = last
  BY <1>2, <1>4, <1>5, <1>6
<1> QED
  BY <1>1, <1>2, <1>4, <1>7

Padding(size, pad) == IF pad = 0 THEN 0 ELSE 1 + (IF size % pad = 0 THEN 0 ELSE pad - (size % pad))

LEMMA PaddingNat ==
    ASSUME NEW size \in Nat, NEW pad \in Nat
    PROVE  Padding(size, pad) \in Nat
<1>1. CASE pad = 0
  BY <1>1 DEF Padding
<1>2. CASE pad # 0
  <2>1. PICK m \in Nat : m = size % pad /\ m < pad
    BY <1>2
  <2> QED
    BY <1>2, <2>1 DEF Padding
<1> QED
  BY <1>1, <1>2

LEMMA ProfileFacts ==
    ASSUME NEW p \in Profiles
    PROVE  /\ p.edns \in BOOLEAN /\ p.options \in Nat /\ p.pad \in Nat /\ p.key \in NamesGiven
           /\ OptReserve(p) \in Nat /\ TsigReserve(p) \in Nat
<1>1. p.edns \in BOOLEAN /\ p.options \in Nat /\ p.pad \in Nat
  BY WireAssumption, Zenon
<1>2. p.key \in NamesGiven
  BY Zenon DEF NamesGiven
<1>3. Len(p.key) \in Nat
  BY <1>2, GivenFacts
<1>4. OptReserve(p) \in Nat
  BY <1>1 DEF OptReserve
<1>5. TsigReserve(p) \in Nat
  BY <1>3 DEF TsigReserve
<1> QED
  BY <1>1, <1>2, <1>4, <1>5

LEMMA FreshSound ==
    ASSUME NEW p, NEW r, r = NewRenderer(p)
    PROVE  Sound(r, {})
<1>1. PICK c : c = [s \in Sections |-> 0]
  OBVIOUS
<1>2. c \in [Sections -> Nat] /\ NoneAfter(c, 0) /\ \A s \in Sections : c[s] = 0
  BY <1>1 DEF NoneAfter
<1>3. PICK h : h = [kind |-> "header", counts |-> c]
  OBVIOUS
<1>4. h \in Cells /\ h.kind = "header"
  BY <1>2, <1>3, CellsMade
<1>5. PICK w : w = <<h>>
  OBVIOUS
<1>6. w \in Wires /\ Len(w) = 1 /\ w[1] = h
  <2>1. \A x \in Cells : <<x>> \in Seq(Cells) /\ Len(<<x>>) = 1 /\ <<x>>[1] = x
    OBVIOUS
  <2> QED
    BY <1>4, <1>5, <2>1, Zenon DEF Wires
<1>7. PICK k : k = [name \in {} |-> 0]
  OBVIOUS
<1>8. PICK max : max = MaxSize - OptReserve(p) - TsigReserve(p)
  OBVIOUS
<1>9. r = [output |-> w, compress |-> k, section |-> 0, counts |-> c, max |-> max, fits |-> TRUE]
  BY <1>1, <1>3, <1>5, <1>7, <1>8, Zenon DEF NewRenderer
<1>10. r.output = w /\ r.compress = k /\ r.section = 0 /\ r.counts = c /\ r.max = max /\ r.fits = TRUE
  BY ONLY <1>9
<1>11. IsRenderer(r)
  <2>1. Len(w) >= 1 /\ w[1].kind = "header" /\ 0 \in Sections /\ TRUE \in BOOLEAN
    BY <1>4, <1>6 DEF Sections
  <2> QED
    BY <1>2, <1>6, <1>9, <1>10, <2>1 DEF IsRenderer
<1>12. Compressed(w, k)
  BY <1>7 DEF Compressed
<1>13. Fine(Unread, 1, {}) /\ NoOption(Unread)
  <2>1. PICK f : f = [s \in Sections |-> <<>>]
    OBVIOUS
  <2>2. PICK index : index = [key \in {} |-> 0]
    OBVIOUS
  <2>3. PICK o : o = -1
    OBVIOUS
  <2>4. PICK m : m = [ok |-> TRUE, at |-> 1, sections |-> f, index |-> index, opt |-> o]
    OBVIOUS
  <2>5. Unread = m
    BY <2>1, <2>2, <2>3, <2>4, Zenon DEF Unread
  <2>6. m.ok = TRUE /\ m.at = 1 /\ m.sections = f /\ m.index = index /\ m.opt = o
    BY ONLY <2>4
  <2>7. \A s \in Sections : f[s] = <<>> /\ Len(f[s]) = 0
    BY <2>1, EmptySeq
  <2>8. f \in [Sections -> Seq(RRsetsRead)]
    <3>1. <<>> \in Seq(RRsetsRead)
      BY EmptySeq
    <3> QED
      BY <2>1, <3>1
  <2>9. IsMessage(m)
    BY <2>4, <2>6, <2>8 DEF IsMessage
  <2>10. \A s \in Sections : \A i \in 1 .. Len(f[s]) : FALSE
    BY <2>7
  <2>11. Indexed(m)
    <3>1. \A s \in 1 .. 3 : s \in Sections
      BY DEF Sections
    <3>2. index = [key \in DOMAIN index |-> index[key]] /\ DOMAIN index = {}
      BY <2>2
    <3> QED
      BY <2>6, <2>10, <3>1, <3>2 DEF Indexed, IndexOf
  <2>12. \A q : ~InMessage(m, q)
    BY <2>6, <2>10, Zenon DEF InMessage
  <2>13. Fine(m, 1, {})
    BY <2>6, <2>9, <2>11, <2>12 DEF Fine
  <2>14. NoOption(m)
    BY <2>3, <2>6, Zenon DEF NoOption
  <2> QED
    BY <2>5, <2>13, <2>14
<1>14. Readable(w, c, {})
  <2>1. \A x : Message(x, c) = Unread
    <3> TAKE x
    <3>1. 0 \in Sections /\ c[0] = 0
      BY <1>2 DEF Sections
    <3>2. Message(x, c) = Sofar(x, c, 0, 0)
      BY <1>2, <3>1, MessageSofar
    <3> QED
      BY <3>2, NoneRead DEF Sofar, Earlier
  <2> QED
    BY <1>6, <1>13, <2>1 DEF Readable
<1> QED
  BY <1>2, <1>10, <1>11, <1>12, <1>14 DEF Sound

LEMMA ReleasedSound ==
    ASSUME NEW r, NEW R, Sound(r, R), NEW x, x = [r EXCEPT !.max = MaxSize, !.fits = TRUE]
    PROVE  Sound(x, R) /\ x.fits = TRUE
<1>1. /\ IsRenderer(r) /\ Compressed(r.output, r.compress)
      /\ NoneAfter(r.counts, r.section) /\ Readable(r.output, r.counts, R)
  BY DEF Sound
<1>2. r = [output |-> r.output, compress |-> r.compress, section |-> r.section, counts |-> r.counts,
           max |-> r.max, fits |-> r.fits]
  BY <1>1 DEF IsRenderer
<1>3. PICK max : max = MaxSize
  OBVIOUS
<1>4. x = [output |-> r.output, compress |-> r.compress, section |-> r.section, counts |-> r.counts,
           max |-> max, fits |-> TRUE]
  BY ONLY <1>2, <1>3, x = [r EXCEPT !.max = MaxSize, !.fits = TRUE]
<1>5. /\ x.output = r.output /\ x.compress = r.compress /\ x.section = r.section /\ x.counts = r.counts
      /\ x.max = max /\ x.fits = TRUE
  BY ONLY <1>4
<1>6. IsRenderer(x)
  BY <1>1, <1>4, <1>5 DEF IsRenderer
<1> QED
  BY <1>1, <1>5, <1>6 DEF Sound

LEMMA SoundFinishing ==
    ASSUME NEW r, NEW R, Sound(r, R)
    PROVE  Finishing(r, R)
BY DEF Sound, Finishing, Readable, Finished

LEMMA OptionFinished ==
    ASSUME NEW r, NEW R, Sound(r, R), NEW n \in Nat,
           NEW x, x = AddRRset(r, 3, Root, "OPT", <<n>>), x.fits
    PROVE  Finishing(x, R)
<1>1. /\ IsRenderer(r) /\ Compressed(r.output, r.compress)
      /\ NoneAfter(r.counts, r.section) /\ Readable(r.output, r.counts, R)
  BY DEF Sound
<1>s. PICK s : s = 3
  OBVIOUS
<1>2. r.counts \in [Sections -> Nat] /\ s \in Sections /\ NoneAfter(r.counts, s) /\ r.counts[s] \in Nat
  <2>1. r.counts \in [Sections -> Nat]
    BY <1>1 DEF IsRenderer
  <2>2. s \in Sections /\ \A t \in Sections : ~(t > s)
    BY <1>s DEF Sections
  <2> QED
    BY <2>1, <2>2, Zenon DEF NoneAfter
<1>3. PICK q : q = Sectioned(r, s)
  OBVIOUS
<1>4. IsRenderer(q) /\ q.output = r.output /\ q.compress = r.compress
  BY <1>1, <1>2, <1>3, SectionedIs
<1>5. PICK name : name = Root
  OBVIOUS
<1>6. PICK D : D = Derelativized(name) /\ D = Root /\ IsWhole(D)
  <2>1. Derelativized(Root) = Root /\ IsWhole(Root)
    BY RootWhole, Zenon DEF Root
  <2> QED
    BY <1>5, <2>1
<1>7. PICK last : last = WriteRecord(q, name, "OPT", n)
  OBVIOUS
<1>8. PICK w : w = r.output
  OBVIOUS
<1>9. PICK y : y = last.output
  OBVIOUS
<1>10. /\ IsRenderer(last) /\ Compressed(last.output, last.compress) /\ Grows(q, last)
       /\ RecordWritten(w, y, D, "OPT")
  <2>1. /\ IsRenderer(last) /\ Compressed(last.output, last.compress) /\ Grows(q, last)
        /\ RecordWritten(q.output, last.output, D, "OPT")
    BY <1>1, <1>4, <1>6, <1>7, OptionRecordWritten
  <2> QED
    BY <1>4, <1>8, <1>9, <2>1
<1>11. x = Tracked(r, last, s, 1)
  BY <1>s, <1>3, <1>5, <1>7, OneRecord
<1>12. Tracking(r, s, q, last)
  BY <1>1, <1>2, <1>3, <1>10 DEF Tracking
<1>13. ~(Len(last.output) > r.max)
  <2> SUFFICES ASSUME Len(last.output) > r.max PROVE FALSE
    OBVIOUS
  <2>1. IsUndone(r, s, x)
    BY <1>11, <1>12, TrackedUndoes
  <2> QED
    BY <2>1 DEF IsUndone
<1>14. IsKept(r, s, 1, last, x)
  <2>1. 1 \in Nat
    OBVIOUS
  <2> QED
    BY <1>11, <1>12, <1>13, <2>1, TrackedKeeps
<1>15. PICK c : c = r.counts
  OBVIOUS
<1>16. PICK d : d = Counted(c, s, 1)
  OBVIOUS
<1>17. w \in Wires /\ y \in Wires /\ Len(w) \in Nat /\ Len(y) \in Nat /\ Extends(w, y)
  <2>1. w \in Wires /\ y \in Wires /\ Extends(w, y)
    BY <1>1, <1>4, <1>8, <1>9, <1>10 DEF IsRenderer, Grows
  <2> QED
    BY <2>1, WireFacts
<1>18. ASSUME NEW z \in Wires, Continues(y, z)
       PROVE  Fine(Message(z, d), Len(y), R)
  <2>1. Continues(w, z)
    BY <1>17, <1>18, WireFacts, ContinuesOn
  <2>2. PICK k \in Nat : k = c[s]
    BY <1>2, <1>15
  <2>3. PICK p : p = Sofar(z, c, s, k)
    OBVIOUS
  <2>4. Fine(p, Len(w), R) /\ NoOption(p)
    <3>1. Message(z, c) = p
      BY <1>2, <1>15, <2>2, <2>3, MessageSofar
    <3> QED
      BY <1>1, <1>8, <1>15, <1>18, <2>1, <3>1 DEF Readable
  <2>5. PICK m : m = Sofar(z, c, s, k + 1)
    OBVIOUS
  <2>6. m = ReadRecord(z, p, 3)
    <3>1. m = One(z, p, s)
      BY <2>3, <2>5, SofarUnrolls
    <3> QED
      BY <1>s, <3>1 DEF One
  <2>7. PICK e : e = AfterName(y, Len(w))
    OBVIOUS
  <2>8. PICK j : j = Len(y) - (e + 1)
    OBVIOUS
  <2>9. "OPT" \in Types
    BY DEF Types
  <2>10. /\ RecordAt(z, Len(w), e, "OPT", j) /\ e + 1 + j = Len(y) /\ Len(w) \in 0 .. Len(z)
         /\ NameAt(z, Len(w)) = NameAt(y, Len(w))
    BY <1>10, <1>17, <1>18, <2>7, <2>8, <2>9, RecordStays
  <2>11. NameAt(z, Len(w)).labels = Root
    <3>1. PICK labels : labels = NameAt(z, Len(w)).labels
      OBVIOUS
    <3>2. labels \in Seq(Labels)
      BY <1>18, <2>10, <3>1, NameAtType DEF NameResults
    <3>3. Folded(labels) = Folded(Root)
      BY <1>6, <1>10, <2>10, <3>1 DEF RecordWritten
    <3> QED
      BY <3>1, <3>2, <3>3, ReadAsRoot
  <2>12. Fine(m, e + 1 + j, R)
    <3>1. PICK at : at = Len(w)
      OBVIOUS
    <3>2. Fine(p, at, R) /\ RecordAt(z, at, e, "OPT", j) /\ NameAt(z, at).labels = Root
      BY <2>4, <2>10, <2>11, <3>1
    <3> QED
      BY <2>4, <2>6, <3>2, OptionRead
  <2>13. Message(z, d) = m
    <3>1. Message(z, d) = Sofar(z, c, s, c[s] + 1)
      BY <1>2, <1>15, <1>16, OneCounted
    <3> QED
      BY <2>2, <2>5, <3>1
  <2> QED
    BY <2>10, <2>12, <2>13
<1>19. Finished(y, d, R)
  BY <1>18, Zenon DEF Finished
<1> QED
  BY <1>9, <1>14, <1>15, <1>16, <1>19 DEF IsKept, Finishing

LEMMA OptFinished ==
    ASSUME NEW r, NEW R, Sound(r, R), NEW p \in Profiles, NEW x, x = AddOpt(r, p), x.fits
    PROVE  Finishing(x, R)
<1>1. CASE ~p.edns
  <2>1. x = r
    BY <1>1, Zenon DEF AddOpt
  <2> QED
    BY <2>1, SoundFinishing
<1>2. CASE p.edns
  <2>1. PICK size : size = Len(r.output) + OptReserve(p) + TsigReserve(p)
    OBVIOUS
  <2>2. size \in Nat
    <3>1. r.output \in Wires
      BY DEF Sound, IsRenderer
    <3>2. Len(r.output) \in Nat
      BY <3>1, WireFacts
    <3>3. OptReserve(p) \in Nat /\ TsigReserve(p) \in Nat
      BY ProfileFacts
    <3> QED
      BY <2>1, <3>2, <3>3
  <2>3. PICK n : n = p.options + Padding(size, p.pad)
    OBVIOUS
  <2>4. n \in Nat
    <3>1. p.options \in Nat /\ p.pad \in Nat
      BY ProfileFacts
    <3>2. Padding(size, p.pad) \in Nat
      BY <2>2, <3>1, PaddingNat
    <3> QED
      BY <2>3, <3>1, <3>2
  <2>5. x = AddRRset(r, 3, Root, "OPT", <<n>>)
    BY <1>2, <2>1, <2>3, Zenon DEF AddOpt, Padding, Root
  <2> QED
    BY <2>4, <2>5, OptionFinished
<1> QED
  BY <1>1, <1>2

LEMMA HeaderFinishing ==
    ASSUME NEW r, NEW R, Finishing(r, R), NEW x, x = WriteHeader(r)
    PROVE  Finishing(x, R) /\ Restored(ReadMessage(x.output), R) /\ x.fits = r.fits
<1>1. IsRenderer(r) /\ Compressed(r.output, r.compress) /\ Finished(r.output, r.counts, R)
  BY DEF Finishing
<1>2. /\ IsRenderer(x) /\ Compressed(x.output, x.compress) /\ Continues(r.output, x.output)
      /\ Len(x.output) = Len(r.output) /\ x.counts = r.counts /\ x.fits = r.fits
      /\ x.output[1].counts = r.counts
      /\ \A y \in Wires : Continues(x.output, y) => Continues(r.output, y)
  BY <1>1, HeaderWritten
<1>3. Finished(x.output, x.counts, R)
  BY <1>1, <1>2, Zenon DEF Finished
<1>4. Fine(Message(x.output, x.output[1].counts), Len(x.output), R)
  <2>1. x.output \in Wires
    BY <1>2 DEF IsRenderer
  <2> QED
    BY <1>1, <1>2, <2>1 DEF Finished
<1>5. Restored(ReadMessage(x.output), R)
  BY <1>4, FineRestores
<1> QED
  BY <1>2, <1>3, <1>5 DEF Finishing

LEMMA SignatureRestores ==
    ASSUME NEW r, NEW R, Finishing(r, R), NEW key \in NamesGiven,
           NEW x, x = AddRRset(r, 3, key, "TSIG", << 0 >>)
    PROVE  /\ IsRenderer(x) /\ Compressed(x.output, x.compress)
           /\ x.fits => \A z \in Wires : Continues(x.output, z) /\ Len(z) = Len(x.output) => Fine(Message(z, x.counts), Len(z), R)
<1>1. IsRenderer(r) /\ Compressed(r.output, r.compress) /\ Finished(r.output, r.counts, R)
  BY DEF Finishing
<1>s. PICK s : s = 3
  OBVIOUS
<1>2. r.counts \in [Sections -> Nat] /\ s \in Sections /\ NoneAfter(r.counts, s) /\ r.counts[s] \in Nat
  <2>1. r.counts \in [Sections -> Nat]
    BY <1>1 DEF IsRenderer
  <2>2. s \in Sections /\ \A t \in Sections : ~(t > s)
    BY <1>s DEF Sections
  <2> QED
    BY <2>1, <2>2, Zenon DEF NoneAfter
<1>3. PICK q : q = Sectioned(r, s)
  OBVIOUS
<1>4. IsRenderer(q) /\ q.output = r.output /\ q.compress = r.compress
  BY <1>1, <1>2, <1>3, SectionedIs
<1>5. PICK D : D = Derelativized(key) /\ IsWhole(D)
  BY DerelativizedWhole
<1>6. "TSIG" \in Types /\ "TSIG" \notin {"NS", "OPT"} /\ 0 \in Values
  BY DEF Types, Values
<1>7. PICK last : last = WriteRecord(q, key, "TSIG", 0)
  OBVIOUS
<1>8. PICK w : w = r.output
  OBVIOUS
<1>9. PICK y : y = last.output
  OBVIOUS
<1>10. /\ IsRenderer(last) /\ Compressed(last.output, last.compress) /\ Grows(q, last)
       /\ RecordWritten(w, y, D, "TSIG")
  <2>1. /\ IsRenderer(last) /\ Compressed(last.output, last.compress) /\ Grows(q, last)
        /\ RecordWritten(q.output, last.output, D, "TSIG")
    BY <1>1, <1>4, <1>5, <1>6, <1>7, DataRecordWritten
  <2> QED
    BY <1>4, <1>8, <1>9, <2>1
<1>11. x = Tracked(r, last, s, 1)
  BY <1>s, <1>3, <1>7, OneRecord
<1>12. Tracking(r, s, q, last)
  BY <1>1, <1>2, <1>3, <1>10 DEF Tracking
<1>13. CASE Len(last.output) > r.max
  <2>1. IsUndone(r, s, x)
    BY <1>11, <1>12, <1>13, TrackedUndoes
  <2> QED
    BY <2>1 DEF IsUndone
<1>14. ASSUME ~(Len(last.output) > r.max)
       PROVE  IsKept(r, s, 1, last, x)
  <2>1. 1 \in Nat
    OBVIOUS
  <2> QED
    BY <1>11, <1>12, <1>14, <2>1, TrackedKeeps
<1>15. PICK c : c = r.counts
  OBVIOUS
<1>16. PICK d : d = Counted(c, s, 1)
  OBVIOUS
<1>17. w \in Wires /\ y \in Wires /\ Len(w) \in Nat /\ Len(y) \in Nat /\ Extends(w, y)
  <2>1. w \in Wires /\ y \in Wires /\ Extends(w, y)
    BY <1>1, <1>4, <1>8, <1>9, <1>10 DEF IsRenderer, Grows
  <2> QED
    BY <2>1, WireFacts
<1>18. ASSUME NEW z \in Wires, Continues(y, z), Len(z) = Len(y)
       PROVE  Fine(Message(z, d), Len(z), R)
  <2>1. Continues(w, z)
    BY <1>17, <1>18, WireFacts, ContinuesOn
  <2>2. PICK k \in Nat : k = c[s]
    BY <1>2, <1>15
  <2>3. PICK p : p = Sofar(z, c, s, k)
    OBVIOUS
  <2>4. Fine(p, Len(w), R)
    <3>1. Message(z, c) = p
      BY <1>2, <1>15, <2>2, <2>3, MessageSofar
    <3> QED
      BY <1>1, <1>8, <1>15, <1>18, <2>1, <3>1 DEF Finished
  <2>5. PICK m : m = Sofar(z, c, s, k + 1)
    OBVIOUS
  <2>6. m = ReadRecord(z, p, 3)
    <3>1. m = One(z, p, s)
      BY <2>3, <2>5, SofarUnrolls
    <3> QED
      BY <1>s, <3>1 DEF One
  <2>7. PICK e : e = AfterName(y, Len(w))
    OBVIOUS
  <2>8. PICK j : j = Len(y) - (e + 1)
    OBVIOUS
  <2>10. RecordAt(z, Len(w), e, "TSIG", j) /\ e + 1 + j = Len(z)
    BY <1>6, <1>10, <1>17, <1>18, <2>7, <2>8, RecordStays
  <2>12. Fine(m, Len(z), R)
    <3>1. PICK at : at = Len(w)
      OBVIOUS
    <3>2. Fine(p, at, R) /\ RecordAt(z, at, e, "TSIG", j)
      BY <2>4, <2>10, <3>1
    <3> QED
      BY <2>6, <2>10, <3>2, SignatureRead
  <2>13. Message(z, d) = m
    <3>1. Message(z, d) = Sofar(z, c, s, c[s] + 1)
      BY <1>2, <1>15, <1>16, OneCounted
    <3> QED
      BY <2>2, <2>5, <3>1
  <2> QED
    BY <2>12, <2>13
<1>19. CASE ~(Len(last.output) > r.max)
  <2>1. IsRenderer(x) /\ Compressed(x.output, x.compress) /\ x.output = y /\ x.counts = d
    BY <1>9, <1>14, <1>15, <1>16, <1>19 DEF IsKept
  <2> QED
    BY <1>18, <2>1
<1> QED
  BY <1>13, <1>19

LEMMA TsigRestores ==
    ASSUME NEW r, NEW R, Finishing(r, R), NEW p \in Profiles, NEW x, x = AddTsig(WriteHeader(r), p), x.fits
    PROVE  Restored(ReadMessage(WriteHeader(x).output), R)
<1>1. PICK h : h = WriteHeader(r)
  OBVIOUS
<1>2. Finishing(h, R)
  BY <1>1, HeaderFinishing
<1>3. CASE p.key = <<>>
  <2>1. x = h
    BY <1>1, <1>3, Zenon DEF AddTsig
  <2> QED
    BY <1>2, <2>1, HeaderFinishing
<1>4. CASE p.key # <<>>
  <2>1. PICK t : t = AddRRset(h, 3, p.key, "TSIG", <<0>>)
    OBVIOUS
  <2>2. x = WriteHeader(t)
    BY <1>1, <1>4, <2>1, Zenon DEF AddTsig
  <2>3. p.key \in NamesGiven
    BY ProfileFacts
  <2>4. /\ IsRenderer(t) /\ Compressed(t.output, t.compress)
        /\ t.fits => \A z \in Wires : Continues(t.output, z) /\ Len(z) = Len(t.output) => Fine(Message(z, t.counts), Len(z), R)
    BY <1>2, <2>1, <2>3, SignatureRestores
  <2>6. /\ IsRenderer(x) /\ Compressed(x.output, x.compress)
        /\ Len(x.output) = Len(t.output) /\ x.counts = t.counts /\ x.fits = t.fits
        /\ \A y \in Wires : Continues(x.output, y) => Continues(t.output, y)
    BY <2>2, <2>4, HeaderWritten
  <2>5. \A z \in Wires : Continues(t.output, z) /\ Len(z) = Len(t.output) => Fine(Message(z, t.counts), Len(z), R)
    <3>1. t.fits
      BY <2>6, Zenon
    <3> QED
      BY <2>4, <3>1
  <2>7. PICK z : z = WriteHeader(x)
    OBVIOUS
  <2>8. /\ IsRenderer(z) /\ Continues(x.output, z.output) /\ Len(z.output) = Len(x.output)
        /\ z.output[1].counts = x.counts
    BY <2>6, <2>7, HeaderWritten
  <2>9. z.output \in Wires
    BY <2>8 DEF IsRenderer
  <2>10. Fine(Message(z.output, z.output[1].counts), Len(z.output), R)
    BY <2>5, <2>6, <2>8, <2>9
  <2> QED
    BY <2>7, <2>10, FineRestores
<1> QED
  BY <1>3, <1>4

(* The inductive invariant: while the message is open, however it goes on, *)
(* what was added reads back; once it is done, the message does.           *)
WireInv ==
    /\ profile \in Profiles
    /\ status = "open" => Sound(renderer, added)
    /\ status \notin {"open", "too big"} => Restored(ReadMessage(WriteHeader(renderer).output), added)

LEMMA WireInvRoundTrip ==
    WireInv => RoundTrip
<1> SUFFICES ASSUME WireInv, status # "too big"
             PROVE  Restored(ReadMessage(WriteHeader(renderer).output), added)
  BY Zenon DEF RoundTrip
<1>1. CASE status = "open"
  BY <1>1, SoundFinishing, HeaderFinishing DEF WireInv
<1>2. CASE status # "open"
  BY <1>2 DEF WireInv
<1> QED
  BY <1>1, <1>2

LEMMA WireInvInit ==
    WireInit => WireInv
<1> SUFFICES ASSUME WireInit PROVE WireInv
  OBVIOUS
<1>1. profile \in Profiles /\ renderer = NewRenderer(profile) /\ added = {} /\ status = "open"
  BY DEF WireInit
<1>2. Sound(renderer, added)
  BY <1>1, FreshSound
<1> QED
  BY <1>1, <1>2 DEF WireInv

LEMMA AddsKeeps ==
    ASSUME WireInv, status = "open", NEW x, NEW records, Adds(x, records),
           KeptOrNot(x, added, added \cup records)
    PROVE  WireInv'
<1>1. renderer' = x /\ added' = (IF x.fits THEN added \cup records ELSE added) /\ profile' = profile /\ status' = status
  BY DEF Adds
<1>2. Sound(x, added')
  BY <1>1 DEF KeptOrNot
<1>3. Sound(renderer, added)'
  BY <1>1, <1>2 DEF Sound
<1> QED
  BY <1>1, <1>3 DEF WireInv

LEMMA FinishesKeeps ==
    ASSUME WireInv, Finishes
    PROVE  WireInv'
<1>1. PICK released : released = [renderer EXCEPT !.max = MaxSize, !.fits = TRUE]
  OBVIOUS
<1>2. PICK opt : opt = AddOpt(released, profile)
  OBVIOUS
<1>3. PICK tsig : tsig = AddTsig(WriteHeader(opt), profile)
  OBVIOUS
<1>4. /\ status = "open" /\ profile' = profile /\ added' = added
      /\ renderer' = IF opt.fits THEN tsig ELSE opt
      /\ status' = IF opt.fits /\ tsig.fits THEN "done" ELSE "too big"
  BY <1>1, <1>2, <1>3, Zenon DEF Finishes
<1>5. profile \in Profiles /\ Sound(renderer, added)
  BY <1>4 DEF WireInv
<1>6. Sound(released, added)
  BY <1>1, <1>5, ReleasedSound
<1>7. CASE opt.fits /\ tsig.fits
  <2>0. opt.fits /\ tsig.fits
    BY <1>7
  <2>1. Finishing(opt, added)
    BY <1>2, <1>5, <1>6, <2>0, OptFinished
  <2>2. Restored(ReadMessage(WriteHeader(tsig).output), added)
    BY <1>3, <1>5, <2>0, <2>1, TsigRestores
  <2>3. renderer' = tsig /\ status' = "done"
    BY <1>4, <1>7
  <2>4. Restored(ReadMessage(WriteHeader(renderer').output), added')
    BY <1>4, <2>2, <2>3
  <2> QED
    BY <1>4, <1>5, <2>3, <2>4 DEF WireInv
<1>8. CASE ~(opt.fits /\ tsig.fits)
  <2>1. status' = "too big"
    BY <1>4, <1>8
  <2> QED
    BY <1>4, <1>5, <2>1 DEF WireInv
<1> QED
  BY <1>7, <1>8

LEMMA WireInvNext ==
    WireInv /\ [WireNext]_wireVars => WireInv'
<1> SUFFICES ASSUME WireInv, [WireNext]_wireVars PROVE WireInv'
  OBVIOUS
<1>1. CASE AddsQuestion
  <2>1. PICK name \in Questions : Adds(AddQuestion(renderer, name), {<<0, Folded(Relativized(name)), "ANY", <<>>>>})
    BY <1>1, Zenon DEF AddsQuestion
  <2>2. status = "open" /\ renderer.section = 0
    BY <1>1 DEF AddsQuestion
  <2>3. PICK records : records = {<<0, Folded(Relativized(name)), "ANY", <<>>>>}
    OBVIOUS
  <2>4. PICK x : x = AddQuestion(renderer, name)
    OBVIOUS
  <2>5. Sound(renderer, added)
    BY <2>2 DEF WireInv
  <2>6. KeptOrNot(x, added, added \cup records)
    BY <2>2, <2>3, <2>4, <2>5, QuestionSound
  <2> QED
    BY <2>1, <2>2, <2>3, <2>4, <2>6, AddsKeeps
<1>2. CASE AddsRRset
  <2>1. PICK rrset \in RRsets :
          /\ rrset.section >= renderer.section
          /\ Adds(AddRRset(renderer, rrset.section, rrset.name, rrset.type, rrset.rdatas), RRsetRecords(rrset))
    BY <1>2, Zenon DEF AddsRRset, RRsetRecords
  <2>2. status = "open"
    BY <1>2 DEF AddsRRset
  <2>3. PICK records : records = RRsetRecords(rrset)
    OBVIOUS
  <2>4. PICK x : x = AddRRset(renderer, rrset.section, rrset.name, rrset.type, rrset.rdatas)
    OBVIOUS
  <2>5. Sound(renderer, added)
    BY <2>2 DEF WireInv
  <2>6. KeptOrNot(x, added, added \cup records)
    <3>1. rrset.section >= renderer.section
      BY <2>1
    <3> QED
      BY <2>3, <2>4, <2>5, <3>1, RRsetSound
  <2> QED
    BY <2>1, <2>2, <2>3, <2>4, <2>6, AddsKeeps
<1>3. CASE Finishes
  BY <1>3, FinishesKeeps
<1>4. CASE UNCHANGED wireVars
  BY <1>4 DEF WireInv, wireVars, Restored, Sound
<1> QED
  BY <1>1, <1>2, <1>3, <1>4 DEF WireNext

(* A message reads back as what was added, for every set of names, RRsets  *)
(* and options, every limit of size and every greatest offset of a         *)
(* pointer: compression and rollback lose and add nothing                  *)
(* (dns/renderer.py, dns/name.py, dns/message.py).                         *)
THEOREM MessagesReadBack == WireSpec => []RoundTrip
<1>1. WireSpec => []WireInv
  BY WireInvInit, WireInvNext, PTL DEF WireSpec
<1> QED
  BY <1>1, WireInvRoundTrip, PTL

=============================================================================
