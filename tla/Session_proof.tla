---------------------------- MODULE Session_proof ----------------------------
(***************************************************************************)
(* What a session guarantees, proved for any amounts sent, any window and  *)
(* any mark of the transports.                                             *)
(***************************************************************************)
EXTENDS Session, SequenceTheorems, TLAPS

Relayed == conn["target"] # "none"

(* The handshake, up to the connection: only the client is there. *)
Early == stage \in {"hello", "request", "connect"}
Refused == stage \in {"finish", "done"} /\ ~Relayed

StageFits ==
    /\ conn["client"] # "none"
    /\ Early => ~Relayed /\ conn["client"] \in {"open", "broken"}
    /\ stage = "hello" => kind = "SOCKS"
    /\ stage = "relay" => Relayed
    /\ stage = "finish" => ~Relayed /\ conn["client"] # "open"
    /\ stage = "done" /\ ~Relayed /\ kind = "SOCKS" => conn["client"] \in {"lost", "broken"}
    /\ stage = "done" /\ Relayed => \A x \in End : forwarder[x] = "done"
    /\ \A x \in End : forwarder[x] = "none" <=> ~Relayed

(* A forwarder writes to a transport only it closes, and waits until it has  *)
(* closed.                                                                   *)
ForwarderFits ==
    \A x \in End :
        /\ forwarder[x] \in {"read", "drain"} => conn[Other(x)] \in {"open", "broken"}
        /\ forwarder[x] = "closing" => conn[Other(x)] \in {"closing", "lost", "broken"}
        /\ forwarder[x] = "done" => conn[Other(x)] \in {"lost", "broken"}

(* What waits to be read continues what was read. *)
InboxFits ==
    ~Refused => \A x \in End : \A i \in 1..Len(inbox[x]) : inbox[x][i] = Chunk(x, taken[x] + i)

(* How much of the client was read, and how much was written to an end. *)
TakenFits ==
    /\ stage = "hello" => taken["client"] = 0
    /\ stage = "request" => taken["client"] = Handshake - 1
    /\ stage = "connect" => taken["client"] = Handshake
    /\ Relayed => taken["client"] >= Handshake
    /\ ~Relayed => taken["target"] = 0
Put(y) == Len(got[y]) + Len(outbox[y])
PutFits ==
    /\ Early /\ conn["client"] = "open" =>
           Put("client") = IF stage = "hello" \/ kind # "SOCKS" THEN 0 ELSE 1
    /\ Relayed => \A y \in End : conn[y] = "open" =>
           Put(y) = Len(Preface(y)) + taken[Other(y)] - Skipped(Other(y))
    /\ ~Relayed => got["target"] = <<>> /\ outbox["target"] = <<>>
    /\ \A y \in End : conn[y] = "broken" => outbox[y] = <<>>

(* What waits to be received continues what was received. *)
Continues(y) ==
    /\ \A j \in 1..Len(got[y]) : got[y][j] = Expected(y, j)
    /\ \A j \in 1..Len(outbox[y]) : outbox[y][j] = Expected(y, Len(got[y]) + j)
OutboxFits == ~Refused => \A y \in End : Continues(y)

(* Only a forwarder that waits in drain() is beyond the mark; before it runs *)
(* there is at most one reply.                                               *)
BufferFits ==
    /\ BoundedBuffer
    /\ \A x \in End : forwarder[x] = "read" => Len(outbox[Other(x)]) <= Window + HighWater
    /\ Early => Len(outbox["client"]) <= 1 /\ (stage = "hello" => Len(outbox["client"]) = 0)
    /\ ~Relayed => outbox["target"] = <<>>

(* As long as its transport is open nothing an end sent is lost; EOF on a    *)
(* connection in use is the end's own, behind all it sent.                   *)
AllThere(x) == taken[x] + Len(inbox[x]) = sent[x]
EofFits ==
    ~Refused => \A x \in End :
        /\ conn[x] \in {"none", "open"} => AllThere(x)
        /\ conn[x] \in {"none", "open", "closing"} /\ eof[x] => peer[x] # "open" /\ AllThere(x)

(* The forwarder that ends first has read its end's stream to the FIN. *)
Unbroken == \A y \in End : conn[y] # "broken"
AtFin(x) == peer[x] # "open" /\ taken[x] = sent[x]
Ended(x) == forwarder[x] \in {"closing", "done"}
FirstEndsAtFin ==
    Unbroken => \A x \in End :
        Ended(x) /\ forwarder[Other(x)] \in {"read", "drain"} => AtFin(x)

Control == SessionTypeOK /\ StageFits /\ ForwarderFits
Flow == EofFits /\ InboxFits /\ TakenFits /\ PutFits /\ OutboxFits

------------------------------------------------------------------------------
(* Sequences of items: taking the first, adding one, keeping a prefix.       *)
LEMMA TakeFirst ==
    ASSUME NEW s \in Seq(Item), s # <<>>
    PROVE  /\ Len(s) \in Nat /\ Len(s) >= 1
           /\ Head(s) \in Item /\ Head(s) = s[1]
           /\ Tail(s) \in Seq(Item) /\ Len(Tail(s)) = Len(s) - 1
           /\ \A i \in 1..Len(Tail(s)) : Tail(s)[i] = s[i + 1]
BY HeadTailProperties, EmptySeq, LenProperties

LEMMA AddOne ==
    ASSUME NEW s \in Seq(Item), NEW e \in Item
    PROVE  /\ Len(s) \in Nat
           /\ s \o <<e>> \in Seq(Item) /\ Len(s \o <<e>>) = Len(s) + 1
           /\ \A i \in 1..Len(s) : (s \o <<e>>)[i] = s[i]
           /\ (s \o <<e>>)[Len(s) + 1] = e
BY AppendProperties, AppendIsConcat, LenProperties

LEMMA KeepSome ==
    ASSUME NEW s \in Seq(Item), NEW k \in 0..Len(s)
    PROVE  /\ SubSeq(s, 1, k) \in Seq(Item) /\ Len(SubSeq(s, 1, k)) = k
           /\ \A i \in 1..k : SubSeq(s, 1, k)[i] = s[i]
<1>1. Len(s) \in Nat /\ \A i \in 1..Len(s) : s[i] \in Item
  BY LenProperties, ElementOfSeq
<1>2. \A i \in 1..k : s[i] \in Item
  BY <1>1
<1> QED
  BY <1>1, <1>2, SubSeqProperties

LEMMA Words ==
    /\ \A w \in {"method", "granted", "refused", "request"} : Word(w) \in Item
    /\ \A x \in End, n \in Nat : Chunk(x, n) \in Item
    /\ \A x \in End : Other(x) \in End /\ Other(x) # x /\ Other(Other(x)) = x
    /\ \A x, y \in End : x # y => y = Other(x)
    /\ End = {"client", "target"} /\ Other("client") = "target" /\ Other("target") = "client"
BY DEF Word, Chunk, Item, End, Other

(* What write(), close() and giving up do to the variables. *)
LEMMA WrittenOne ==
    ASSUME SessionTypeOK, NEW y \in End, NEW e \in Item
    PROVE  /\ Written(y, <<e>>) \in [End -> Seq(Item)]
           /\ \A z \in End : z # y \/ conn[y] # "open" => Written(y, <<e>>)[z] = outbox[z]
           /\ conn[y] = "open" => Written(y, <<e>>)[y] = outbox[y] \o <<e>>
<1>1. outbox[y] \in Seq(Item) /\ outbox[y] \o <<e>> \in Seq(Item)
  BY AddOne DEF SessionTypeOK
<1> QED
  BY <1>1 DEF Written, SessionTypeOK

LEMMA WriteEffect ==
    ASSUME SessionTypeOK, NEW y \in End, NEW e \in Item, outbox' = Written(y, <<e>>)
    PROVE  /\ \A z \in End : z # y => outbox'[z] = outbox[z]
           /\ conn[y] # "open" => outbox'[y] = outbox[y]
           /\ conn[y] = "open" => /\ outbox'[y] = outbox[y] \o <<e>>
                                 /\ Len(outbox'[y]) = Len(outbox[y]) + 1
<1>1. Len(outbox[y] \o <<e>>) = Len(outbox[y]) + 1
  BY AddOne DEF SessionTypeOK
<1>2. /\ \A z \in End : z # y \/ conn[y] # "open" => outbox'[z] = outbox[z]
      /\ conn[y] = "open" => outbox'[y] = outbox[y] \o <<e>>
  BY WrittenOne
<1> QED
  BY <1>1, <1>2

LEMMA WrittenNone == SessionTypeOK /\ (\E y \in End : outbox' = Written(y, <<>>)) => outbox' = outbox
<1> SUFFICES ASSUME SessionTypeOK, NEW y \in End PROVE Written(y, <<>>) = outbox
  OBVIOUS
<1>1. outbox[y] \in Seq(Item) /\ outbox[y] \o <<>> = outbox[y]
  BY ConcatEmptySeq DEF SessionTypeOK
<1> QED
  BY <1>1 DEF Written, SessionTypeOK

LEMMA CloseEffect ==
    ASSUME SessionTypeOK, NEW y \in End, CloseWriter(y)
    PROVE  /\ conn' = [conn EXCEPT ![y] = IF conn[y] = "open" THEN "closing" ELSE @]
           /\ inbox' \in [End -> Seq(Item)] /\ eof' \in [End -> BOOLEAN]
           /\ \A z \in End : z # y => inbox'[z] = inbox[z] /\ eof'[z] = eof[z]
           /\ \A z \in End : /\ Len(inbox'[z]) \in Nat /\ Len(inbox'[z]) <= Len(inbox[z])
                             /\ \A i \in 1..Len(inbox'[z]) : inbox'[z][i] = inbox[z][i]
           /\ conn[y] # "open" \/ eof'[y] => inbox'[y] = inbox[y] /\ eof'[y] = eof[y]
<1>1. \A z \in End : inbox[z] \in Seq(Item) /\ Len(inbox[z]) \in Nat
  BY LenProperties DEF SessionTypeOK
<1>2. CASE conn[y] = "open"
  <2>1. CASE UNCHANGED <<inbox, eof>>
    BY <1>1, <1>2, <2>1 DEF CloseWriter, SessionTypeOK
  <2>2. ASSUME NEW k \in 0..Len(inbox[y]), inbox' = [inbox EXCEPT ![y] = SubSeq(@, 1, k)],
               eof' = [eof EXCEPT ![y] = FALSE]
        PROVE  /\ inbox' \in [End -> Seq(Item)] /\ eof' \in [End -> BOOLEAN] /\ ~eof'[y]
               /\ \A z \in End : z # y => inbox'[z] = inbox[z] /\ eof'[z] = eof[z]
               /\ \A z \in End : /\ Len(inbox'[z]) \in Nat /\ Len(inbox'[z]) <= Len(inbox[z])
                                 /\ \A i \in 1..Len(inbox'[z]) : inbox'[z][i] = inbox[z][i]
    <3>1. inbox'[y] = SubSeq(inbox[y], 1, k)
      BY <2>2 DEF SessionTypeOK
    <3>2. /\ SubSeq(inbox[y], 1, k) \in Seq(Item) /\ Len(SubSeq(inbox[y], 1, k)) = k
          /\ \A i \in 1..k : SubSeq(inbox[y], 1, k)[i] = inbox[y][i]
      BY <1>1, KeepSome
    <3> QED
      BY <1>1, <2>2, <3>1, <3>2 DEF SessionTypeOK
  <2> QED
    BY <1>2, <2>1, <2>2 DEF CloseWriter, SessionTypeOK
<1>3. CASE conn[y] # "open"
  BY <1>1, <1>3 DEF CloseWriter, SessionTypeOK
<1> QED
  BY <1>2, <1>3

(* A step of the handler before the relay that does not go on with it. *)
GivesUp == stage' \in {"finish", "done"} /\ (Hello \/ Request \/ NoWord \/ ConnectFails)

LEMMA GiveUpEffect ==
    ASSUME SessionTypeOK, NEW q \in Seq(Item), GiveUp(q, <<>>) \/ GiveUp(q, <<Word("refused")>>)
    PROVE  /\ stage' = IF kind = "SOCKS" /\ conn["client"] = "open" THEN "finish" ELSE "done"
           /\ conn' = [conn EXCEPT !["client"] = IF stage' = "finish" THEN "closing" ELSE @]
           /\ inbox' \in [End -> Seq(Item)] /\ outbox' \in [End -> Seq(Item)]
           /\ Len(inbox'["client"]) \in Nat /\ Len(inbox'["client"]) <= Len(q)
           /\ inbox'["target"] = inbox["target"] /\ outbox'["target"] = outbox["target"]
           /\ conn["client"] = "broken" => outbox' = outbox
           /\ Len(outbox'["client"]) <= Len(outbox["client"]) + 1
           /\ UNCHANGED <<kind, eof, forwarder, ends>>
<1>1. "client" \in End /\ "target" \in End /\ Len(q) \in Nat
  BY LenProperties DEF End
<1>2. \A z \in End : inbox[z] \in Seq(Item) /\ outbox[z] \in Seq(Item) /\ Len(outbox[z]) \in Nat
  BY LenProperties DEF SessionTypeOK
<1>3. /\ outbox' \in [End -> Seq(Item)]
      /\ outbox'["target"] = outbox["target"]
      /\ conn["client"] = "broken" => outbox' = outbox
      /\ Len(outbox'["client"]) <= Len(outbox["client"]) + 1
  <2>1. CASE GiveUp(q, <<>>)
    <3>1. outbox' = outbox
      BY <1>1, <2>1, WrittenNone DEF GiveUp
    <3> QED
      BY <1>1, <1>2, <3>1 DEF SessionTypeOK
  <2>2. CASE GiveUp(q, <<Word("refused")>>)
    <3>1. Word("refused") \in Item /\ outbox' = Written("client", <<Word("refused")>>)
      BY <2>2, Words DEF GiveUp
    <3>2. Len(outbox["client"] \o <<Word("refused")>>) = Len(outbox["client"]) + 1
      BY <1>1, <1>2, <3>1, AddOne
    <3>3. conn["client"] # "open" => outbox' = outbox
      BY <3>1 DEF Written
    <3>4. /\ outbox' \in [End -> Seq(Item)]
          /\ outbox'["target"] = outbox["target"]
          /\ conn["client"] = "open" => outbox'["client"] = outbox["client"] \o <<Word("refused")>>
      BY <1>1, <3>1, WrittenOne
    <3> QED
      BY <1>1, <1>2, <3>2, <3>3, <3>4
  <2> QED
    BY <2>1, <2>2
<1>4. /\ stage' = IF kind = "SOCKS" /\ conn["client"] = "open" THEN "finish" ELSE "done"
      /\ conn' = [conn EXCEPT !["client"] = IF stage' = "finish" THEN "closing" ELSE @]
      /\ UNCHANGED <<kind, eof, forwarder, ends>>
  BY DEF GiveUp, SessionTypeOK
<1>5. /\ inbox' \in [End -> Seq(Item)] /\ inbox'["target"] = inbox["target"]
      /\ Len(inbox'["client"]) \in Nat /\ Len(inbox'["client"]) <= Len(q)
  <2>1. CASE stage' = "finish"
    <3>1. PICK k \in 0..Len(q) : Leave(SubSeq(q, 1, k))
      BY <2>1 DEF GiveUp
    <3>2. SubSeq(q, 1, k) \in Seq(Item) /\ Len(SubSeq(q, 1, k)) = k
      BY KeepSome
    <3> QED
      BY <1>1, <3>1, <3>2 DEF Leave, SessionTypeOK
  <2>2. CASE stage' = "done"
    <3>1. Leave(q)
      BY <2>2 DEF GiveUp
    <3> QED
      BY <1>1, <3>1 DEF Leave, SessionTypeOK
  <2> QED
    BY <1>4, <2>1, <2>2
<1> QED
  BY <1>3, <1>4, <1>5

LEMMA RefusalEffect ==
    ASSUME SessionTypeOK, GivesUp
    PROVE  /\ stage \in {"hello", "request", "connect"}
           /\ stage' = IF kind = "SOCKS" /\ conn["client"] = "open" THEN "finish" ELSE "done"
           /\ conn' = [conn EXCEPT !["client"] = IF stage' = "finish" THEN "closing" ELSE @]
           /\ inbox' \in [End -> Seq(Item)] /\ outbox' \in [End -> Seq(Item)]
           /\ taken' \in [End -> Nat] /\ taken'["target"] = taken["target"]
           /\ taken'["client"] + Len(inbox'["client"]) <= taken["client"] + Len(inbox["client"])
           /\ inbox'["target"] = inbox["target"] /\ outbox'["target"] = outbox["target"]
           /\ conn["client"] = "broken" => outbox' = outbox
           /\ Len(outbox'["client"]) <= Len(outbox["client"]) + 1
           /\ UNCHANGED <<kind, eof, forwarder, ends>>
<1> DEFINE s == inbox["client"]
<1>1. "client" \in End /\ "target" \in End /\ s \in Seq(Item) /\ Len(s) \in Nat
  BY LenProperties DEF End, SessionTypeOK
<1>2. CASE Hello \/ Request
  <2>1. s # <<>> /\ TakeWord /\ stage \in {"hello", "request"}
        /\ (GiveUp(Tail(s), <<>>) \/ GiveUp(Tail(s), <<Word("refused")>>))
    BY <1>2 DEF Hello, Request, GivesUp, Heard, Rest
  <2>2. Tail(s) \in Seq(Item) /\ Len(Tail(s)) = Len(s) - 1
    BY <1>1, <2>1, TakeFirst
  <2>3. taken' \in [End -> Nat] /\ taken'["target"] = taken["target"]
        /\ taken'["client"] = taken["client"] + 1 /\ taken["client"] \in Nat
    BY <1>1, <2>1 DEF TakeWord, SessionTypeOK
  <2>4. /\ stage' = IF kind = "SOCKS" /\ conn["client"] = "open" THEN "finish" ELSE "done"
        /\ conn' = [conn EXCEPT !["client"] = IF stage' = "finish" THEN "closing" ELSE @]
        /\ inbox' \in [End -> Seq(Item)] /\ outbox' \in [End -> Seq(Item)]
        /\ Len(inbox'["client"]) \in Nat /\ Len(inbox'["client"]) <= Len(Tail(s))
        /\ inbox'["target"] = inbox["target"] /\ outbox'["target"] = outbox["target"]
        /\ conn["client"] = "broken" => outbox' = outbox
        /\ Len(outbox'["client"]) <= Len(outbox["client"]) + 1
        /\ UNCHANGED <<kind, eof, forwarder, ends>>
    BY <2>1, <2>2, GiveUpEffect
  <2> HIDE DEF s
  <2>5. taken'["client"] + Len(inbox'["client"]) <= taken["client"] + Len(s)
    BY <1>1, <2>2, <2>3, <2>4
  <2> QED
    BY <2>1, <2>3, <2>4, <2>5 DEF s
<1>3. CASE NoWord \/ ConnectFails
  <2>1. UNCHANGED taken /\ stage \in {"hello", "request", "connect"}
        /\ (GiveUp(s, <<>>) \/ GiveUp(s, <<Word("refused")>>))
    BY <1>3 DEF NoWord, ConnectFails
  <2>2. taken \in [End -> Nat] /\ taken["client"] \in Nat
    BY <1>1 DEF SessionTypeOK
  <2> HIDE DEF s
  <2> QED
    BY <1>1, <2>1, <2>2, GiveUpEffect DEF s
<1> QED
  BY <1>2, <1>3 DEF GivesUp

(* A step of the handshake that goes on to the next word. *)
GoesOn == stage' \in {"request", "connect"} /\ (Hello \/ Request)

LEMMA GoesOnEffect ==
    ASSUME SessionTypeOK, GoesOn
    PROVE  /\ stage = IF stage' = "request" THEN "hello" ELSE "request"
           /\ inbox["client"] # <<>> /\ conn["client"] # "broken"
           /\ inbox' = [inbox EXCEPT !["client"] = Tail(@)] /\ inbox' \in [End -> Seq(Item)]
           /\ taken' = [taken EXCEPT !["client"] = @ + 1] /\ taken' \in [End -> Nat]
           /\ outbox' = IF stage = "hello" THEN Written("client", <<Word("method")>>) ELSE outbox
           /\ outbox' \in [End -> Seq(Item)]
           /\ UNCHANGED <<kind, conn, eof, forwarder, ends>>
<1>1. "client" \in End /\ inbox["client"] \in Seq(Item) /\ Word("method") \in Item
  BY Words DEF End, SessionTypeOK
<1>2. /\ stage = IF stage' = "request" THEN "hello" ELSE "request"
      /\ inbox["client"] # <<>> /\ conn["client"] # "broken"
      /\ inbox' = [inbox EXCEPT !["client"] = Tail(@)]
      /\ taken' = [taken EXCEPT !["client"] = @ + 1]
      /\ outbox' = IF stage = "hello" THEN Written("client", <<Word("method")>>) ELSE outbox
      /\ UNCHANGED <<kind, conn, eof, forwarder, ends>>
  BY DEF GoesOn, Hello, Request, Heard, TakeWord, Leave, Rest, GiveUp
<1>3. Tail(inbox["client"]) \in Seq(Item)
  BY <1>1, <1>2, TakeFirst
<1>4. inbox' \in [End -> Seq(Item)] /\ taken' \in [End -> Nat]
  BY <1>1, <1>2, <1>3 DEF SessionTypeOK
<1>5. outbox' \in [End -> Seq(Item)]
  BY <1>1, <1>2, WrittenOne DEF SessionTypeOK
<1> QED
  BY <1>2, <1>4, <1>5

(* The steps of the handler, in the order of its life. *)
LEMMA HandlerSteps ==
    HandlerStep => GoesOn \/ GivesUp \/ Connected \/ RelayEnds \/ WaitClosed
BY DEF HandlerStep, GoesOn, GivesUp, Hello, Request, NoWord, ConnectFails, GiveUp

LEMMA Steps ==
    ASSUME Next
    PROVE  \/ GoesOn \/ GivesUp \/ Connected \/ RelayEnds \/ WaitClosed \/ Collect
           \/ \E x \in End : \/ Read(x) \/ ReadEnds(x) \/ Drain(x) \/ DrainFails(x) \/ LoopEnds(x)
                            \/ Flush(x) \/ Reset(x) \/ Send(x) \/ Receive(x) \/ Vanish(x)
                            \/ \E how \in {"shut", "closed"} : Finish(x, how)
BY HandlerSteps DEF Next, ForwarderStep, EndStep

------------------------------------------------------------------------------
(* Types. *)
LEMMA TypesInit == Init => SessionTypeOK
<1> SUFFICES ASSUME Init PROVE SessionTypeOK
  OBVIOUS
<1>1. <<>> \in Seq(Item) /\ Len(<<>>) = 0
  BY EmptySeq
<1> QED
  BY <1>1, KindsAssumption DEF Init, SessionTypeOK

LEMMA TypesStep == SessionTypeOK /\ [Next]_vars => SessionTypeOK'
<1> SUFFICES ASSUME SessionTypeOK, [Next]_vars PROVE SessionTypeOK'
  OBVIOUS
<1>0. /\ "client" \in End /\ "target" \in End
      /\ \A z \in End : /\ inbox[z] \in Seq(Item) /\ Len(inbox[z]) \in Nat
                        /\ outbox[z] \in Seq(Item) /\ Len(outbox[z]) \in Nat
                        /\ sent[z] \in Nat /\ taken[z] \in Nat /\ taken[z] + Len(inbox[z]) <= sent[z]
  BY LenProperties DEF SessionTypeOK, End
<1>1. CASE UNCHANGED vars
  BY <1>1 DEF vars, SessionTypeOK
<1>2. CASE GoesOn
  <2>1. Len(Tail(inbox["client"])) = Len(inbox["client"]) - 1
    BY <1>0, <1>2, GoesOnEffect, TakeFirst
  <2>2. UNCHANGED <<kind, conn, eof, forwarder, ends>>
        /\ inbox' = [inbox EXCEPT !["client"] = Tail(@)] /\ taken' = [taken EXCEPT !["client"] = @ + 1]
    BY <1>2, GoesOnEffect
  <2>3. \A z \in End : taken'[z] + Len(inbox'[z]) <= sent'[z]
    <3> SUFFICES ASSUME NEW z \in End PROVE taken'[z] + Len(inbox'[z]) <= sent'[z]
      OBVIOUS
    <3>1. sent'[z] = sent[z] /\ sent[z] \in Nat /\ taken[z] \in Nat /\ Len(inbox[z]) \in Nat
          /\ taken[z] + Len(inbox[z]) <= sent[z]
      BY <1>0, <2>2 DEF ends
    <3>2. CASE z = "client"
      <4>1. taken'[z] = taken[z] + 1 /\ Len(inbox'[z]) = Len(inbox[z]) - 1
        BY <1>0, <2>1, <2>2, <3>2 DEF SessionTypeOK
      <4> QED
        BY <3>1, <4>1
    <3>3. CASE z # "client"
      <4>1. taken'[z] = taken[z] /\ inbox'[z] = inbox[z]
        BY <2>2, <3>3 DEF SessionTypeOK
      <4> QED
        BY <3>1, <4>1
    <3> QED
      BY <3>2, <3>3
  <2> QED
    BY <1>2, <2>3, GoesOnEffect DEF SessionTypeOK, ends, GoesOn
<1>3. CASE GivesUp
  <2>1. \A z \in End : taken'[z] + Len(inbox'[z]) <= sent'[z]
    <3>1. /\ taken'["client"] + Len(inbox'["client"]) <= taken["client"] + Len(inbox["client"])
          /\ taken'["target"] = taken["target"] /\ inbox'["target"] = inbox["target"]
          /\ sent' = sent /\ inbox' \in [End -> Seq(Item)] /\ taken' \in [End -> Nat]
      BY <1>3, RefusalEffect DEF ends
    <3>2. Len(inbox'["client"]) \in Nat /\ taken'["client"] \in Nat
      BY <1>0, <3>1, LenProperties
    <3>3. /\ sent["client"] \in Nat /\ taken["client"] \in Nat /\ Len(inbox["client"]) \in Nat
          /\ taken["client"] + Len(inbox["client"]) <= sent["client"]
      BY <1>0
    <3>4. taken'["client"] + Len(inbox'["client"]) <= sent'["client"]
      BY <3>1, <3>2, <3>3
    <3>5. taken'["target"] + Len(inbox'["target"]) <= sent'["target"]
      BY <1>0, <3>1
    <3> QED
      BY <3>4, <3>5 DEF End
  <2> QED
    BY <1>0, <1>3, <2>1, RefusalEffect DEF SessionTypeOK, ends
<1>4. CASE Connected
  <2>1. outbox' \in [End -> Seq(Item)]
    <3>1. Word("granted") \in Item /\ Word("request") \in Item
      BY Words
    <3>2. <<Word("request")>> \in Seq(Item)
      BY <3>1
    <3> QED
      BY <1>0, <1>4, <3>1, <3>2, WrittenOne DEF Connected, SessionTypeOK
  <2> QED
    BY <1>0, <1>4, <2>1 DEF Connected, SessionTypeOK, ends
<1>5. CASE RelayEnds \/ WaitClosed
  BY <1>5 DEF RelayEnds, WaitClosed, SessionTypeOK, ends
<1>6. CASE Collect
  <2>1. \A z \in End : taken'[z] + Len(inbox'[z]) <= sent'[z]
    BY <1>0, <1>6, CloseEffect DEF Collect, ends
  <2> QED
    BY <1>0, <1>6, <2>1, CloseEffect DEF Collect, SessionTypeOK, ends
<1>7. ASSUME NEW x \in End, Read(x)
      PROVE  SessionTypeOK'
  <2>1. Len(Tail(inbox[x])) = Len(inbox[x]) - 1 /\ Tail(inbox[x]) \in Seq(Item) /\ Head(inbox[x]) \in Item
    BY <1>0, <1>7, TakeFirst DEF Read
  <2>2. outbox' \in [End -> Seq(Item)]
    BY <1>7, <2>1, Words, WrittenOne DEF Read
  <2>3. \A z \in End : taken'[z] + Len(inbox'[z]) <= sent'[z]
    BY <1>0, <1>7, <2>1 DEF Read, SessionTypeOK, ends
  <2>4. inbox' \in [End -> Seq(Item)]
    BY <1>7, <2>1 DEF Read, SessionTypeOK
  <2>5. taken[x] + 1 \in Nat
    BY <1>0
  <2>6. taken' \in [End -> Nat]
    BY <1>7, <2>5 DEF Read, SessionTypeOK
  <2>7. forwarder' \in [End -> {"none", "read", "drain", "closing", "done"}]
    BY <1>7 DEF Read, SessionTypeOK
  <2> QED
    BY <1>7, <2>2, <2>3, <2>4, <2>6, <2>7 DEF Read, SessionTypeOK, ends
<1>8. ASSUME NEW x \in End, ReadEnds(x) \/ DrainFails(x)
      PROVE  SessionTypeOK'
  <2>1. EndLoop(x) /\ Other(x) \in End
    BY <1>8, Words DEF ReadEnds, DrainFails
  <2>2. /\ conn' = [conn EXCEPT ![Other(x)] = IF conn[Other(x)] = "open" THEN "closing" ELSE @]
        /\ inbox' \in [End -> Seq(Item)] /\ eof' \in [End -> BOOLEAN]
        /\ \A z \in End : Len(inbox'[z]) \in Nat /\ Len(inbox'[z]) <= Len(inbox[z])
    BY <2>1, CloseEffect DEF EndLoop
  <2>3. \A z \in End : taken'[z] + Len(inbox'[z]) <= sent'[z]
    <3> SUFFICES ASSUME NEW z \in End PROVE taken'[z] + Len(inbox'[z]) <= sent'[z]
      OBVIOUS
    <3>1. taken'[z] = taken[z] /\ sent'[z] = sent[z]
      BY <2>1 DEF EndLoop, ends
    <3>2. Len(inbox'[z]) \in Nat /\ Len(inbox'[z]) <= Len(inbox[z])
      BY <2>2
    <3>3. taken[z] \in Nat /\ sent[z] \in Nat /\ Len(inbox[z]) \in Nat /\ taken[z] + Len(inbox[z]) <= sent[z]
      BY <1>0
    <3> QED
      BY <3>1, <3>2, <3>3
  <2> QED
    BY <1>0, <2>1, <2>2, <2>3 DEF EndLoop, SessionTypeOK, ends
<1>9. ASSUME NEW x \in End, Drain(x) \/ LoopEnds(x) \/ Flush(x) \/ Vanish(x)
      PROVE  SessionTypeOK'
  BY <1>9 DEF Drain, LoopEnds, Flush, Vanish, SessionTypeOK, ends, proxy
<1>10. ASSUME NEW x \in End, Reset(x)
       PROVE  SessionTypeOK'
  <2>1. <<>> \in Seq(Item)
    BY EmptySeq
  <2> QED
    BY <1>10, <2>1 DEF Reset, SessionTypeOK, ends
<1>11. ASSUME NEW x \in End, NEW how \in {"shut", "closed"}, Finish(x, how)
       PROVE  SessionTypeOK'
  BY <1>11 DEF Finish, SessionTypeOK
<1>12. ASSUME NEW x \in End, Send(x)
       PROVE  SessionTypeOK'
  <2>1. Chunk(x, sent[x] + 1) \in Item
    BY <1>0, Words
  <2>2. /\ Append(inbox[x], Chunk(x, sent[x] + 1)) \in Seq(Item)
        /\ Len(Append(inbox[x], Chunk(x, sent[x] + 1))) = Len(inbox[x]) + 1
    BY <1>0, <2>1, AppendProperties
  <2>3. sent[x] + 1 \in Nat
    BY <1>0
  <2>4. sent' \in [End -> Nat]
    BY <1>12, <2>3 DEF Send, SessionTypeOK
  <2>5. inbox' \in [End -> Seq(Item)]
    BY <1>12, <2>2 DEF Send, SessionTypeOK
  <2>6. \A z \in End : taken'[z] + Len(inbox'[z]) <= sent'[z]
    <3> SUFFICES ASSUME NEW z \in End PROVE taken'[z] + Len(inbox'[z]) <= sent'[z]
      OBVIOUS
    <3>1. taken'[z] = taken[z] /\ sent[z] \in Nat /\ taken[z] \in Nat /\ Len(inbox[z]) \in Nat
          /\ taken[z] + Len(inbox[z]) <= sent[z]
      BY <1>0, <1>12 DEF Send
    <3>2. CASE z = x
      <4>1. sent'[z] = sent[z] + 1
        BY <1>12, <3>2 DEF Send, SessionTypeOK
      <4>2. inbox'[z] = inbox[z] \/ inbox'[z] = Append(inbox[x], Chunk(x, sent[x] + 1))
        BY <1>12, <3>2 DEF Send, SessionTypeOK
      <4>3. Len(inbox'[z]) \in Nat /\ Len(inbox'[z]) <= Len(inbox[z]) + 1
        BY <2>2, <3>1, <3>2, <4>2
      <4> QED
        BY <3>1, <4>1, <4>3
    <3>3. CASE z # x
      <4>1. sent'[z] = sent[z] /\ inbox'[z] = inbox[z]
        BY <1>12, <3>3 DEF Send, SessionTypeOK
      <4> QED
        BY <3>1, <4>1
    <3> QED
      BY <3>2, <3>3
  <2> QED
    BY <1>12, <2>4, <2>5, <2>6 DEF Send, SessionTypeOK
<1>13. ASSUME NEW x \in End, Receive(x)
       PROVE  SessionTypeOK'
  <2>1. Tail(outbox[x]) \in Seq(Item) /\ Head(outbox[x]) \in Item /\ got[x] \in Seq(Item)
    BY <1>0, <1>13, TakeFirst DEF Receive, SessionTypeOK
  <2>2. Append(got[x], Head(outbox[x])) \in Seq(Item)
    BY <2>1, AppendProperties
  <2> QED
    BY <1>13, <2>1, <2>2 DEF Receive, SessionTypeOK
<1> QED
  BY <1>1, <1>2, <1>3, <1>4, <1>5, <1>6, <1>7, <1>8, <1>9, <1>10, <1>11, <1>12, <1>13, Steps

(* The variables keep their types, and nothing is read twice. *)
THEOREM SessionTypes == Spec => []SessionTypeOK
<1> QED
  BY TypesInit, TypesStep, PTL DEF Spec

------------------------------------------------------------------------------
(* Where the handler, the forwarders and the transports can be together. *)
LEMMA ControlInit == Init => StageFits /\ ForwarderFits
BY DEF Init, StageFits, ForwarderFits, Relayed, Early, End, Other

LEMMA ControlStep ==
    ASSUME SessionTypeOK, StageFits, ForwarderFits, [Next]_vars
    PROVE  StageFits' /\ ForwarderFits'
<1>0. /\ "client" \in End /\ "target" \in End
      /\ conn \in [End -> {"none", "open", "closing", "lost", "broken"}]
      /\ forwarder \in [End -> {"none", "read", "drain", "closing", "done"}]
  BY DEF SessionTypeOK, End
<1>1. CASE UNCHANGED <<kind, stage, conn, forwarder>>
  BY <1>1 DEF StageFits, ForwarderFits, Relayed, Early
<1>2. CASE GoesOn
  <2>1. UNCHANGED <<kind, conn, forwarder>> /\ stage \in {"hello", "request"}
    BY <1>2, GoesOnEffect
  <2> QED
    BY <1>2, <2>1 DEF StageFits, ForwarderFits, Relayed, Early, GoesOn
<1>3. CASE GivesUp
  <2>1. /\ Early /\ stage' = IF kind = "SOCKS" /\ conn["client"] = "open" THEN "finish" ELSE "done"
        /\ conn' = [conn EXCEPT !["client"] = IF stage' = "finish" THEN "closing" ELSE @]
        /\ UNCHANGED <<kind, forwarder>>
    BY <1>3, RefusalEffect DEF Early
  <2> QED
    BY <1>0, <2>1 DEF StageFits, ForwarderFits, Relayed, Early, End, Other
<1>4. CASE Connected
  BY <1>0, <1>4 DEF Connected, StageFits, ForwarderFits, Relayed, Early, End, Other
<1>5. CASE RelayEnds \/ WaitClosed
  BY <1>0, <1>5 DEF RelayEnds, WaitClosed, StageFits, ForwarderFits, Relayed, Early, End, Other
<1>6. CASE Collect
  <2>1. /\ conn' = [conn EXCEPT !["client"] = "closing"]
        /\ stage = "done" /\ conn["client"] = "open" /\ UNCHANGED <<kind, stage, forwarder>>
    BY <1>0, <1>6, CloseEffect DEF Collect
  <2> QED
    BY <1>0, <2>1 DEF StageFits, ForwarderFits, Relayed, Early, End, Other
<1>7. ASSUME NEW x \in End, Read(x) \/ Drain(x) \/ LoopEnds(x)
      PROVE  StageFits' /\ ForwarderFits'
  BY <1>0, <1>7 DEF Read, Drain, LoopEnds, StageFits, ForwarderFits, Relayed, Early, End, Other
<1>8. ASSUME NEW x \in End, ReadEnds(x) \/ DrainFails(x)
      PROVE  StageFits' /\ ForwarderFits'
  <2>1. EndLoop(x) /\ Other(x) \in End /\ forwarder[x] \in {"read", "drain"}
    BY <1>8, Words DEF ReadEnds, DrainFails
  <2>2. /\ conn' = [conn EXCEPT ![Other(x)] = IF conn[Other(x)] = "open" THEN "closing" ELSE @]
        /\ forwarder' = [forwarder EXCEPT ![x] = "closing"] /\ UNCHANGED <<kind, stage>>
    BY <2>1, CloseEffect DEF EndLoop
  <2> QED
    BY <1>0, <2>1, <2>2 DEF StageFits, ForwarderFits, Relayed, Early, End, Other
<1>9. ASSUME NEW x \in End, Flush(x)
      PROVE  StageFits' /\ ForwarderFits'
  BY <1>0, <1>9 DEF Flush, StageFits, ForwarderFits, Relayed, Early, End, Other
<1>10. ASSUME NEW x \in End, Reset(x)
       PROVE  StageFits' /\ ForwarderFits'
  <2>1. /\ conn[x] \in {"open", "closing", "lost"}
        /\ conn' = [conn EXCEPT ![x] = IF @ = "lost" THEN @ ELSE "broken"]
        /\ UNCHANGED <<kind, stage, forwarder>>
    BY <1>10 DEF Reset
  <2> QED
    BY <1>0, <2>1 DEF StageFits, ForwarderFits, Relayed, Early, End, Other
<1>11. ASSUME NEW x \in End, Send(x) \/ Receive(x) \/ Vanish(x) \/ \E how \in {"shut", "closed"} : Finish(x, how)
       PROVE  UNCHANGED <<kind, stage, conn, forwarder>>
  BY <1>11 DEF Send, Receive, Vanish, Finish, proxy
<1>12. CASE UNCHANGED vars
  BY <1>1, <1>12 DEF vars
<1> QED
  BY <1>1, <1>2, <1>3, <1>4, <1>5, <1>6, <1>7, <1>8, <1>9, <1>10, <1>11, <1>12, Steps

(* A handler that is done leaves nothing open, but for a client the HTTP     *)
(* handler refused.                                                          *)
THEOREM NoneLeftOpen == Spec => []NothingLeftOpen
<1>1. Control => NothingLeftOpen
  BY DEF Control, StageFits, ForwarderFits, NothingLeftOpen, Relayed, End, Other
<1>2. Init => Control
  BY TypesInit, ControlInit DEF Control
<1>3. Control /\ [Next]_vars => Control'
  BY TypesStep, ControlStep DEF Control
<1> QED
  BY <1>1, <1>2, <1>3, PTL DEF Spec

------------------------------------------------------------------------------
(* The transports' memory. *)
LEMMA BufferInit == Init => BufferFits
<1>1. Len(<<>>) = 0
  BY EmptySeq
<1> QED
  BY <1>1, BufferAssumption DEF Init, BufferFits, BoundedBuffer, Relayed, Early, End, Other

LEMMA BufferStep ==
    ASSUME SessionTypeOK, StageFits, ForwarderFits, BufferFits, [Next]_vars
    PROVE  BufferFits'
<1> DEFINE Mark == Window + HighWater
<1>0. /\ "client" \in End /\ "target" \in End /\ Mark \in Nat /\ Mark >= 2
      /\ forwarder \in [End -> {"none", "read", "drain", "closing", "done"}]
      /\ outbox \in [End -> Seq(Item)]
      /\ \A z \in End : outbox[z] \in Seq(Item) /\ Len(outbox[z]) \in Nat /\ Len(outbox[z]) <= Mark + 1
      /\ \A z \in End : outbox'[z] \in Seq(Item) /\ Len(outbox'[z]) \in Nat
  BY TypesStep, LenProperties, BufferAssumption DEF SessionTypeOK, End, BufferFits, BoundedBuffer
\* buffers only shrink, and nothing starts
<1>1. ASSUME \A z \in End : outbox'[z] = outbox[z] \/ (Len(outbox'[z]) <= Len(outbox[z]) /\ outbox[z] # <<>>),
             \A z \in End : forwarder'[z] = "read" => forwarder[z] = "read",
             Early' => Early /\ UNCHANGED stage, Relayed' = Relayed
      PROVE  BufferFits'
  <2>1. \A z \in End : Len(outbox'[z]) <= Len(outbox[z])
    BY <1>0, <1>1
  <2>2. BoundedBuffer'
    <3> SUFFICES ASSUME NEW z \in End PROVE Len(outbox'[z]) <= Mark + 1
      BY DEF BoundedBuffer
    <3> QED
      BY <1>0, <2>1
  <2>3. ASSUME NEW x \in End, forwarder'[x] = "read" PROVE Len(outbox'[Other(x)]) <= Mark
    <3>1. Other(x) \in End /\ Len(outbox[Other(x)]) <= Mark
      BY <1>1, <2>3, Words DEF BufferFits
    <3> QED
      BY <1>0, <2>1, <3>1
  <2>4. Early' => Len(outbox'["client"]) <= 1 /\ (stage' = "hello" => Len(outbox'["client"]) = 0)
    <3>1. Len(outbox'["client"]) \in Nat /\ Len(outbox["client"]) \in Nat
          /\ Len(outbox'["client"]) <= Len(outbox["client"])
      BY <1>0, <2>1
    <3> QED
      BY <1>1, <3>1 DEF BufferFits
  <2>5. ~Relayed' => outbox'["target"] = <<>>
    BY <1>0, <1>1 DEF BufferFits
  <2> QED
    BY <2>2, <2>3, <2>4, <2>5 DEF BufferFits, BoundedBuffer
<1>2. CASE UNCHANGED vars
  BY <1>1, <1>2 DEF vars, Early, Relayed
<1>3. CASE GoesOn
  <2>1. /\ Early /\ ~Relayed /\ UNCHANGED <<conn, forwarder>> /\ stage' # "hello"
        /\ forwarder["client"] = "none" /\ forwarder["target"] = "none"
        /\ stage = "hello" => outbox' = Written("client", <<Word("method")>>)
        /\ stage # "hello" => outbox' = outbox
    BY <1>0, <1>3, GoesOnEffect DEF Early, StageFits, GoesOn
  <2>2. Len(outbox'["client"]) <= 1 /\ outbox'["target"] = <<>>
    <3>1. CASE stage = "hello"
      <4>1. Word("method") \in Item /\ Len(outbox["client"]) = 0 /\ outbox["target"] = <<>>
        BY <2>1, <3>1, Words DEF BufferFits
      <4>2. Len(outbox["client"] \o <<Word("method")>>) = 1
        BY <1>0, <4>1, AddOne
      <4>3. /\ outbox'["target"] = outbox["target"]
            /\ outbox'["client"] = outbox["client"] \/ outbox'["client"] = outbox["client"] \o <<Word("method")>>
        <5>1. outbox' = Written("client", <<Word("method")>>)
          BY <2>1, <3>1
        <5> QED
          BY <1>0, <4>1, <5>1, WrittenOne
      <4> QED
        BY <4>1, <4>2, <4>3
    <3>2. CASE stage # "hello"
      BY <2>1, <3>2 DEF BufferFits
    <3> QED
      BY <3>1, <3>2
  <2>3. Len(outbox'["target"]) = 0
    BY <2>2, EmptySeq
  <2> QED
    BY <1>0, <2>1, <2>2, <2>3 DEF BufferFits, BoundedBuffer, End, Relayed
<1>4. CASE GivesUp
  <2>1. /\ Early /\ stage' \in {"finish", "done"} /\ UNCHANGED forwarder
        /\ Len(outbox'["client"]) <= Len(outbox["client"]) + 1 /\ outbox'["target"] = outbox["target"]
    BY <1>4, RefusalEffect DEF Early
  <2>2. /\ ~Relayed /\ Len(outbox["client"]) <= 1 /\ outbox["target"] = <<>>
        /\ forwarder["client"] = "none" /\ forwarder["target"] = "none"
    BY <1>0, <2>1 DEF StageFits, BufferFits
  <2>3. Len(outbox'["client"]) <= 2 /\ Len(outbox'["target"]) = 0
    BY <1>0, <2>1, <2>2, EmptySeq
  <2> QED
    BY <1>0, <2>1, <2>2, <2>3 DEF BufferFits, BoundedBuffer, End, Early
<1>5. CASE Connected
  <2>1. Len(outbox["client"]) <= 1 /\ outbox["target"] = <<>> /\ stage' = "relay"
    BY <1>5 DEF Connected, BufferFits, StageFits, Early
  <2>2. Len(outbox'["client"]) <= 2 /\ Len(outbox'["target"]) <= 1
    <3>1. Word("granted") \in Item /\ Word("request") \in Item /\ Len(<<Word("request")>>) = 1 /\ Len(<<>>) = 0
      BY Words, EmptySeq
    <3>2. Len(outbox["client"] \o <<Word("granted")>>) = Len(outbox["client"]) + 1
      BY <1>0, <3>1, AddOne
    <3>3. CASE kind = "GET"
      <4>1. outbox'["client"] = outbox["client"] /\ outbox'["target"] = <<Word("request")>>
        BY <1>0, <1>5, <3>3 DEF Connected
      <4> QED
        BY <1>0, <2>1, <3>1, <4>1
    <3>4. CASE kind # "GET"
      <4>1. outbox' = Written("client", <<Word("granted")>>)
        BY <1>5, <3>4 DEF Connected
      <4>2. /\ outbox'["target"] = outbox["target"]
            /\ outbox'["client"] = outbox["client"] \/ outbox'["client"] = outbox["client"] \o <<Word("granted")>>
        BY <1>0, <3>1, <4>1, WrittenOne
      <4> QED
        BY <1>0, <2>1, <3>1, <3>2, <4>2
    <3> QED
      BY <3>3, <3>4
  <2>3. Relayed' /\ ~Early'
    BY <1>5, ControlStep DEF Connected, StageFits, Early
  <2> QED
    BY <1>0, <2>2, <2>3 DEF BufferFits, BoundedBuffer, End, Other
<1>6. ASSUME NEW x \in End, Read(x)
      PROVE  BufferFits'
  <2>1. Other(x) \in End /\ Len(outbox[Other(x)]) <= Mark
    BY <1>6, Words DEF Read, BufferFits
  <2>2. Head(inbox[x]) \in Item
    BY <1>6, TakeFirst DEF Read, SessionTypeOK
  <2>3. Len(outbox[Other(x)] \o <<Head(inbox[x])>>) = Len(outbox[Other(x)]) + 1
    BY <1>0, <2>1, <2>2, AddOne
  <2>4. /\ \A z \in End : z # Other(x) => outbox'[z] = outbox[z]
        /\ \/ outbox'[Other(x)] = outbox[Other(x)]
           \/ outbox'[Other(x)] = outbox[Other(x)] \o <<Head(inbox[x])>>
    BY <1>6, <2>1, <2>2, WrittenOne DEF Read
  <2>5. Len(outbox'[Other(x)]) <= Mark + 1
    BY <1>0, <2>1, <2>3, <2>4
  <2>6. BoundedBuffer'
    BY <1>0, <2>4, <2>5 DEF BoundedBuffer
  <2>7. \A z \in End : forwarder'[z] = "read" => z # x /\ forwarder[z] = "read" /\ Other(z) # Other(x)
    BY <1>0, <1>6, Words DEF Read
  <2>8. Relayed' /\ ~Early'
    BY <1>0, <1>6 DEF Read, StageFits, Relayed, Early
  <2> QED
    BY <2>4, <2>6, <2>7, <2>8, Words DEF BufferFits
<1>7. ASSUME NEW x \in End, Drain(x)
      PROVE  BufferFits'
  <2>1. /\ UNCHANGED <<outbox, stage, conn>> /\ Len(outbox[Other(x)]) <= Mark
        /\ \A z \in End : z # x => forwarder'[z] = forwarder[z]
    BY <1>0, <1>7 DEF Drain
  <2> QED
    BY <2>1 DEF BufferFits, BoundedBuffer, Early, Relayed
<1>8. ASSUME NEW x \in End, ReadEnds(x) \/ DrainFails(x)
      PROVE  BufferFits'
  <2>1. EndLoop(x) /\ Other(x) \in End
    BY <1>8, Words DEF ReadEnds, DrainFails
  <2>2. /\ conn' = [conn EXCEPT ![Other(x)] = IF conn[Other(x)] = "open" THEN "closing" ELSE @]
        /\ forwarder' = [forwarder EXCEPT ![x] = "closing"] /\ UNCHANGED <<outbox, stage>>
    BY <2>1, CloseEffect DEF EndLoop
  <2>3. Relayed' = Relayed
    BY <1>0, <2>1, <2>2 DEF Relayed, SessionTypeOK
  <2> QED
    BY <1>0, <1>1, <2>2, <2>3 DEF Early
<1>9. ASSUME NEW x \in End, LoopEnds(x) \/ Flush(x)
      PROVE  BufferFits'
  <2>1. Relayed' = Relayed /\ UNCHANGED <<outbox, stage>>
    BY <1>0, <1>9 DEF LoopEnds, Flush, Relayed, SessionTypeOK
  <2>2. \A z \in End : forwarder'[z] = "read" => forwarder[z] = "read"
    BY <1>0, <1>9 DEF LoopEnds, Flush
  <2> QED
    BY <1>1, <2>1, <2>2 DEF Early
<1>10. CASE RelayEnds \/ WaitClosed
  BY <1>1, <1>10 DEF RelayEnds, WaitClosed, Early, Relayed
<1>11. CASE Collect
  <2>1. conn' = [conn EXCEPT !["client"] = IF conn["client"] = "open" THEN "closing" ELSE @]
        /\ UNCHANGED <<outbox, stage, forwarder>>
    BY <1>0, <1>11, CloseEffect DEF Collect
  <2>2. Relayed' = Relayed
    BY <1>0, <2>1 DEF Relayed, SessionTypeOK
  <2> QED
    BY <1>1, <2>1, <2>2 DEF Early
<1>12. ASSUME NEW x \in End, Reset(x)
       PROVE  BufferFits'
  <2>1. Relayed' = Relayed /\ UNCHANGED <<stage, forwarder>>
    BY <1>0, <1>12 DEF Reset, Relayed, SessionTypeOK
  <2>2. \A z \in End : outbox'[z] = outbox[z] \/ (Len(outbox'[z]) <= Len(outbox[z]) /\ outbox[z] # <<>>)
    <3>1. /\ \A z \in End : z # x => outbox'[z] = outbox[z]
          /\ outbox'[x] = <<>> /\ Len(<<>>) = 0
      BY <1>0, <1>12, EmptySeq DEF Reset
    <3>2. Len(outbox[x]) \in Nat
      BY <1>0
    <3>3. Len(outbox'[x]) <= Len(outbox[x])
      BY <3>1, <3>2
    <3> QED
      BY <3>1, <3>3
  <2> QED
    BY <1>1, <2>1, <2>2 DEF Early
<1>13. ASSUME NEW x \in End, Receive(x)
       PROVE  BufferFits'
  <2>1. Len(Tail(outbox[x])) <= Len(outbox[x]) /\ outbox[x] # <<>>
    BY <1>0, <1>13, TakeFirst DEF Receive
  <2>2. \A z \in End : outbox'[z] = outbox[z] \/ (Len(outbox'[z]) <= Len(outbox[z]) /\ outbox[z] # <<>>)
    BY <1>0, <1>13, <2>1 DEF Receive
  <2> QED
    BY <1>1, <1>13, <2>2 DEF Receive, Early, Relayed
<1>14. ASSUME NEW x \in End, Send(x) \/ Vanish(x) \/ \E how \in {"shut", "closed"} : Finish(x, how)
       PROVE  BufferFits'
  BY <1>1, <1>14 DEF Send, Vanish, Finish, proxy, Early, Relayed
<1> QED
  BY <1>2, <1>3, <1>4, <1>5, <1>6, <1>7, <1>8, <1>9, <1>10, <1>11, <1>12, <1>13, <1>14, Steps

(* What a transport buffers is bounded by its mark and one chunk. *)
THEOREM BuffersAreBounded == Spec => []BoundedBuffer
<1> DEFINE Inv == Control /\ BufferFits
<1>1. Init => Inv
  BY TypesInit, ControlInit, BufferInit DEF Control
<1>2. Inv /\ [Next]_vars => Inv'
  BY TypesStep, ControlStep, BufferStep DEF Control
<1>3. Inv => BoundedBuffer
  BY DEF BufferFits
<1> QED
  BY <1>1, <1>2, <1>3, PTL DEF Spec

------------------------------------------------------------------------------
(* A clean end is a complete one. *)
LEMMA RefusedStays ==
    ASSUME SessionTypeOK, StageFits, ForwarderFits, [Next]_vars, ~Refused'
    PROVE  ~Refused /\ ~GivesUp /\ ~Collect
<1>1. ~GivesUp
  <2>1. GivesUp => Relayed' = Relayed /\ Early /\ stage' \in {"finish", "done"}
    BY RefusalEffect DEF Early, Relayed, SessionTypeOK, End
  <2> QED
    BY <2>1 DEF StageFits, Refused
<1>2. ~Collect
  <2>1. Collect => ~Relayed /\ stage = "done"
    BY DEF Collect, StageFits, ForwarderFits, End, Other
  <2>2. Collect => Relayed' = Relayed /\ stage' = stage
    <3> SUFFICES ASSUME Collect PROVE Relayed' = Relayed /\ stage' = stage
      OBVIOUS
    <3>1. conn' = [conn EXCEPT !["client"] = IF conn["client"] = "open" THEN "closing" ELSE @]
      BY CloseEffect DEF Collect, End
    <3> QED
      BY <3>1 DEF Collect, Relayed, SessionTypeOK, End
  <2> QED
    BY <2>1, <2>2 DEF Refused
<1>3. ~Refused
  <2> SUFFICES ASSUME Refused PROVE FALSE
    OBVIOUS
  <2>1. stage \in {"finish", "done"} /\ ~Relayed /\ \A x \in End : forwarder[x] = "none"
    BY DEF Refused, StageFits
  <2>2. CASE UNCHANGED vars
    BY <2>1, <2>2 DEF vars, Refused, Relayed
  <2>3. CASE RelayEnds \/ WaitClosed
    BY <2>1, <2>3 DEF RelayEnds, WaitClosed, Refused, Relayed
  <2>4. ASSUME NEW x \in End, Flush(x) \/ Reset(x)
        PROVE  FALSE
    <3>1. stage' = stage /\ conn'["target"] = "none"
      BY <2>1, <2>4 DEF Flush, Reset, Relayed, SessionTypeOK, End
    <3> QED
      BY <2>1, <3>1 DEF Refused, Relayed
  <2>5. ASSUME NEW x \in End,
               Send(x) \/ Receive(x) \/ Vanish(x) \/ \E how \in {"shut", "closed"} : Finish(x, how)
        PROVE  FALSE
    BY <2>1, <2>5 DEF Send, Receive, Vanish, Finish, proxy, Refused, Relayed
  <2>6. ASSUME NEW x \in End, Read(x) \/ ReadEnds(x) \/ Drain(x) \/ DrainFails(x) \/ LoopEnds(x)
        PROVE  FALSE
    BY <2>1, <2>6 DEF Read, ReadEnds, Drain, DrainFails, LoopEnds
  <2>7. ~GoesOn
    BY <2>1, GoesOnEffect
  <2>8. ~Connected
    BY <2>1 DEF Connected
  <2> QED
    BY <1>1, <1>2, <2>2, <2>3, <2>4, <2>5, <2>6, <2>7, <2>8, Steps
<1> QED
  BY <1>1, <1>2, <1>3

LEMMA EofInit == Init => EofFits
<1>1. Len(<<>>) = 0
  BY EmptySeq
<1> QED
  BY <1>1 DEF Init, EofFits, AllThere, End

LEMMA EofStep ==
    ASSUME SessionTypeOK, StageFits, ForwarderFits, EofFits, [Next]_vars
    PROVE  EofFits'
<1> DEFINE E(x) == /\ conn[x] \in {"none", "open"} => AllThere(x)
                   /\ conn[x] \in {"none", "open", "closing"} /\ eof[x] => peer[x] # "open" /\ AllThere(x)
<1> SUFFICES ASSUME ~Refused', NEW x \in End PROVE E(x)'
  BY DEF EofFits
<1>0. /\ E(x) /\ ~GivesUp /\ ~Collect
      /\ inbox[x] \in Seq(Item) /\ Len(inbox[x]) \in Nat /\ taken[x] \in Nat /\ sent[x] \in Nat
      /\ "client" \in End /\ "target" \in End
  BY RefusedStays, LenProperties DEF EofFits, SessionTypeOK, End
\* what matters of x is as it was, or its connection is lost
<1>1. ASSUME conn'[x] \in {"lost", "broken"} \/ UNCHANGED <<conn[x], eof[x], peer[x]>>,
             UNCHANGED <<taken[x], inbox[x], sent[x]>>
      PROVE  E(x)'
  BY <1>0, <1>1 DEF AllThere
<1>2. CASE UNCHANGED vars
  BY <1>1, <1>2 DEF vars
<1>3. CASE GoesOn
  <2>1. /\ UNCHANGED <<conn, eof, peer, sent>> /\ inbox["client"] # <<>>
        /\ inbox' = [inbox EXCEPT !["client"] = Tail(@)] /\ taken' = [taken EXCEPT !["client"] = @ + 1]
    BY <1>3, GoesOnEffect DEF ends
  <2>2. CASE x = "client"
    <3>1. taken'[x] = taken[x] + 1 /\ inbox'[x] = Tail(inbox[x]) /\ inbox[x] # <<>>
      BY <1>0, <2>1, <2>2 DEF SessionTypeOK
    <3>2. Len(inbox'[x]) = Len(inbox[x]) - 1
      <4>1. Len(Tail(inbox[x])) = Len(inbox[x]) - 1
        BY <1>0, <3>1, TakeFirst
      <4> QED
        BY <3>1, <4>1
    <3>3. AllThere(x)' <=> AllThere(x)
      BY <1>0, <2>1, <3>1, <3>2 DEF AllThere
    <3> QED
      BY <1>0, <2>1, <3>3
  <2>3. CASE x # "client"
    BY <1>0, <1>1, <2>1, <2>3 DEF SessionTypeOK
  <2> QED
    BY <2>2, <2>3
<1>4. CASE Connected
  <2>1. /\ UNCHANGED <<eof, peer, taken, inbox, sent>>
        /\ conn' = [conn EXCEPT !["target"] = "open"] /\ conn["target"] = "none"
    BY <1>4 DEF Connected, ends, StageFits, Early, Relayed
  <2> QED
    BY <1>0, <2>1 DEF SessionTypeOK, AllThere
<1>5. CASE RelayEnds \/ WaitClosed
  BY <1>1, <1>5 DEF RelayEnds, WaitClosed, ends
<1>6. ASSUME NEW z \in End, Read(z)
      PROVE  E(x)'
  <2>1. UNCHANGED <<conn, eof, peer, sent>>
    BY <1>6 DEF Read, ends
  <2>2. CASE z = x
    <3>1. taken'[x] = taken[x] + 1 /\ inbox'[x] = Tail(inbox[x]) /\ inbox[x] # <<>>
      BY <1>0, <1>6, <2>2 DEF Read, SessionTypeOK
    <3>2. Len(inbox'[x]) = Len(inbox[x]) - 1
      <4>1. Len(Tail(inbox[x])) = Len(inbox[x]) - 1
        BY <1>0, <3>1, TakeFirst
      <4> QED
        BY <3>1, <4>1
    <3>3. AllThere(x)' <=> AllThere(x)
      BY <1>0, <2>1, <3>1, <3>2 DEF AllThere
    <3> QED
      BY <1>0, <2>1, <3>3
  <2>3. CASE z # x
    BY <1>1, <1>6, <2>1, <2>3 DEF Read, SessionTypeOK
  <2> QED
    BY <2>2, <2>3
<1>7. ASSUME NEW z \in End, ReadEnds(z) \/ DrainFails(z)
      PROVE  E(x)'
  <2>1. CloseWriter(Other(z)) /\ Other(z) \in End /\ UNCHANGED <<taken, sent, peer>>
    BY <1>7, Words DEF ReadEnds, DrainFails, EndLoop, ends
  <2>2. /\ conn' = [conn EXCEPT ![Other(z)] = IF conn[Other(z)] = "open" THEN "closing" ELSE @]
        /\ x # Other(z) => inbox'[x] = inbox[x] /\ eof'[x] = eof[x]
        /\ x = Other(z) /\ (conn[x] # "open" \/ eof'[x]) => inbox'[x] = inbox[x] /\ eof'[x] = eof[x]
    BY <2>1, CloseEffect
  <2>3. CASE x # Other(z) \/ conn[x] # "open"
    BY <1>1, <2>1, <2>2, <2>3 DEF SessionTypeOK
  <2>4. CASE x = Other(z) /\ conn[x] = "open"
    <3>1. conn'[x] = "closing"
      BY <2>1, <2>2, <2>4 DEF SessionTypeOK
    <3> QED
      BY <1>0, <2>1, <2>2, <2>4, <3>1 DEF AllThere
  <2> QED
    BY <2>3, <2>4
<1>8. ASSUME NEW z \in End, Drain(z) \/ LoopEnds(z) \/ Receive(z)
      PROVE  E(x)'
  BY <1>1, <1>8 DEF Drain, LoopEnds, Receive, ends
<1>9. ASSUME NEW z \in End, Flush(z) \/ Reset(z)
      PROVE  E(x)'
  <2>1. UNCHANGED <<taken, inbox, sent, peer>>
    BY <1>9 DEF Flush, Reset, ends
  <2>2. conn'[x] \in {"lost", "broken"} \/ UNCHANGED <<conn[x], eof[x]>>
    BY <1>9 DEF Flush, Reset, SessionTypeOK
  <2> QED
    BY <1>1, <2>1, <2>2
<1>10. ASSUME NEW z \in End, Send(z)
       PROVE  E(x)'
  <2>1. UNCHANGED <<conn, eof, peer, taken>> /\ peer[z] = "open" /\ conn[z] # "none"
    BY <1>10 DEF Send
  <2>2. CASE z = x /\ conn[x] = "open"
    <3>1. Chunk(x, sent[x] + 1) \in Item
      BY <1>0, Words
    <3>2. sent'[x] = sent[x] + 1 /\ Len(inbox'[x]) = Len(inbox[x]) + 1
      BY <1>0, <1>10, <2>2, <3>1, AppendProperties DEF Send, SessionTypeOK
    <3>3. AllThere(x)' <=> AllThere(x)
      BY <1>0, <2>1, <3>2 DEF AllThere
    <3> QED
      BY <1>0, <2>1, <3>3
  <2>3. CASE z = x /\ conn[x] # "open"
    BY <1>0, <2>1, <2>3
  <2>4. CASE z # x
    BY <1>1, <1>10, <2>1, <2>4 DEF Send, SessionTypeOK
  <2> QED
    BY <2>2, <2>3, <2>4
<1>11. ASSUME NEW z \in End, NEW how \in {"shut", "closed"}, Finish(z, how)
       PROVE  E(x)'
  <2>1. UNCHANGED <<conn, taken, inbox, sent>>
    BY <1>11 DEF Finish
  <2>2. CASE z = x
    <3>1. peer'[x] # "open" /\ eof'[x] = (eof[x] \/ conn[x] = "open") /\ conn[x] # "none"
      BY <1>11, <2>2 DEF Finish, SessionTypeOK
    <3>2. AllThere(x)' <=> AllThere(x)
      BY <2>1 DEF AllThere
    <3> QED
      BY <1>0, <2>1, <3>1, <3>2
  <2>3. CASE z # x
    BY <1>1, <1>11, <2>1, <2>3 DEF Finish, SessionTypeOK
  <2> QED
    BY <2>2, <2>3
<1>12. ASSUME NEW z \in End, Vanish(z)
       PROVE  E(x)'
  <2>1. UNCHANGED <<conn, eof, taken, inbox, sent>> /\ (peer'[x] = "open" => peer[x] = "open")
    BY <1>12 DEF Vanish, proxy, SessionTypeOK
  <2> QED
    BY <1>0, <2>1 DEF AllThere
<1> QED
  BY <1>0, <1>2, <1>3, <1>4, <1>5, <1>6, <1>7, <1>8, <1>9, <1>10, <1>11, <1>12, Steps

(* What no step of an end's forwarder and of the end itself takes back. *)
LEMMA Progress ==
    ASSUME SessionTypeOK, StageFits, ForwarderFits, [Next]_vars, NEW x \in End
    PROVE  /\ Ended(x)' => Ended(x) \/ ReadEnds(x) \/ DrainFails(x)
           /\ forwarder'[x] \in {"read", "drain"} => forwarder[x] \in {"read", "drain"} \/ Connected
           /\ conn[x] = "broken" => conn'[x] = "broken"
           /\ peer'[x] = "open" => peer[x] = "open"
           /\ Ended(x) /\ AtFin(x) => AtFin(x)'
<1> DEFINE P == /\ Ended(x)' => Ended(x) \/ ReadEnds(x) \/ DrainFails(x)
                /\ forwarder'[x] \in {"read", "drain"} => forwarder[x] \in {"read", "drain"} \/ Connected
                /\ conn[x] = "broken" => conn'[x] = "broken"
                /\ peer'[x] = "open" => peer[x] = "open"
                /\ Ended(x) /\ AtFin(x) => AtFin(x)'
<1> SUFFICES P
  OBVIOUS
<1>0. /\ "client" \in End /\ "target" \in End
      /\ Ended(x) => Relayed /\ stage \in {"relay", "done"}
  BY DEF SessionTypeOK, StageFits, Ended, Early, End
\* a step that leaves the forwarder, the end and what was read of it alone
<1>1. ASSUME UNCHANGED <<forwarder, peer, sent>>, Ended(x) => UNCHANGED taken,
             conn[x] = "broken" => conn'[x] = "broken"
      PROVE  P
  BY <1>1 DEF Ended, AtFin
<1>2. CASE UNCHANGED vars
  BY <1>1, <1>2 DEF vars
<1>3. CASE GoesOn
  <2>1. UNCHANGED <<conn, forwarder, ends>> /\ Early
    BY <1>3, GoesOnEffect DEF Early
  <2> QED
    BY <1>0, <1>1, <2>1 DEF ends, Early
<1>4. CASE GivesUp
  <2>1. /\ conn' = [conn EXCEPT !["client"] = IF stage' = "finish" THEN "closing" ELSE @]
        /\ stage' = "finish" => conn["client"] = "open"
        /\ UNCHANGED <<forwarder, ends>> /\ Early
    BY <1>4, RefusalEffect DEF Early
  <2> QED
    BY <1>0, <1>1, <2>1 DEF ends, Early, SessionTypeOK
<1>5. CASE Connected
  BY <1>0, <1>5 DEF Connected, Ended, AtFin, ends, SessionTypeOK, StageFits, Early, Relayed
<1>6. CASE RelayEnds \/ WaitClosed
  BY <1>1, <1>6 DEF RelayEnds, WaitClosed, ends
<1>7. CASE Collect
  <2>1. conn' = [conn EXCEPT !["client"] = IF conn["client"] = "open" THEN "closing" ELSE @]
        /\ UNCHANGED <<forwarder, taken, ends>>
    BY <1>0, <1>7, CloseEffect DEF Collect
  <2> QED
    BY <1>0, <1>1, <2>1 DEF ends, SessionTypeOK
<1>8. ASSUME NEW z \in End, Read(z) \/ Drain(z)
      PROVE  P
  BY <1>8 DEF Read, Drain, Ended, AtFin, ends, SessionTypeOK
<1>9. ASSUME NEW z \in End, ReadEnds(z) \/ DrainFails(z)
      PROVE  P
  <2>1. EndLoop(z) /\ Other(z) \in End
    BY <1>9, Words DEF ReadEnds, DrainFails
  <2>2. /\ conn' = [conn EXCEPT ![Other(z)] = IF conn[Other(z)] = "open" THEN "closing" ELSE @]
        /\ forwarder' = [forwarder EXCEPT ![z] = "closing"] /\ UNCHANGED <<taken, ends>>
    BY <2>1, CloseEffect DEF EndLoop
  <2> QED
    BY <1>9, <2>1, <2>2 DEF Ended, AtFin, ends, SessionTypeOK
<1>10. ASSUME NEW z \in End, LoopEnds(z)
       PROVE  P
  BY <1>10 DEF LoopEnds, Ended, AtFin, ends, SessionTypeOK
<1>11. ASSUME NEW z \in End, Flush(z) \/ Reset(z) \/ Receive(z)
       PROVE  P
  BY <1>1, <1>11 DEF Flush, Reset, Receive, ends, SessionTypeOK
<1>12. ASSUME NEW z \in End, Send(z) \/ Vanish(z) \/ \E how \in {"shut", "closed"} : Finish(z, how)
       PROVE  P
  BY <1>12 DEF Send, Vanish, Finish, Ended, AtFin, proxy, SessionTypeOK
<1> QED
  BY <1>2, <1>3, <1>4, <1>5, <1>6, <1>7, <1>8, <1>9, <1>10, <1>11, <1>12, Steps

LEMMA CleanInit == Init => FirstEndsAtFin /\ CleanEndIsComplete
BY DEF Init, FirstEndsAtFin, CleanEndIsComplete, Ended, End

LEMMA CleanStep ==
    ASSUME SessionTypeOK, StageFits, ForwarderFits, EofFits, FirstEndsAtFin, CleanEndIsComplete,
           [Next]_vars
    PROVE  FirstEndsAtFin' /\ CleanEndIsComplete'
<1> SUFFICES ASSUME Unbroken', NEW x \in End, Ended(x)',
                    forwarder'[Other(x)] \in {"read", "drain"} \/ peer'[Other(x)] = "open"
             PROVE  AtFin(x)'
  BY Words DEF FirstEndsAtFin, CleanEndIsComplete, Unbroken, Ended, AtFin
<1>0. Other(x) \in End /\ Other(x) # x /\ Other(Other(x)) = x
  BY Words
<1>1. Unbroken
  BY Progress DEF Unbroken
<1>2. Ended(x) \/ ReadEnds(x) \/ DrainFails(x)
  BY Progress
<1>3. forwarder[Other(x)] \in {"read", "drain"} \/ peer[Other(x)] = "open"
  <2>1. ~Connected
    BY <1>0 DEF Connected, Ended
  <2> QED
    BY <1>0, <2>1, Progress
\* the forwarder had ended
<1>4. CASE Ended(x)
  <2>1. AtFin(x)
    BY <1>0, <1>1, <1>3, <1>4 DEF FirstEndsAtFin, CleanEndIsComplete, Unbroken, Ended, AtFin
  <2> QED
    BY <1>4, <2>1, Progress
\* it ends now: at EOF, since no connection is broken
<1>5. CASE ReadEnds(x) \/ DrainFails(x)
  <2>1. forwarder[x] = "read" /\ inbox[x] = <<>> /\ eof[x] /\ UNCHANGED <<taken, sent, peer>>
    BY <1>0, <1>1, <1>5 DEF ReadEnds, DrainFails, EndLoop, AtEof, Unbroken, ends
  <2>2. ~Refused
    BY <2>1 DEF Refused, StageFits
  \* the other forwarder is not ahead of it
  <2>3. forwarder[Other(x)] \in {"read", "drain"}
    <3>1. forwarder[Other(x)] \in {"read", "drain"} \/ Ended(Other(x))
      BY <1>0, <2>1 DEF StageFits, SessionTypeOK, Ended
    <3>2. Ended(Other(x)) => peer[Other(x)] # "open"
      BY <1>0, <1>1, <2>1 DEF FirstEndsAtFin, AtFin
    <3>3. Ended(Other(x)) => forwarder[Other(x)] \notin {"read", "drain"}
      BY DEF Ended
    <3> QED
      BY <1>3, <3>1, <3>2, <3>3
  <2>4. conn[x] = "open"
    BY <1>0, <1>1, <2>3 DEF ForwarderFits, Unbroken
  <2>5. peer[x] # "open" /\ taken[x] + Len(inbox[x]) = sent[x]
    BY <2>1, <2>2, <2>4 DEF EofFits, AllThere
  <2>6. Len(inbox[x]) = 0 /\ taken[x] \in Nat
    BY <2>1, EmptySeq DEF SessionTypeOK
  <2> QED
    BY <2>1, <2>5, <2>6 DEF AtFin
<1> QED
  BY <1>2, <1>4, <1>5

(* Unless a connection breaks, an end that has not ended itself is closed    *)
(* only after all of the other end's stream was read and written to it.      *)
THEOREM CleanEnds == Spec => []CleanEndIsComplete
<1> DEFINE Inv == Control /\ EofFits /\ FirstEndsAtFin /\ CleanEndIsComplete
<1>1. Init => Inv
  BY TypesInit, ControlInit, EofInit, CleanInit DEF Control
<1>2. Inv /\ [Next]_vars => Inv'
  BY TypesStep, ControlStep, EofStep, CleanStep DEF Control
<1> QED
  BY <1>1, <1>2, PTL DEF Spec

------------------------------------------------------------------------------
(* Order: what is read of an end, written to it and received by it.          *)
LEMMA InboxInit == Init => InboxFits
<1>1. Len(<<>>) = 0
  BY EmptySeq
<1> QED
  BY <1>1 DEF Init, InboxFits, End

LEMMA InboxStep ==
    ASSUME SessionTypeOK, StageFits, ForwarderFits, EofFits, InboxFits, [Next]_vars
    PROVE  InboxFits'
<1> DEFINE I(x) == \A i \in 1..Len(inbox[x]) : inbox[x][i] = Chunk(x, taken[x] + i)
<1> SUFFICES ASSUME ~Refused', NEW x \in End PROVE I(x)'
  BY DEF InboxFits
<1>0. /\ I(x) /\ ~Refused /\ ~GivesUp /\ ~Collect
      /\ inbox[x] \in Seq(Item) /\ Len(inbox[x]) \in Nat /\ taken[x] \in Nat /\ sent[x] \in Nat
      /\ "client" \in End /\ "target" \in End
  BY RefusedStays, LenProperties DEF InboxFits, SessionTypeOK, End
<1>1. ASSUME UNCHANGED <<taken[x], inbox[x]>>
      PROVE  I(x)'
  BY <1>0, <1>1
\* one is read
<1>2. ASSUME inbox[x] # <<>>, inbox'[x] = Tail(inbox[x]), taken'[x] = taken[x] + 1
      PROVE  I(x)'
  <2>1. /\ Len(Tail(inbox[x])) = Len(inbox[x]) - 1
        /\ \A i \in 1..Len(Tail(inbox[x])) : Tail(inbox[x])[i] = inbox[x][i + 1]
    BY <1>0, <1>2, TakeFirst
  <2> SUFFICES ASSUME NEW i \in 1..Len(Tail(inbox[x])) PROVE Tail(inbox[x])[i] = Chunk(x, taken[x] + 1 + i)
    BY <1>2
  <2>2. i + 1 \in 1..Len(inbox[x]) /\ taken[x] + (i + 1) = taken[x] + 1 + i
    BY <1>0, <2>1
  <2>3. inbox[x][i + 1] = Chunk(x, taken[x] + (i + 1))
    BY <1>0, <2>2
  <2> QED
    BY <2>1, <2>2, <2>3
<1>3. CASE UNCHANGED vars
  BY <1>1, <1>3 DEF vars
<1>4. CASE GoesOn
  <2>1. /\ inbox["client"] # <<>>
        /\ inbox' = [inbox EXCEPT !["client"] = Tail(@)] /\ taken' = [taken EXCEPT !["client"] = @ + 1]
    BY <1>4, GoesOnEffect
  <2>2. CASE x = "client"
    BY <1>0, <1>2, <2>1, <2>2 DEF SessionTypeOK
  <2>3. CASE x # "client"
    BY <1>0, <1>1, <2>1, <2>3 DEF SessionTypeOK
  <2> QED
    BY <2>2, <2>3
<1>5. CASE Connected \/ RelayEnds \/ WaitClosed
  BY <1>1, <1>5 DEF Connected, RelayEnds, WaitClosed
<1>6. ASSUME NEW z \in End, Read(z)
      PROVE  I(x)'
  <2>1. CASE z = x
    BY <1>0, <1>2, <1>6, <2>1 DEF Read, SessionTypeOK
  <2>2. CASE z # x
    BY <1>1, <1>6, <2>2 DEF Read, SessionTypeOK
  <2> QED
    BY <2>1, <2>2
<1>7. ASSUME NEW z \in End, ReadEnds(z) \/ DrainFails(z)
      PROVE  I(x)'
  <2>1. CloseWriter(Other(z)) /\ Other(z) \in End /\ UNCHANGED taken
    BY <1>7, Words DEF ReadEnds, DrainFails, EndLoop
  <2>2. /\ Len(inbox'[x]) \in Nat /\ Len(inbox'[x]) <= Len(inbox[x])
        /\ \A i \in 1..Len(inbox'[x]) : inbox'[x][i] = inbox[x][i]
    BY <2>1, CloseEffect
  <2> QED
    BY <1>0, <2>1, <2>2
<1>8. ASSUME NEW z \in End,
             \/ Drain(z) \/ LoopEnds(z) \/ Flush(z) \/ Reset(z) \/ Receive(z) \/ Vanish(z)
             \/ \E how \in {"shut", "closed"} : Finish(z, how)
      PROVE  I(x)'
  BY <1>1, <1>8 DEF Drain, LoopEnds, Flush, Reset, Receive, Vanish, Finish, proxy
<1>9. ASSUME NEW z \in End, Send(z)
      PROVE  I(x)'
  <2>1. CASE z = x /\ conn[x] = "open"
    <3>1. /\ inbox'[x] = Append(inbox[x], Chunk(x, sent[x] + 1)) /\ taken' = taken
          /\ Chunk(x, sent[x] + 1) \in Item
      <4>1. inbox'[x] = Append(inbox[x], Chunk(x, sent[x] + 1)) /\ taken' = taken
        BY <1>9, <2>1 DEF Send, SessionTypeOK
      <4> QED
        BY <1>0, <4>1, Words
    <3>2. taken[x] + Len(inbox[x]) = sent[x]
      BY <1>0, <2>1 DEF EofFits, AllThere
    <3>3. /\ Len(inbox'[x]) = Len(inbox[x]) + 1
          /\ \A i \in 1..Len(inbox[x]) : inbox'[x][i] = inbox[x][i]
          /\ inbox'[x][Len(inbox[x]) + 1] = Chunk(x, sent[x] + 1)
      BY <1>0, <3>1, AppendProperties
    <3>4. ASSUME NEW i \in 1..Len(inbox'[x])
          PROVE  inbox'[x][i] = Chunk(x, taken[x] + i)
      <4>1. CASE i = Len(inbox[x]) + 1
        <5>1. taken[x] + i = sent[x] + 1
          BY <1>0, <3>2, <4>1
        <5> QED
          BY <3>3, <4>1, <5>1
      <4>2. CASE i # Len(inbox[x]) + 1
        <5>1. i \in 1..Len(inbox[x])
          BY <1>0, <3>3, <4>2
        <5> QED
          BY <1>0, <3>3, <5>1
      <4> QED
        BY <4>1, <4>2
    <3> QED
      BY <3>1, <3>4
  <2>2. CASE z # x \/ conn[x] # "open"
    BY <1>1, <1>9, <2>2 DEF Send, SessionTypeOK
  <2> QED
    BY <2>1, <2>2
<1> QED
  BY <1>0, <1>3, <1>4, <1>5, <1>6, <1>7, <1>8, <1>9, Steps

(* How much was read of an end, and written to the other. *)
LEMMA Prefaces ==
    ASSUME SessionTypeOK
    PROVE  /\ \A y \in End : Len(Preface(y)) \in Nat /\ Skipped(y) \in Nat
           /\ Len(Preface("client")) = IF kind = "SOCKS" THEN 2 ELSE IF kind = "CONNECT" THEN 1 ELSE 0
           /\ Len(Preface("target")) = IF kind = "GET" THEN 1 ELSE 0
           /\ kind \in AllKinds
           /\ Skipped("client") = Handshake /\ Skipped("target") = 0
           /\ Handshake \in Nat /\ Handshake >= 1 /\ (kind = "SOCKS" => Handshake = 2)
<1>1. kind \in {"SOCKS", "CONNECT", "GET"}
  BY KindsAssumption DEF SessionTypeOK, AllKinds
<1> QED
  BY <1>1 DEF Preface, Skipped, Handshake, End, AllKinds

LEMMA Lengths ==
    ASSUME NEW a, NEW b, NEW c, NEW d, Len(a) \in Nat, Len(b) \in Nat
    PROVE  /\ Len(c) = Len(a) /\ Len(d) = Len(b) + 1 => Len(c) + Len(d) = Len(a) + Len(b) + 1
           /\ Len(a) + (Len(b) + 1) = Len(a) + Len(b) + 1
           /\ Len(a) + Len(b) \in Nat
OBVIOUS

LEMMA LengthNext ==
    ASSUME NEW a, NEW c, Len(a) \in Nat, Len(c) = Len(a) + 1, NEW n \in Nat
    PROVE  Len(c) + n = Len(a) + (n + 1)
OBVIOUS

LEMMA PutEffect ==
    ASSUME SessionTypeOK, NEW y \in End
    PROVE  /\ Put(y) \in Nat
           /\ got'[y] = got[y] /\ outbox'[y] = outbox[y] => Put(y)' = Put(y)
           /\ got'[y] = got[y] /\ Len(outbox'[y]) = Len(outbox[y]) + 1 => Put(y)' = Put(y) + 1
           /\ Len(got'[y]) = Len(got[y]) + 1 /\ Len(outbox'[y]) = Len(outbox[y]) - 1 /\ outbox[y] # <<>>
                  => Put(y)' = Put(y)
<1>1. Len(got[y]) \in Nat /\ Len(outbox[y]) \in Nat
  BY LenProperties DEF SessionTypeOK
<1>2. Put(y) \in Nat
  <2>1. Len(got[y]) + Len(outbox[y]) \in Nat
    BY <1>1, Lengths, Zenon
  <2> QED
    BY <2>1 DEF Put
<1>3. ASSUME got'[y] = got[y], outbox'[y] = outbox[y]
      PROVE  Put(y)' = Put(y)
  BY <1>3 DEF Put
<1>4. ASSUME got'[y] = got[y], Len(outbox'[y]) = Len(outbox[y]) + 1
      PROVE  Put(y)' = Put(y) + 1
  <2>1. Len(got'[y]) = Len(got[y])
    BY <1>4
  <2>2. Len(got'[y]) + Len(outbox'[y]) = Len(got[y]) + Len(outbox[y]) + 1
    BY <1>1, <1>4, <2>1, Lengths, Zenon
  <2> QED
    BY <2>2 DEF Put
<1>5. ASSUME Len(got'[y]) = Len(got[y]) + 1, Len(outbox'[y]) = Len(outbox[y]) - 1, outbox[y] # <<>>
      PROVE  Put(y)' = Put(y)
  <2>1. Len(got'[y]) + Len(outbox'[y]) = Len(got[y]) + Len(outbox[y])
    <3>1. Len(outbox[y]) >= 1
      BY <1>5, TakeFirst DEF SessionTypeOK
    <3>2. Len(outbox[y]) = Len(outbox'[y]) + 1 /\ Len(outbox'[y]) \in Nat
      BY <1>1, <1>5, <3>1
    <3> QED
      <4> DEFINE a == got[y]
                 b == outbox[y]
                 c == got'[y]
                 d == outbox'[y]
      <4>1. Len(a) \in Nat /\ Len(d) \in Nat /\ Len(c) = Len(a) + 1 /\ Len(b) = Len(d) + 1
        BY <1>1, <1>5, <3>2
      <4> HIDE DEF a, b, c, d
      <4>2. Len(c) + Len(d) = Len(a) + Len(b)
        BY <4>1
      <4> QED
        BY <4>2 DEF a, b, c, d
  <2>2. Put(y)' = Len(got'[y]) + Len(outbox'[y]) /\ Put(y) = Len(got[y]) + Len(outbox[y])
    BY DEF Put
  <2> QED
    BY <2>1, <2>2, Zenon
<1> QED
  BY <1>2, <1>3, <1>4, <1>5

LEMMA CountInit == Init => TakenFits /\ PutFits
<1>1. Len(<<>>) = 0
  BY EmptySeq
<1> QED
  BY <1>1 DEF Init, TakenFits, PutFits, Put, Handshake, End, Relayed, Early

LEMMA CountStep ==
    ASSUME SessionTypeOK, StageFits, ForwarderFits, TakenFits, PutFits, [Next]_vars
    PROVE  TakenFits' /\ PutFits'
<1>0. /\ "client" \in End /\ "target" \in End
      /\ Other("client") = "target" /\ Other("target") = "client"
      /\ \A z \in End : outbox[z] \in Seq(Item) /\ Len(outbox[z]) \in Nat /\ got[z] \in Seq(Item)
                        /\ Len(got[z]) \in Nat /\ taken[z] \in Nat
      /\ \A z \in End : z = "client" \/ z = "target"
  BY Words, LenProperties DEF SessionTypeOK, End
\* nothing is read, and nothing written to an open connection
<1>1. ASSUME UNCHANGED <<kind, taken>>, Early' => Early /\ UNCHANGED stage, Relayed' = Relayed,
             \A z \in End : conn'[z] = "open" => conn[z] = "open" /\ Put(z)' = Put(z),
             ~Relayed => UNCHANGED <<got["target"], outbox["target"]>>,
             \A z \in End : conn'[z] = "broken" => outbox'[z] = <<>>
      PROVE  TakenFits' /\ PutFits'
  <2>1. TakenFits'
    BY <1>1 DEF TakenFits, Early, Handshake
  <2>2. PutFits'
    <3>1. Early' /\ conn'["client"] = "open" =>
              Put("client")' = IF stage' = "hello" \/ kind' # "SOCKS" THEN 0 ELSE 1
      BY <1>0, <1>1 DEF PutFits
    <3>2. ASSUME Relayed', NEW y \in End, conn'[y] = "open"
          PROVE  Put(y)' = Len(Preface(y))' + taken'[Other(y)] - Skipped(Other(y))'
      <4>1. Put(y) = Len(Preface(y)) + taken[Other(y)] - Skipped(Other(y))
        BY <1>1, <3>2 DEF PutFits
      <4>2. Len(Preface(y))' = Len(Preface(y)) /\ Skipped(Other(y))' = Skipped(Other(y))
        BY <1>1 DEF Preface, Skipped, Handshake
      <4> QED
        BY <1>1, <3>2, <4>1, <4>2
    <3> QED
      BY <1>1, <3>1, <3>2 DEF PutFits
  <2> QED
    BY <2>1, <2>2
<1>2. CASE UNCHANGED vars
  BY <1>1, <1>2 DEF vars, Early, Relayed, Put, PutFits
<1>3. CASE GoesOn
  <2>1. /\ Early /\ ~Relayed /\ UNCHANGED <<kind, conn, got>>
        /\ stage = IF stage' = "request" THEN "hello" ELSE "request"
        /\ taken' = [taken EXCEPT !["client"] = @ + 1] /\ stage' \in {"request", "connect"}
        /\ outbox' = IF stage = "hello" THEN Written("client", <<Word("method")>>) ELSE outbox
    BY <1>3, GoesOnEffect DEF Early, StageFits, ends, GoesOn
  <2>2. /\ taken'["client"] = taken["client"] + 1 /\ taken'["target"] = taken["target"]
        /\ Relayed' = Relayed
    BY <1>0, <2>1 DEF SessionTypeOK, Relayed
  <2>3. TakenFits'
    BY <1>0, <2>1, <2>2 DEF TakenFits, StageFits, Handshake
  <2>4. CASE stage = "hello"
    <3>1. stage' = "request" /\ kind = "SOCKS" /\ Word("method") \in Item
      BY <2>1, <2>4, Words DEF StageFits
    <3>2. outbox' = Written("client", <<Word("method")>>)
      BY <2>1, <2>4
    <3>3. /\ outbox'["target"] = outbox["target"]
          /\ conn["client"] = "open" => Len(outbox'["client"]) = Len(outbox["client"]) + 1
          /\ conn["client"] # "open" => outbox'["client"] = outbox["client"]
      BY <1>0, <3>1, <3>2, WriteEffect
    <3>4. conn'["client"] = "open" => Put("client")' = 1
      <4>1. conn["client"] = "open" => Put("client") = 0
        BY <2>1, <2>4 DEF PutFits
      <4>2. conn["client"] = "open" => Put("client")' = Put("client") + 1
        BY <1>0, <2>1, <3>3, PutEffect
      <4> QED
        BY <2>1, <4>1, <4>2
    <3>5. UNCHANGED <<got["target"], outbox["target"]>>
      BY <2>1, <3>3
    <3>6. \A y \in End : conn'[y] = "broken" => outbox'[y] = <<>>
      BY <1>0, <2>1, <3>3 DEF PutFits
    <3> QED
      BY <2>1, <2>2, <2>3, <3>1, <3>4, <3>5, <3>6 DEF PutFits
  <2>5. CASE stage # "hello"
    BY <2>1, <2>2, <2>3, <2>5 DEF PutFits, Put, Early
  <2> QED
    BY <2>4, <2>5
<1>4. CASE GivesUp
  <2>1. /\ Early /\ stage' \in {"finish", "done"}
        /\ conn' = [conn EXCEPT !["client"] = IF stage' = "finish" THEN "closing" ELSE @]
        /\ taken'["target"] = taken["target"] /\ outbox'["target"] = outbox["target"]
        /\ conn["client"] = "broken" => outbox' = outbox
        /\ stage' = "finish" => conn["client"] = "open"
        /\ UNCHANGED <<kind, got>>
    BY <1>4, RefusalEffect DEF Early, ends
  <2>2. ~Early' /\ ~Relayed /\ ~Relayed' /\ conn'["target"] = "none"
        /\ (conn'["client"] = "broken" => conn["client"] = "broken")
    BY <1>0, <2>1 DEF SessionTypeOK, StageFits, Early, Relayed
  <2> QED
    BY <1>0, <2>1, <2>2 DEF TakenFits, PutFits, Put, Early
<1>5. CASE Connected
  <2>1. /\ Early /\ ~Relayed /\ stage = "connect" /\ stage' = "relay" /\ UNCHANGED <<kind, taken, got>>
        /\ conn' = [conn EXCEPT !["target"] = "open"]
        /\ taken["client"] = Handshake /\ taken["target"] = 0
        /\ got["target"] = <<>> /\ outbox["target"] = <<>>
        /\ conn["client"] = "open" => Put("client") = IF kind # "SOCKS" THEN 0 ELSE 1
    BY <1>5 DEF Connected, StageFits, Early, TakenFits, PutFits, ends
  <2>2. /\ conn'["target"] = "open" /\ conn'["client"] = conn["client"] /\ ~Early' /\ Relayed'
        /\ stage' \notin {"hello", "request", "connect"}
    BY <1>0, <2>1 DEF SessionTypeOK, Early, Relayed
  <2>3. TakenFits'
    BY <2>1, <2>2, Prefaces DEF TakenFits, Handshake
  <2>4. /\ Preface("client")' = Preface("client") /\ Preface("target")' = Preface("target")
        /\ Skipped("client")' = Skipped("client") /\ Skipped("target")' = Skipped("target")
    BY <2>1 DEF Preface, Skipped, Handshake
  <2>5. /\ conn["client"] = "broken" => outbox'["client"] = <<>>
        /\ conn["client"] = "open" => Put("client")' = Len(Preface("client"))
        /\ Put("target")' = Len(Preface("target"))
    <3>1. /\ Word("granted") \in Item /\ Len(<<Word("request")>>) = 1 /\ Len(<<>>) = 0
          /\ got'["client"] = got["client"] /\ got'["target"] = <<>>
      BY <1>0, <2>1, Words
    <3>2. conn["client"] = "broken" => outbox["client"] = <<>>
      BY <1>0 DEF PutFits
    <3>3. CASE kind = "GET"
      <4>1. outbox'["client"] = outbox["client"] /\ outbox'["target"] = <<Word("request")>>
        BY <1>0, <1>5, <3>3 DEF Connected, SessionTypeOK
      <4>2. Len(Preface("client")) = 0 /\ Len(Preface("target")) = 1
        BY <3>3, Prefaces
      <4>3. conn["client"] = "open" => Put("client")' = 0
        BY <1>0, <2>1, <3>1, <3>3, <4>1, PutEffect
      <4>4. Put("target")' = 1
        BY <3>1, <4>1 DEF Put
      <4> QED
        BY <3>2, <4>1, <4>2, <4>3, <4>4
    <3>4. CASE kind # "GET"
      <4>1. outbox' = Written("client", <<Word("granted")>>)
        BY <1>5, <3>4 DEF Connected
      <4>2. /\ outbox'["target"] = <<>>
            /\ conn["client"] = "open" => Len(outbox'["client"]) = Len(outbox["client"]) + 1
            /\ conn["client"] # "open" => outbox'["client"] = outbox["client"]
        BY <1>0, <2>1, <3>1, <4>1, WriteEffect
      <4>3. kind \in {"SOCKS", "CONNECT"}
        BY <3>4, Prefaces DEF AllKinds
      <4>4. Len(Preface("target")) = 0 /\ Len(Preface("client")) = IF kind = "SOCKS" THEN 2 ELSE 1
        BY <4>3, Prefaces
      <4>5. conn["client"] = "open" => Put("client")' = Put("client") + 1
        BY <1>0, <3>1, <4>2, PutEffect
      <4>6. Put("target")' = 0
        BY <3>1, <4>2 DEF Put
      <4>7. conn["client"] = "open" => Put("client")' = Len(Preface("client"))
        <5>1. conn["client"] = "open" => Put("client") = IF kind # "SOCKS" THEN 0 ELSE 1
          BY <2>1
        <5>2. ASSUME conn["client"] = "open", kind = "SOCKS"
              PROVE  Put("client")' = Len(Preface("client"))
          <6>1. Put("client") = 1 /\ Put("client")' = Put("client") + 1
            BY <4>5, <5>1, <5>2
          <6>2. Put("client")' = 2
            BY <6>1
          <6> QED
            BY <4>4, <5>2, <6>2
        <5>3. ASSUME conn["client"] = "open", kind # "SOCKS"
              PROVE  Put("client")' = Len(Preface("client"))
          <6>1. Put("client") = 0 /\ Put("client")' = Put("client") + 1
            BY <4>5, <5>1, <5>3
          <6>2. Put("client")' = 1
            BY <6>1
          <6> QED
            BY <4>4, <5>3, <6>2
        <5> QED
          BY <5>2, <5>3
      <4> QED
        BY <3>2, <4>2, <4>4, <4>6, <4>7
    <3> QED
      BY <3>3, <3>4
  <2>6. \A y \in End : conn'[y] = "open" =>
            Put(y)' = Len(Preface(y))' + taken'[Other(y)] - Skipped(Other(y))'
    BY <1>0, <2>1, <2>2, <2>4, <2>5, Prefaces
  <2>7. \A y \in End : conn'[y] = "broken" => outbox'[y] = <<>>
    BY <1>0, <2>2, <2>5
  <2> QED
    BY <2>2, <2>3, <2>6, <2>7 DEF PutFits
<1>6. ASSUME NEW x \in End, Read(x)
      PROVE  TakenFits' /\ PutFits'
  <2>1. /\ inbox[x] # <<>> /\ Other(x) \in End /\ Head(inbox[x]) \in Item
        /\ taken' = [taken EXCEPT ![x] = @ + 1] /\ UNCHANGED <<kind, stage, conn, got>>
        /\ Relayed /\ ~Early
    BY <1>0, <1>6, Words, TakeFirst DEF Read, ends, StageFits, SessionTypeOK
  <2>2. Relayed' /\ ~Early'
    BY <2>1 DEF Relayed, Early
  <2>3. taken'[x] = taken[x] + 1 /\ \A z \in End : z # x => taken'[z] = taken[z]
    BY <1>0, <2>1 DEF SessionTypeOK
  <2>4. TakenFits'
    BY <1>0, <2>1, <2>2, <2>3, Prefaces DEF TakenFits, Handshake, Early
  <2>5. outbox' = Written(Other(x), <<Head(inbox[x])>>)
    BY <1>6 DEF Read
  <2>6. /\ \A z \in End : z # Other(x) => outbox'[z] = outbox[z]
        /\ conn[Other(x)] = "open" => Len(outbox'[Other(x)]) = Len(outbox[Other(x)]) + 1
        /\ conn[Other(x)] # "open" => outbox'[Other(x)] = outbox[Other(x)]
    BY <2>1, <2>5, WriteEffect
  <2>7. ASSUME NEW y \in End, conn'[y] = "open"
        PROVE  Put(y)' = Len(Preface(y))' + taken'[Other(y)] - Skipped(Other(y))'
    <3>1. Put(y) = Len(Preface(y)) + taken[Other(y)] - Skipped(Other(y)) /\ conn[y] = "open"
      BY <2>1, <2>7 DEF PutFits
    <3>2. Len(Preface(y))' = Len(Preface(y)) /\ Skipped(Other(y))' = Skipped(Other(y))
      BY <2>1 DEF Preface, Skipped, Handshake
    <3>3. /\ Len(Preface(y)) \in Nat /\ Skipped(Other(y)) \in Nat /\ Other(y) \in End
          /\ taken[Other(y)] \in Nat /\ Put(y) \in Nat
      BY <1>0, Prefaces, PutEffect, Words
    <3>4. CASE y = Other(x)
      <4>1. Other(y) = x /\ Len(outbox'[y]) = Len(outbox[y]) + 1 /\ got'[y] = got[y]
        BY <2>1, <2>6, <3>1, <3>4, Words
      <4>2. Put(y)' = Put(y) + 1 /\ taken'[Other(y)] = taken[Other(y)] + 1
        BY <2>3, <4>1, PutEffect
      <4> QED
        BY <3>1, <3>2, <3>3, <4>2
    <3>5. CASE y # Other(x)
      <4>1. Other(y) # x /\ outbox'[y] = outbox[y] /\ got'[y] = got[y]
        BY <2>1, <2>6, <3>5, Words
      <4>2. Put(y)' = Put(y) /\ taken'[Other(y)] = taken[Other(y)]
        BY <2>3, <3>3, <4>1, PutEffect
      <4> QED
        BY <3>1, <3>2, <3>3, <4>2
    <3> QED
      BY <3>4, <3>5
  <2>8. \A y \in End : conn'[y] = "broken" => outbox'[y] = <<>>
    BY <2>1, <2>6 DEF PutFits
  <2> QED
    BY <2>2, <2>4, <2>7, <2>8 DEF PutFits
<1>7. ASSUME NEW x \in End, ReadEnds(x) \/ DrainFails(x)
      PROVE  TakenFits' /\ PutFits'
  <2>1. EndLoop(x) /\ Other(x) \in End
    BY <1>7, Words DEF ReadEnds, DrainFails
  <2>2. /\ conn' = [conn EXCEPT ![Other(x)] = IF conn[Other(x)] = "open" THEN "closing" ELSE @]
        /\ UNCHANGED <<kind, taken, outbox, stage, got>>
    BY <2>1, CloseEffect DEF EndLoop, ends
  <2>3. /\ Relayed' = Relayed
        /\ \A z \in End : /\ conn'[z] = "open" => conn[z] = "open"
                          /\ conn'[z] = "broken" => conn[z] = "broken"
    BY <1>0, <2>1, <2>2 DEF Relayed, SessionTypeOK
  <2> QED
    BY <1>1, <2>2, <2>3 DEF Early, Put, PutFits
<1>8. ASSUME NEW x \in End,
             \/ Drain(x) \/ LoopEnds(x) \/ Send(x) \/ Vanish(x)
             \/ \E how \in {"shut", "closed"} : Finish(x, how)
      PROVE  TakenFits' /\ PutFits'
  <2>1. UNCHANGED <<kind, taken, outbox, stage, got, conn>>
    BY <1>8 DEF Drain, LoopEnds, Send, Vanish, Finish, proxy, ends
  <2> QED
    BY <1>1, <2>1 DEF Early, Put, PutFits, Relayed
<1>9. ASSUME NEW x \in End, Flush(x) \/ Reset(x)
      PROVE  TakenFits' /\ PutFits'
  <2>1. /\ UNCHANGED <<kind, taken, stage, got>> /\ Relayed' = Relayed /\ conn[x] # "none"
        /\ conn'[x] # "open" /\ \A z \in End : z # x => conn'[z] = conn[z] /\ outbox'[z] = outbox[z]
        /\ conn'[x] = "broken" => outbox'[x] = <<>>
    <3>1. CASE Flush(x)
      BY <1>0, <3>1 DEF Flush, ends, Relayed, SessionTypeOK
    <3>2. CASE Reset(x)
      <4>1. /\ UNCHANGED <<kind, taken, stage, got>> /\ conn[x] # "none" /\ outbox'[x] = <<>>
            /\ conn'[x] = IF conn[x] = "lost" THEN conn[x] ELSE "broken"
            /\ \A z \in End : z # x => conn'[z] = conn[z] /\ outbox'[z] = outbox[z]
        BY <3>2 DEF Reset, ends, SessionTypeOK
      <4> QED
        BY <1>0, <4>1 DEF Relayed
    <3> QED
      BY <1>9, <3>1, <3>2
  <2> QED
    BY <1>0, <1>1, <2>1 DEF Early, Put, PutFits, Relayed
<1>10. CASE RelayEnds \/ WaitClosed
  <2>1. UNCHANGED <<kind, taken, outbox, got, conn>> /\ stage' = "done"
    BY <1>10 DEF RelayEnds, WaitClosed, ends
  <2> QED
    BY <1>1, <2>1 DEF Early, Put, PutFits, Relayed
<1>11. CASE Collect
  <2>1. conn' = [conn EXCEPT !["client"] = IF conn["client"] = "open" THEN "closing" ELSE @]
        /\ UNCHANGED <<kind, taken, outbox, stage, got>>
    BY <1>0, <1>11, CloseEffect DEF Collect, ends
  <2>2. /\ Relayed' = Relayed
        /\ \A z \in End : /\ conn'[z] = "open" => conn[z] = "open"
                          /\ conn'[z] = "broken" => conn[z] = "broken"
    BY <1>0, <2>1 DEF Relayed, SessionTypeOK
  <2> QED
    BY <1>1, <2>1, <2>2 DEF Early, Put, PutFits
<1>12. ASSUME NEW x \in End, Receive(x)
       PROVE  TakenFits' /\ PutFits'
  <2>1. /\ outbox[x] # <<>> /\ UNCHANGED <<kind, taken, stage, conn>>
        /\ got'[x] = Append(got[x], Head(outbox[x])) /\ outbox'[x] = Tail(outbox[x])
        /\ \A z \in End : z # x => got'[z] = got[z] /\ outbox'[z] = outbox[z]
    BY <1>12 DEF Receive, SessionTypeOK
  <2>2. Len(Tail(outbox[x])) = Len(outbox[x]) - 1 /\ Head(outbox[x]) \in Item
    BY <1>0, <2>1, TakeFirst
  <2>3. Len(Append(got[x], Head(outbox[x]))) = Len(got[x]) + 1
    BY <1>0, <2>2, AppendProperties
  <2>4. \A z \in End : Put(z)' = Put(z)
    <3>1. Len(got'[x]) = Len(got[x]) + 1 /\ Len(outbox'[x]) = Len(outbox[x]) - 1
      BY <2>1, <2>2, <2>3
    <3>2. Put(x)' = Put(x)
      BY <2>1, <3>1, PutEffect
    <3> QED
      BY <2>1, <3>2 DEF Put
  <2>5. conn[x] # "broken" /\ (~Relayed => x # "target")
    BY <2>1 DEF PutFits
  <2> QED
    BY <1>0, <1>1, <2>1, <2>4, <2>5 DEF Early, Relayed, PutFits
<1> QED
  BY <1>2, <1>3, <1>4, <1>5, <1>6, <1>7, <1>8, <1>9, <1>10, <1>11, <1>12, Steps

(* What an end is to receive, word by word and chunk by chunk. *)
LEMMA ExpectedItems ==
    ASSUME SessionTypeOK
    PROVE  /\ kind = "SOCKS" => /\ Expected("client", 1) = Word("method")
                                /\ Expected("client", 2) = Word("granted")
           /\ kind = "CONNECT" => Expected("client", 1) = Word("granted")
           /\ kind = "GET" => Expected("target", 1) = Word("request")
           /\ \A y \in End, n \in Nat :
                  n >= 1 => Expected(y, Len(Preface(y)) + n) = Chunk(Other(y), Skipped(Other(y)) + n)
<1>1. /\ kind = "SOCKS" => /\ Len(Preface("client")) = 2
                            /\ Preface("client")[1] = "method" /\ Preface("client")[2] = "granted"
      /\ kind = "CONNECT" => Len(Preface("client")) = 1 /\ Preface("client")[1] = "granted"
      /\ kind = "GET" => Len(Preface("target")) = 1 /\ Preface("target")[1] = "request"
  BY DEF Preface
<1>2. ASSUME NEW y \in End, NEW n \in Nat, n >= 1
      PROVE  Expected(y, Len(Preface(y)) + n) = Chunk(Other(y), Skipped(Other(y)) + n)
  <2>1. Len(Preface(y)) \in Nat /\ Skipped(Other(y)) \in Nat
    BY Prefaces, Words
  <2>2. /\ ~(Len(Preface(y)) + n <= Len(Preface(y)))
        /\ Skipped(Other(y)) + (Len(Preface(y)) + n) - Len(Preface(y)) = Skipped(Other(y)) + n
    BY <1>2, <2>1
  <2> QED
    BY <2>2 DEF Expected
<1>3. /\ kind = "SOCKS" => Expected("client", 1) = Word("method") /\ Expected("client", 2) = Word("granted")
      /\ kind = "CONNECT" => Expected("client", 1) = Word("granted")
      /\ kind = "GET" => Expected("target", 1) = Word("request")
  BY <1>1 DEF Expected
<1> QED
  BY <1>2, <1>3

LEMMA OutboxInit == Init => OutboxFits
<1>1. Len(<<>>) = 0
  BY EmptySeq
<1> QED
  BY <1>1 DEF Init, OutboxFits, Continues

LEMMA OutboxStep ==
    ASSUME SessionTypeOK, StageFits, ForwarderFits, InboxFits, TakenFits, PutFits, OutboxFits, [Next]_vars
    PROVE  OutboxFits'
<1> SUFFICES ASSUME ~Refused', NEW y \in End PROVE Continues(y)'
  BY DEF OutboxFits
<1>0. /\ Continues(y) /\ ~Refused /\ ~GivesUp /\ ~Collect
      /\ outbox[y] \in Seq(Item) /\ got[y] \in Seq(Item)
      /\ Len(got[y]) \in Nat /\ Len(outbox[y]) \in Nat /\ Put(y) \in Nat
      /\ "client" \in End /\ "target" \in End
  BY RefusedStays, PutEffect, LenProperties DEF OutboxFits, SessionTypeOK, End
\* nothing is written to y, nor received; it may be lost
<1>1. ASSUME UNCHANGED <<kind, got[y]>>, outbox'[y] = outbox[y] \/ outbox'[y] = <<>>
      PROVE  Continues(y)'
  <2>1. Len(<<>>) = 0
    BY EmptySeq
  <2>2. /\ \A j \in 1..Len(got'[y]) : got'[y][j] = Expected(y, j)
        /\ \A j \in 1..Len(outbox'[y]) : outbox'[y][j] = Expected(y, Len(got'[y]) + j)
    BY <1>0, <1>1, <2>1 DEF Continues
  <2> QED
    BY <1>1, <2>2 DEF Continues, Expected, Preface, Skipped, Handshake
\* one more is written to y
<1>2. ASSUME NEW e \in Item, outbox'[y] = outbox[y] \o <<e>>, e = Expected(y, Put(y) + 1),
             UNCHANGED <<kind, got[y]>>
      PROVE  Continues(y)'
  <2>1. /\ Len(outbox[y] \o <<e>>) = Len(outbox[y]) + 1
        /\ \A j \in 1..Len(outbox[y]) : (outbox[y] \o <<e>>)[j] = outbox[y][j]
        /\ (outbox[y] \o <<e>>)[Len(outbox[y]) + 1] = e
    BY <1>0, AddOne
  <2>2. ASSUME NEW j \in 1..Len(outbox[y] \o <<e>>)
        PROVE  (outbox[y] \o <<e>>)[j] = Expected(y, Len(got[y]) + j)
    <3>1. CASE j = Len(outbox[y]) + 1
      <4>1. Len(got[y]) + j = Put(y) + 1
        <5>1. Len(got[y]) + (Len(outbox[y]) + 1) = Len(got[y]) + Len(outbox[y]) + 1
          BY <1>0, Lengths, Zenon
        <5> QED
          BY <3>1, <5>1 DEF Put
      <4> QED
        BY <1>2, <2>1, <3>1, <4>1
    <3>2. CASE j # Len(outbox[y]) + 1
      <4>1. j \in 1..Len(outbox[y])
        BY <1>0, <2>1, <3>2
      <4> QED
        BY <1>0, <2>1, <4>1 DEF Continues
    <3> QED
      BY <3>1, <3>2
  <2>3. /\ \A j \in 1..Len(got'[y]) : got'[y][j] = Expected(y, j)
        /\ \A j \in 1..Len(outbox'[y]) : outbox'[y][j] = Expected(y, Len(got'[y]) + j)
    BY <1>0, <1>2, <2>2 DEF Continues
  <2> QED
    BY <1>2, <2>3 DEF Continues, Expected, Preface, Skipped, Handshake
<1>3. CASE UNCHANGED vars
  BY <1>1, <1>3 DEF vars
<1>4. CASE GoesOn
  <2>1. /\ Early /\ UNCHANGED <<kind, got>> /\ conn["client"] # "broken"
        /\ outbox' = IF stage = "hello" THEN Written("client", <<Word("method")>>) ELSE outbox
    BY <1>4, GoesOnEffect DEF Early, ends
  <2>2. CASE stage = "hello" /\ y = "client"
    <3>1. outbox' = Written("client", <<Word("method")>>) /\ Word("method") \in Item
      BY <2>1, <2>2, Words
    <3>2. conn["client"] = "open" /\ kind = "SOCKS"
      BY <2>1, <2>2 DEF StageFits
    <3>3. Put("client") = 0
      BY <2>1, <2>2, <3>2 DEF PutFits
    <3>4. Word("method") = Expected(y, Put(y) + 1)
      BY <2>2, <3>2, <3>3, ExpectedItems
    <3>5. outbox'[y] = outbox[y] \o <<Word("method")>>
      BY <2>2, <3>1, <3>2, WriteEffect
    <3> QED
      BY <1>2, <2>1, <3>1, <3>4, <3>5
  <2>3. CASE stage = "hello" /\ y # "client"
    <3>1. outbox' = Written("client", <<Word("method")>>) /\ Word("method") \in Item
      BY <2>1, <2>3, Words
    <3>2. outbox'[y] = outbox[y]
      BY <1>0, <2>3, <3>1, WriteEffect
    <3> QED
      BY <1>1, <2>1, <3>2
  <2>4. CASE stage # "hello"
    BY <1>1, <2>1, <2>4
  <2> QED
    BY <2>2, <2>3, <2>4
<1>5. CASE Connected
  <2>1. /\ Early /\ ~Relayed /\ stage = "connect" /\ UNCHANGED <<kind, got>>
        /\ got["target"] = <<>> /\ outbox["target"] = <<>>
        /\ conn["client"] = "open" => Put("client") = IF kind # "SOCKS" THEN 0 ELSE 1
    BY <1>5 DEF Connected, StageFits, Early, PutFits, ends
  <2>2. Word("granted") \in Item /\ Word("request") \in Item
    BY Words
  <2>3. CASE kind = "GET"
    <3>1. outbox' = [outbox EXCEPT !["target"] = <<Word("request")>>]
      BY <1>5, <2>3 DEF Connected
    <3>2. CASE y = "target"
      <4>1. outbox'[y] = <<Word("request")>> /\ got'[y] = <<>> /\ Len(<<>>) = 0
            /\ Len(<<Word("request")>>) = 1 /\ <<Word("request")>>[1] = Word("request")
        BY <1>0, <2>1, <3>1, <3>2 DEF SessionTypeOK
      <4>2. Expected(y, 1) = Word("request")
        BY <2>3, <3>2, ExpectedItems
      <4>3. /\ \A j \in 1..Len(got'[y]) : got'[y][j] = Expected(y, j)
            /\ \A j \in 1..Len(outbox'[y]) : outbox'[y][j] = Expected(y, Len(got'[y]) + j)
        BY <4>1, <4>2
      <4> QED
        BY <2>1, <4>3 DEF Continues, Expected, Preface, Skipped, Handshake
    <3>3. CASE y # "target"
      BY <1>0, <1>1, <2>1, <3>1, <3>3 DEF SessionTypeOK
    <3> QED
      BY <3>2, <3>3
  <2>4. CASE kind # "GET"
    <3>1. outbox' = Written("client", <<Word("granted")>>)
      BY <1>5, <2>4 DEF Connected
    <3>2. CASE y = "client" /\ conn["client"] = "open"
      <4>1. kind \in {"SOCKS", "CONNECT"}
        BY <2>4, Prefaces DEF AllKinds
      <4>2. Put(y) = IF kind = "SOCKS" THEN 1 ELSE 0
        BY <2>1, <3>2, <4>1
      <4>3. Word("granted") = Expected(y, Put(y) + 1)
        <5>1. CASE kind = "SOCKS"
          BY <3>2, <4>2, <5>1, ExpectedItems
        <5>2. CASE kind = "CONNECT"
          BY <3>2, <4>2, <5>2, ExpectedItems
        <5> QED
          BY <4>1, <5>1, <5>2
      <4>4. outbox'[y] = outbox[y] \o <<Word("granted")>>
        BY <2>2, <3>1, <3>2, WriteEffect
      <4> QED
        BY <1>2, <2>1, <2>2, <4>3, <4>4
    <3>3. CASE y # "client" \/ conn["client"] # "open"
      <4>1. outbox'[y] = outbox[y]
        BY <1>0, <2>2, <3>1, <3>3, WriteEffect
      <4> QED
        BY <1>1, <2>1, <4>1
    <3> QED
      BY <3>2, <3>3
  <2> QED
    BY <2>3, <2>4
<1>6. ASSUME NEW x \in End, Read(x)
      PROVE  Continues(y)'
  <2>1. /\ inbox[x] # <<>> /\ Other(x) \in End /\ Head(inbox[x]) \in Item
        /\ outbox' = Written(Other(x), <<Head(inbox[x])>>) /\ UNCHANGED <<kind, got>> /\ Relayed
    BY <1>0, <1>6, Words, TakeFirst DEF Read, ends, StageFits, SessionTypeOK
  <2>2. CASE y = Other(x) /\ conn[y] = "open"
    <3>1. outbox'[y] = outbox[y] \o <<Head(inbox[x])>>
      BY <2>1, <2>2, WriteEffect
    <3>2. Head(inbox[x]) = Chunk(x, taken[x] + 1)
      <4>1. inbox[x] \in Seq(Item) /\ Len(inbox[x]) \in Nat /\ Len(inbox[x]) >= 1
            /\ Head(inbox[x]) = inbox[x][1]
        BY <2>1, TakeFirst DEF SessionTypeOK
      <4>2. 1 \in 1..Len(inbox[x])
        BY <4>1
      <4> QED
        BY <1>0, <4>1, <4>2 DEF InboxFits
    <3>3. Other(y) = x /\ Put(y) = Len(Preface(y)) + taken[x] - Skipped(x)
      BY <2>1, <2>2, Words DEF PutFits
    <3>4. Len(Preface(y)) \in Nat /\ Skipped(x) \in Nat /\ taken[x] \in Nat /\ taken[x] >= Skipped(x)
      <4>1. \A z \in End : taken[z] \in Nat
        BY DEF SessionTypeOK
      <4> QED
        BY <2>1, <4>1, Prefaces, Words DEF TakenFits
    <3>5. PICK n \in Nat : n = taken[x] - Skipped(x) + 1
      BY <3>4
    <3>6. n >= 1 /\ Len(Preface(y)) + n = Put(y) + 1 /\ Skipped(x) + n = taken[x] + 1
      BY <3>3, <3>4, <3>5
    <3>7. Expected(y, Put(y) + 1) = Chunk(x, taken[x] + 1)
      BY <3>3, <3>6, ExpectedItems
    <3> QED
      BY <1>2, <2>1, <3>1, <3>2, <3>7
  <2>3. CASE y # Other(x) \/ conn[y] # "open"
    <3>1. outbox'[y] = outbox[y]
      BY <2>1, <2>3, WriteEffect
    <3> QED
      BY <1>1, <2>1, <3>1
  <2> QED
    BY <2>2, <2>3
<1>7. ASSUME NEW x \in End,
             \/ ReadEnds(x) \/ Drain(x) \/ DrainFails(x) \/ LoopEnds(x) \/ Flush(x) \/ Send(x)
             \/ Vanish(x) \/ \E how \in {"shut", "closed"} : Finish(x, how)
      PROVE  Continues(y)'
  <2>1. UNCHANGED <<kind, got, outbox>>
    BY <1>7 DEF ReadEnds, Drain, DrainFails, EndLoop, LoopEnds, Flush, Send, Vanish, Finish, proxy, ends
  <2> QED
    BY <1>1, <2>1
<1>8. ASSUME NEW x \in End, Reset(x)
      PROVE  Continues(y)'
  <2>1. UNCHANGED <<kind, got>> /\ (outbox'[y] = outbox[y] \/ outbox'[y] = <<>>)
    BY <1>8 DEF Reset, ends, SessionTypeOK
  <2> QED
    BY <1>1, <2>1
<1>9. CASE RelayEnds \/ WaitClosed
  BY <1>1, <1>9 DEF RelayEnds, WaitClosed, ends
<1>10. ASSUME NEW x \in End, Receive(x)
       PROVE  Continues(y)'
  <2>1. CASE x # y
    <3>1. UNCHANGED <<kind, got[y], outbox[y]>>
      BY <1>10, <2>1 DEF Receive, SessionTypeOK
    <3> QED
      BY <1>1, <3>1
  <2>2. CASE x = y
    <3>1. /\ outbox[y] # <<>> /\ UNCHANGED kind
          /\ got'[y] = Append(got[y], Head(outbox[y])) /\ outbox'[y] = Tail(outbox[y])
      BY <1>10, <2>2 DEF Receive, SessionTypeOK
    <3>2. /\ Len(outbox[y]) >= 1 /\ Head(outbox[y]) \in Item /\ Head(outbox[y]) = outbox[y][1]
          /\ Len(Tail(outbox[y])) = Len(outbox[y]) - 1
          /\ \A j \in 1..Len(Tail(outbox[y])) : Tail(outbox[y])[j] = outbox[y][j + 1]
      BY <1>0, <3>1, TakeFirst
    <3>3. /\ Len(Append(got[y], Head(outbox[y]))) = Len(got[y]) + 1
          /\ \A j \in 1..Len(got[y]) : Append(got[y], Head(outbox[y]))[j] = got[y][j]
          /\ Append(got[y], Head(outbox[y]))[Len(got[y]) + 1] = Head(outbox[y])
      BY <1>0, <3>2, AppendProperties
    <3>4. Head(outbox[y]) = Expected(y, Len(got[y]) + 1)
      <4>1. 1 \in 1..Len(outbox[y])
        BY <1>0, <3>2
      <4> QED
        BY <1>0, <3>2, <4>1 DEF Continues
    <3>5. ASSUME NEW j \in 1..Len(got'[y])
          PROVE  got'[y][j] = Expected(y, j)
      <4>1. CASE j = Len(got[y]) + 1
        BY <3>1, <3>3, <3>4, <4>1
      <4>2. CASE j # Len(got[y]) + 1
        <5>1. j \in 1..Len(got[y])
          BY <1>0, <3>1, <3>3, <4>2
        <5> QED
          BY <1>0, <3>1, <3>3, <5>1 DEF Continues
      <4> QED
        BY <4>1, <4>2
    <3>6. ASSUME NEW j \in 1..Len(outbox'[y])
          PROVE  outbox'[y][j] = Expected(y, Len(got'[y]) + j)
      <4>1. j + 1 \in 1..Len(outbox[y]) /\ j \in 1..Len(Tail(outbox[y]))
        <5>1. j \in 1..Len(Tail(outbox[y])) /\ Len(outbox[y]) \in Nat
          BY <1>0, <3>1
        <5>2. Len(Tail(outbox[y])) = Len(outbox[y]) - 1
          BY <3>2
        <5> QED
          BY <5>1, <5>2
      <4>2. outbox'[y][j] = Expected(y, Len(got[y]) + (j + 1))
        BY <1>0, <3>1, <3>2, <4>1 DEF Continues
      <4>3. Len(got'[y]) + j = Len(got[y]) + (j + 1)
        <5>1. Len(got'[y]) = Len(got[y]) + 1 /\ Len(got[y]) \in Nat /\ j \in Nat
          BY <1>0, <3>1, <3>3, <4>1
        <5> QED
          BY <5>1, LengthNext, Zenon
      <4> QED
        BY <4>2, <4>3
    <3> QED
      BY <3>1, <3>5, <3>6 DEF Continues, Expected, Preface, Skipped, Handshake
  <2> QED
    BY <2>1, <2>2
<1> QED
  BY <1>0, <1>3, <1>4, <1>5, <1>6, <1>7, <1>8, <1>9, <1>10, Steps

(* Whatever the amounts and the buffers, an end receives the proxy's words   *)
(* and then the other end's chunks, in order and without a gap.              *)
THEOREM Ordered == Spec => []InOrder
<1> DEFINE Inv == Control /\ Flow
<1>1. Init => Inv
  BY TypesInit, ControlInit, EofInit, InboxInit, CountInit, OutboxInit DEF Control, Flow
<1>2. Inv /\ [Next]_vars => Inv'
  BY TypesStep, ControlStep, EofStep, InboxStep, CountStep, OutboxStep DEF Control, Flow
<1>3. Inv => InOrder
  BY DEF Control, Flow, StageFits, OutboxFits, Continues, InOrder, Refused, Relayed
<1> QED
  BY <1>1, <1>2, <1>3, PTL DEF Spec

==============================================================================
