---------------------------- MODULE Request_proof ----------------------------
(***************************************************************************)
(* Proofs about Request: the race of connections (Connect), the mix of     *)
(* nameservers of its lookups (Resolution) and the relay (UdpRelay), for   *)
(* any number of nameservers, clients, targets and datagrams; and about    *)
(* the names that are looked up (Names): their order agrees with their     *)
(* digests, and a name reads back from its text, for any names.            *)
(***************************************************************************)
EXTENDS Request, Names, SequenceTheorems, FiniteSetTheorems, WellFoundedInduction, TLAPS

-----------------------------------------------------------------------------
(* Lists without repetitions.                                              *)

In(e, s) == \E i \in 1 .. Len(s) : s[i] = e
Distinct(s) == \A i, j \in 1 .. Len(s) : s[i] = s[j] => i = j

(* RemoveFirst takes the element out and leaves the others, each once.     *)
LEMMA Removed ==
    ASSUME NEW S, NEW s \in Seq(S), NEW e, In(e, s), Distinct(s)
    PROVE  LET r == RemoveFirst(s, e)
           IN  /\ r \in Seq(S) /\ Distinct(r) /\ ~In(e, r)
               /\ \A x : In(x, s) /\ x # e => In(x, r)
<1> DEFINE n == Len(s)
           r == RemoveFirst(s, e)
<1>1. PICK k \in 1 .. n : s[k] = e
  BY DEF In
<1>2. {i \in 1 .. n : s[i] = e} = {k}
  BY <1>1 DEF Distinct
<1>3. Min({k}) = k
  <2>1. k \in Int /\ k =< k
    BY <1>1
  <2> QED
    BY <2>1 DEF Min
<1>4. SelectInSeq(s, LAMBDA v : v = e) = k
  BY <1>2, <1>3 DEF SelectInSeq
<1>5. r = SubSeq(s, 1, k - 1) \o SubSeq(s, k + 1, n)
  BY <1>1, <1>4 DEF RemoveFirst, RemoveAt
<1> DEFINE a == SubSeq(s, 1, k - 1)
           b == SubSeq(s, k + 1, n)
<1>0. n \in Nat /\ k \in Nat /\ k >= 1 /\ k <= n
  BY <1>1
<1>6. a \in Seq(S) /\ Len(a) = k - 1 /\ \A i \in 1 .. k - 1 : a[i] = s[i]
  <2>1. \A i \in 1 .. k - 1 : s[i] \in S
    BY <1>0, ElementOfSeq
  <2> QED
    BY <1>0, <2>1, SubSeqProperties
<1>7. b \in Seq(S) /\ Len(b) = n - k /\ \A i \in 1 .. n - k : b[i] = s[i + k]
  <2>1. \A i \in k + 1 .. n : s[i] \in S
    BY <1>0, ElementOfSeq
  <2> QED
    BY <1>0, <2>1, SubSeqProperties
<1> HIDE DEF a, b, n
<1>8. r \in Seq(S) /\ Len(r) = n - 1
  <2>1. a \o b \in Seq(S) /\ Len(a \o b) = Len(a) + Len(b)
    BY <1>6, <1>7, ConcatProperties
  <2>2. r = a \o b
    BY <1>5 DEF a, b, n
  <2>3. Len(a) + Len(b) = n - 1
    BY <1>0, <1>6, <1>7
  <2> HIDE DEF r
  <2> QED
    BY <2>1, <2>2, <2>3, Zenon
<1>9. \A i \in 1 .. n - 1 : r[i] = IF i < k THEN s[i] ELSE s[i + 1]
  <2> SUFFICES ASSUME NEW i \in 1 .. n - 1 PROVE r[i] = IF i < k THEN s[i] ELSE s[i + 1]
    OBVIOUS
  <2>1. r = a \o b
    BY <1>5 DEF a, b, n
  <2>2. (a \o b)[i] = IF i <= Len(a) THEN a[i] ELSE b[i - Len(a)]
    BY <1>0, <1>6, <1>7, ConcatProperties
  <2>3. CASE i < k
    BY <2>1, <2>2, <2>3, <1>0, <1>6
  <2>4. CASE i >= k
    <3>1. i - (k - 1) \in 1 .. n - k /\ (i - (k - 1)) + k = i + 1
      BY <2>4, <1>0
    <3> QED
      BY <2>1, <2>2, <2>4, <3>1, <1>0, <1>6, <1>7
  <2> QED
    BY <2>3, <2>4, <1>0
<1> HIDE DEF r
<1>10. \A i \in 1 .. n - 1 :
          /\ i < k => i \in 1 .. n /\ i # k
          /\ ~(i < k) => i + 1 \in 1 .. n /\ i + 1 # k
  BY <1>0
<1>11. Distinct(r)
  <2> SUFFICES ASSUME NEW i \in 1 .. n - 1, NEW j \in 1 .. n - 1, r[i] = r[j] PROVE i = j
    BY <1>8 DEF Distinct
  <2> QED
    BY <1>0, <1>9, <1>10 DEF Distinct, n
<1>12. ~In(e, r)
  <2> SUFFICES ASSUME NEW i \in 1 .. n - 1, r[i] = e PROVE FALSE
    BY <1>8 DEF In
  <2> QED
    BY <1>1, <1>0, <1>9, <1>10 DEF Distinct, n
<1>13. ASSUME NEW x, In(x, s), x # e PROVE In(x, r)
  <2>1. PICK i \in 1 .. n : s[i] = x
    BY <1>13 DEF In, n
  <2>2. i # k
    BY <2>1, <1>1, <1>13
  <2>3. CASE i < k
    BY <2>1, <2>3, <1>0, <1>8, <1>9 DEF In
  <2>4. CASE i > k
    <3>1. i - 1 \in 1 .. n - 1 /\ ~(i - 1 < k) /\ (i - 1) + 1 = i
      BY <2>4, <1>0
    <3> QED
      BY <2>1, <3>1, <1>8, <1>9 DEF In
  <2> QED
    BY <2>2, <2>3, <2>4, <1>0
<1> QED
  BY <1>8, <1>11, <1>12, <1>13 DEF r

(* The first element of such a list is not in the rest of it.              *)
LEMMA Taken ==
    ASSUME NEW S, NEW s \in Seq(S), s # <<>>, Distinct(s)
    PROVE  /\ Tail(s) \in Seq(S) /\ Distinct(Tail(s)) /\ In(Head(s), s)
           /\ ~In(Head(s), Tail(s))
           /\ \A x : In(x, Tail(s)) => In(x, s)
<1> DEFINE t == Tail(s)
<1>1. Len(s) \in Nat /\ Len(s) >= 1 /\ Head(s) = s[1]
  BY EmptySeq, LenProperties
<1>2. t \in Seq(S) /\ Len(t) = Len(s) - 1 /\ \A i \in 1 .. Len(t) : t[i] = s[i + 1]
  BY HeadTailProperties
<1> HIDE DEF t
<1>3. \A i \in 1 .. Len(t) : i + 1 \in 1 .. Len(s) /\ i + 1 # 1 /\ i \in Int
  BY <1>1, <1>2
<1>4. 1 \in 1 .. Len(s)
  BY <1>1
<1>5. Distinct(t)
  BY <1>2, <1>3 DEF Distinct
<1>6. ~In(Head(s), t)
  BY <1>1, <1>2, <1>3, <1>4 DEF Distinct, In
<1> QED
  BY <1>1, <1>2, <1>3, <1>4, <1>5, <1>6 DEF In, t

-----------------------------------------------------------------------------
(* The mix of nameservers.                                                 *)

Place == {"idle", "next", "done", "sleep"} \cup Asking

MixType ==
    /\ nameservers \in Seq(Nameserver)
    /\ at \in [Lookup -> Place]
    /\ listed \in [Lookup -> Seq(Nameserver)]
    /\ current \in [Lookup -> Seq(Nameserver)]
    /\ server \in [Lookup -> Nameserver \cup {None}]
    /\ tcpNext \in [Lookup -> BOOLEAN]

(* Whoever is being asked, or will be once more by TCP or after a sleep,   *)
(* is in the mix and not among those left in this round, who all are in    *)
(* the mix.                                                                *)
Engaged(l) == at[l] \in Asking \cup {"sleep"} \/ (at[l] = "next" /\ tcpNext[l])

MixOf(l) ==
    /\ Distinct(listed[l]) /\ Distinct(current[l])
    /\ \A x : In(x, current[l]) => In(x, listed[l])
    /\ Engaged(l) => In(server[l], listed[l]) /\ ~In(server[l], current[l])
    /\ at[l] = "idle" => ~tcpNext[l]

Mix == MixType /\ Distinct(nameservers) /\ \A l \in Lookup : MixOf(l)

mixvars == <<nameservers, at, listed, current, server, tcpNext>>

(* The end of an exchange, from wherever one is asked.                     *)
LEMMA ResultKeepsMix ==
    ASSUME Mix, NEW l \in Lookup, NEW verdict, at[l] \in Asking, QueryResult(l, verdict)
    PROVE  Mix'
<1> DEFINE s == listed[l]
           e == server[l]
<1>1. s \in Seq(Nameserver) /\ Distinct(s) /\ In(e, s) /\ ~In(e, current[l])
  BY DEF Mix, MixType, MixOf, Engaged
<1>2. /\ RemoveFirst(s, e) \in Seq(Nameserver) /\ Distinct(RemoveFirst(s, e))
      /\ \A x : In(x, s) /\ x # e => In(x, RemoveFirst(s, e))
  BY <1>1, Removed
<1>3. /\ nameservers' = nameservers /\ current' = current /\ server' = server
      /\ listed' = [listed EXCEPT ![l] = IF verdict = "unusable" THEN RemoveFirst(s, e) ELSE s]
      /\ tcpNext' = [tcpNext EXCEPT ![l] = (verdict = "Truncated")]
  BY DEF QueryResult
<1>4. at' = [at EXCEPT ![l] = IF verdict \in Result THEN "done" ELSE "next"]
  BY DEF QueryResult, Finish
<1>5. MixType'
  <2>1. listed' \in [Lookup -> Seq(Nameserver)]
    BY <1>1, <1>2, <1>3 DEF Mix, MixType
  <2>2. at' \in [Lookup -> Place]
    BY <1>4 DEF Mix, MixType, Place
  <2>3. tcpNext' \in [Lookup -> BOOLEAN]
    BY <1>3 DEF Mix, MixType
  <2> QED
    BY <2>1, <2>2, <2>3, <1>3 DEF Mix, MixType
<1>6. ASSUME NEW m \in Lookup, m # l PROVE MixOf(m)'
  <2>1. /\ listed'[m] = listed[m] /\ current'[m] = current[m] /\ server'[m] = server[m]
        /\ tcpNext'[m] = tcpNext[m] /\ at'[m] = at[m]
    BY <1>3, <1>4, <1>6 DEF Mix, MixType
  <2> QED
    BY <2>1, <1>6 DEF Mix, MixOf, Engaged
<1>7. MixOf(l)'
  <2>1. at'[l] \in {"done", "next"} /\ current'[l] = current[l] /\ server'[l] = e
    BY <1>3, <1>4 DEF Mix, MixType
  <2>2. tcpNext'[l] = (verdict = "Truncated")
    BY <1>3 DEF Mix, MixType
  <2>3. CASE verdict = "unusable"
    <3>1. listed'[l] = RemoveFirst(s, e) /\ ~tcpNext'[l]
      BY <2>2, <2>3, <1>3 DEF Mix, MixType
    <3>2. ~Engaged(l)'
      BY <2>1, <3>1 DEF Engaged, Asking
    <3>3. \A x : In(x, current[l]) => In(x, listed'[l])
      BY <1>1, <1>2, <3>1 DEF Mix, MixOf
    <3> QED
      BY <2>1, <3>1, <3>2, <3>3, <1>2 DEF Mix, MixOf
  <2>4. CASE verdict # "unusable"
    <3>1. listed'[l] = s
      BY <2>4, <1>3 DEF Mix, MixType
    <3> QED
      BY <2>1, <3>1, <1>1 DEF Mix, MixOf
  <2> QED
    BY <2>3, <2>4
<1> QED
  BY <1>3, <1>5, <1>6, <1>7 DEF Mix

(* A step that leaves the lists alone, and engages nobody new.             *)
LEMMA StandStillKeepsMix ==
    ASSUME Mix, NEW l \in Lookup, NEW p \in Place, NEW b \in BOOLEAN,
           at' = [at EXCEPT ![l] = p], tcpNext' = [tcpNext EXCEPT ![l] = b],
           UNCHANGED <<nameservers, listed, current, server>>,
           p # "idle", p \in Asking \cup {"sleep"} => Engaged(l), p = "next" => ~b
    PROVE  Mix'
<1>1. MixType'
  BY DEF Mix, MixType
<1>2. ASSUME NEW m \in Lookup PROVE MixOf(m)'
  <2>1. /\ at'[m] = IF m = l THEN p ELSE at[m]
        /\ tcpNext'[m] = IF m = l THEN b ELSE tcpNext[m]
    BY DEF Mix, MixType
  <2> QED
    BY <2>1 DEF Mix, MixOf, Engaged, Asking
<1> QED
  BY <1>1, <1>2 DEF Mix

(* A nameserver is taken off a list of those in the mix.                   *)
LEMMA TakingKeepsMix ==
    ASSUME Mix, NEW l \in Lookup, NEW s \in Seq(Nameserver), NEW p \in {"start", "sleep"},
           s # <<>>, Distinct(s), \A x : In(x, s) => In(x, listed[l]),
           at' = [at EXCEPT ![l] = p],
           server' = [server EXCEPT ![l] = Head(s)],
           current' = [current EXCEPT ![l] = Tail(s)],
           UNCHANGED <<nameservers, listed, tcpNext>>
    PROVE  Mix'
<1>1. /\ Tail(s) \in Seq(Nameserver) /\ Distinct(Tail(s)) /\ In(Head(s), s)
      /\ ~In(Head(s), Tail(s)) /\ \A x : In(x, Tail(s)) => In(x, s)
  BY Taken
<1>2. Head(s) \in Nameserver
  BY HeadTailProperties
<1>3. MixType'
  BY <1>1, <1>2 DEF Mix, MixType, Place, Asking
<1>4. ASSUME NEW m \in Lookup PROVE MixOf(m)'
  <2>1. /\ at'[m] = IF m = l THEN p ELSE at[m]
        /\ server'[m] = IF m = l THEN Head(s) ELSE server[m]
        /\ current'[m] = IF m = l THEN Tail(s) ELSE current[m]
        /\ listed'[m] = listed[m] /\ tcpNext'[m] = tcpNext[m]
    BY DEF Mix, MixType
  <2>2. CASE m = l
    BY <2>1, <2>2, <1>1 DEF Mix, MixOf
  <2>3. CASE m # l
    BY <2>1, <2>3 DEF Mix, MixOf, Engaged
  <2> QED
    BY <2>2, <2>3
<1> QED
  BY <1>3, <1>4 DEF Mix

LEMMA BeginningKeepsMix ==
    ASSUME Mix, NEW l \in Lookup, Request(l)
    PROVE  Mix'
<1>1. MixType'
  BY DEF Mix, MixType, Request, Place
<1>2. ASSUME NEW m \in Lookup PROVE MixOf(m)'
  <2>1. /\ at'[m] = IF m = l THEN "next" ELSE at[m]
        /\ listed'[m] = IF m = l THEN nameservers ELSE listed[m]
        /\ current'[m] = IF m = l THEN nameservers ELSE current[m]
        /\ server'[m] = server[m] /\ tcpNext'[m] = tcpNext[m]
    BY DEF Mix, MixType, Request
  <2> QED
    BY <2>1 DEF Mix, MixOf, Engaged, Asking, Request
<1> QED
  BY <1>1, <1>2 DEF Mix, Request

LEMMA LookupKeepsMix ==
    ASSUME Mix, NEW l \in Lookup, Request(l) \/ LookupRuns(l) \/ NetworkActs(l)
    PROVE  Mix'
<1>1. CASE Request(l)
  BY <1>1, BeginningKeepsMix
<1>2. CASE RetryWithTcp(l)
  <2>1. Engaged(l)
    BY <1>2 DEF RetryWithTcp, Engaged
  <2> QED
    BY <1>2, <2>1, StandStillKeepsMix DEF RetryWithTcp, Place, Asking
<1>3. CASE TakeNext(l)
  <2> DEFINE s == current[l]
  <2>1. s \in Seq(Nameserver) /\ s # <<>> /\ Distinct(s) /\ \A x : In(x, s) => In(x, listed[l])
    BY <1>3 DEF TakeNext, Mix, MixType, MixOf
  <2>2. /\ at' = [at EXCEPT ![l] = "start"] /\ server' = [server EXCEPT ![l] = Head(s)]
        /\ current' = [current EXCEPT ![l] = Tail(s)]
        /\ UNCHANGED <<nameservers, listed, tcpNext>>
    BY <1>3 DEF TakeNext
  <2> QED
    BY <2>1, <2>2, TakingKeepsMix
<1>4. CASE NextRound(l)
  <2> DEFINE s == listed[l]
  <2>1. s \in Seq(Nameserver) /\ s # <<>> /\ Distinct(s) /\ \A x : In(x, s) => In(x, listed[l])
    BY <1>4 DEF NextRound, Mix, MixType, MixOf
  <2>2. /\ at' = [at EXCEPT ![l] = "sleep"] /\ server' = [server EXCEPT ![l] = Head(s)]
        /\ current' = [current EXCEPT ![l] = Tail(s)]
        /\ UNCHANGED <<nameservers, listed, tcpNext>>
    BY <1>4 DEF NextRound
  <2> QED
    BY <2>1, <2>2, TakingKeepsMix
<1> DEFINE Moves(p) ==
      /\ at' = [at EXCEPT ![l] = p] /\ tcpNext' = tcpNext
      /\ UNCHANGED <<nameservers, listed, current, server>>
<1>5. ASSUME NEW p \in Asking \cup {"done"}, Moves(p), p \in Asking => Engaged(l)
      PROVE  Mix'
  <2>1. tcpNext[l] \in BOOLEAN /\ tcpNext' = [tcpNext EXCEPT ![l] = tcpNext[l]]
    BY <1>5 DEF Mix, MixType
  <2>2. p \in Place /\ p # "idle" /\ p # "next" /\ p # "sleep"
    BY DEF Place, Asking
  <2> QED
    BY <1>5, <2>1, <2>2, StandStillKeepsMix
<1>6. CASE OutOfNameservers(l) \/ LifetimeOver(l)
  <2>1. Moves("done")
    BY <1>6 DEF OutOfNameservers, LifetimeOver, Finish
  <2> QED
    BY <2>1, <1>5 DEF Asking
<1>7. CASE WakeUp(l) \/ Ask(l) \/ SendUdp(l) \/ Connected(l) \/ LengthRead(l) \/ PartRead(l)
  <2>1. Engaged(l)
    BY <1>7 DEF WakeUp, Ask, SendUdp, Connected, LengthRead, PartRead, Stream, Engaged, Asking
  <2>2. \E p \in Asking : Moves(p)
    <3>1. CASE WakeUp(l)
      <4>1. Moves("start") /\ "start" \in Asking
        BY <3>1 DEF WakeUp, Asking
      <4> QED
        BY <4>1
    <3>2. CASE Ask(l)
      <4> DEFINE p == IF tcp[l] THEN "connect" ELSE "socket"
      <4>1. Moves(p) /\ p \in Asking
        BY <3>2 DEF Ask, Asking
      <4> QED
        BY <4>1
    <3>3. CASE SendUdp(l)
      <4>1. Moves("udp") /\ "udp" \in Asking
        BY <3>3 DEF SendUdp, Asking
      <4> QED
        BY <4>1
    <3>4. CASE Connected(l) \/ LengthRead(l) \/ PartRead(l)
      <4>1. \E p \in {"length", "body"} : Moves(p)
        BY <3>4 DEF Connected, LengthRead, PartRead, Stream
      <4>2. {"length", "body"} \subseteq Asking
        BY DEF Asking
      <4> QED
        BY <4>1, <4>2
    <3> QED
      BY <1>7, <3>1, <3>2, <3>3, <3>4
  <2> QED
    BY <2>1, <2>2, <1>5
<1>8. CASE NoHttps(l) \/ TimedOut(l) \/ Broken(l) \/ ReceiveUdp(l) \/ ReceiveTcp(l)
  <2>1. at[l] \in Asking
    BY <1>8 DEF NoHttps, TimedOut, Broken, ReceiveUdp, ReceiveTcp, Asking, Waiting
  <2>2. \E verdict : QueryResult(l, verdict)
    BY <1>8 DEF NoHttps, TimedOut, Broken, ReceiveUdp, ReceiveTcp
  <2> QED
    BY <2>1, <2>2, ResultKeepsMix
<1> QED
  BY <1>1, <1>2, <1>3, <1>4, <1>6, <1>7, <1>8 DEF LookupRuns, NetworkActs

LEMMA ElseKeepsMix == Mix /\ UNCHANGED mixvars => Mix'
BY DEF Mix, MixType, MixOf, Engaged, mixvars

(* The configured lists have no repetitions, and no lookup has begun.      *)
LEMMA MixStarts == Init => Mix
<1> SUFFICES ASSUME Init PROVE Mix
  OBVIOUS
<1>1. PICK list \in Configured, hs \in SUBSET Fam :
         nameservers = Suitable(list, Source(list, hs))
  BY DEF Init, ConnectInit
<1>2. Source(list, hs) \in Fam \cup {None}
  BY DEF Source, Fam
<1>3. nameservers \in Seq(Nameserver) /\ IsInjective(nameservers)
  <2>1. CASE Source(list, hs) = None
    BY <1>1, <2>1, ConnectAssumption DEF Suitable
  <2>2. CASE Source(list, hs) \in Fam
    BY <1>1, <2>2, SuitableAssumption
  <2> QED
    BY <1>2, <2>1, <2>2
<1>4. Distinct(nameservers)
  <2>1. DOMAIN nameservers = 1 .. Len(nameservers)
    BY <1>3, LenProperties
  <2> QED
    BY <1>3, <2>1 DEF IsInjective, Distinct
<1>5. <<>> \in Seq(Nameserver) /\ Len(<<>>) = 0
  BY EmptySeq
<1>6. MixType
  BY <1>3, <1>5 DEF MixType, Init, ConnectInit, ResolutionInit, Place
<1>7. ASSUME NEW l \in Lookup PROVE MixOf(l)
  <2>1. /\ listed[l] = <<>> /\ current[l] = <<>> /\ at[l] = "idle" /\ ~tcpNext[l]
    BY DEF Init, ConnectInit, ResolutionInit
  <2> QED
    BY <2>1, <1>5 DEF MixOf, Distinct, In, Engaged, Asking
<1> QED
  BY <1>4, <1>6, <1>7 DEF Mix

LEMMA MixKept == Mix /\ [Next]_vars => Mix'
<1> SUFFICES ASSUME Mix, [Next]_vars PROVE Mix'
  OBVIOUS
<1>1. CASE command = "CONNECT" /\ ConnectNext
  <2>1. CASE \E l \in Lookup : Request(l) \/ LookupRuns(l) \/ NetworkActs(l)
    BY <2>1, LookupKeepsMix
  <2>2. CASE UNCHANGED resolutionvars
    BY <2>2, ElseKeepsMix DEF resolutionvars, lookupvars, mixvars
  <2>3. CASE Tick \/ Stall
    BY <2>3, ElseKeepsMix DEF Tick, Stall, lookupvars, mixvars
  <2> QED
    BY <1>1, <2>1, <2>2, <2>3 DEF ConnectNext, CodeActs, ResolveAddress, ResolveDomain,
       Gathered, Unresolved, StartConnecting, SecondAttempt, AllFailed, ConnectTimedOut,
       ConnectionMade, ConnectionFails, AttemptFails, TimePasses, Done, tcpvars
<1>2. CASE UNCHANGED connectonly
  BY <1>2, ElseKeepsMix DEF connectonly, resolutionvars, lookupvars, mixvars
<1> QED
  BY <1>1, <1>2 DEF Next, vars

(* A nameserver that is asked is still in the mix, however the answers,    *)
(* errors, rounds and timeouts of a lookup follow each other: the removal  *)
(* of a nameserver never raises.                                           *)
THEOREM AskedIsListed == Spec => []RemovesListed
<1>1. Mix => RemovesListed
  <2> SUFFICES ASSUME Mix, NEW l \in Lookup, at[l] \in Asking
               PROVE  \E i \in DOMAIN listed[l] : listed[l][i] = server[l]
    BY DEF RemovesListed
  <2>1. In(server[l], listed[l]) /\ listed[l] \in Seq(Nameserver)
    BY DEF Mix, MixType, MixOf, Engaged
  <2>2. DOMAIN listed[l] = 1 .. Len(listed[l])
    BY <2>1, LenProperties
  <2> QED
    BY <2>1, <2>2 DEF In
<1> QED
  BY <1>1, MixStarts, MixKept, PTL DEF Spec

-----------------------------------------------------------------------------
(* The race of connections.                                                *)

Stages == {"begin", "resolving", "resolved", "connecting", "connected", "failed"}
Attempts == {"idle", "connecting", "connected", "cancelled", "failed"}

Race ==
    /\ hosts \subseteq Fam /\ stage \in Stages /\ address \subseteq Fam
    /\ attempt \in [Fam -> Attempts]
    /\ \A f \in Fam : attempt[f] # "idle" => f \in address
    /\ \A f \in Fam : attempt[f] # "idle" => stage \in {"connecting", "connected", "failed"}
    /\ stage # "connecting" => \A f \in Fam : attempt[f] # "connecting"
    /\ stage # "connected" => \A f \in Fam : attempt[f] # "connected"
    /\ stage = "connected" =>
          \E f \in Fam : \A g \in Fam : attempt[g] = "connected" <=> g = f
    /\ turn # Never => stage = "connecting" /\ address = Fam

racevars == <<hosts, stage, address, attempt, turn>>

LEMMA RaceStarts == Init => Race
BY DEF Init, ConnectInit, Race, Stages, Attempts, Fam

LEMMA ResolvingKeepsRace ==
    ASSUME Race, ResolveAddress \/ ResolveDomain \/ Gathered \/ Unresolved
    PROVE  Race'
<1>1. Usable \subseteq Fam
  BY DEF Usable, Race
<1>2. CASE ResolveAddress
  BY <1>1, <1>2 DEF ResolveAddress, Race, Stages
<1>3. CASE ResolveDomain
  BY <1>3 DEF ResolveDomain, Race, Stages
<1>4. CASE Gathered
  BY <1>1, <1>4 DEF Gathered, Race, Stages
<1>5. CASE Unresolved
  BY <1>5 DEF Unresolved, Race, Stages
<1> QED
  BY <1>2, <1>3, <1>4, <1>5

LEMMA RacingKeepsRace ==
    ASSUME Race, StartConnecting \/ SecondAttempt \/ AllFailed
    PROVE  Race'
<1>1. CASE StartConnecting
  <2> DEFINE f == IF "v6" \in address THEN "v6" ELSE "v4"
  <2>1. f \in Fam /\ f \in address
    BY <1>1 DEF StartConnecting, Race, Fam
  <2>2. attempt' = [attempt EXCEPT ![f] = "connecting"] /\ stage' = "connecting"
    BY <1>1 DEF StartConnecting, Attempt
  <2>3. hosts' = hosts /\ address' = address /\ (turn' # Never => address = Fam)
    BY <1>1 DEF StartConnecting
  <2>4. \A g \in Fam : attempt[g] = "idle"
    BY <1>1 DEF StartConnecting, Race
  <2> HIDE DEF f
  <2> QED
    BY <2>1, <2>2, <2>3, <2>4 DEF Race, Stages, Attempts
<1>2. CASE SecondAttempt
  <2>1. attempt' = [attempt EXCEPT !["v4"] = "connecting"] /\ stage = "connecting"
    BY <1>2 DEF SecondAttempt, Attempt
  <2>2. /\ hosts' = hosts /\ stage' = stage /\ address' = address
        /\ address = Fam /\ turn' = Never
    BY <1>2 DEF SecondAttempt, Race
  <2>3. "v4" \in Fam
    BY DEF Fam
  <2> QED
    BY <2>1, <2>2, <2>3 DEF Race, Stages, Attempts
<1>3. CASE AllFailed
  BY <1>3 DEF AllFailed, Race, Stages
<1> QED
  BY <1>1, <1>2, <1>3

LEMMA AttemptsKeepRace ==
    ASSUME Race, NEW f \in Fam, ConnectionMade(f) \/ ConnectionFails(f) \/ ConnectTimedOut(f)
    PROVE  Race'
<1>1. /\ attempt[f] = "connecting" /\ stage = "connecting"
      /\ hosts' = hosts /\ address' = address
  BY DEF ConnectionMade, ConnectionFails, ConnectTimedOut, AttemptFails, Race
<1>2. CASE ConnectionMade(f)
  <2>1. /\ attempt' \in [Fam -> Attempts]
        /\ \A g \in Fam : attempt'[g] = IF g = f THEN "connected"
              ELSE IF attempt[g] = "connecting" THEN "cancelled" ELSE attempt[g]
    BY <1>2 DEF ConnectionMade, Race, Attempts
  <2>2. \A g \in Fam : attempt'[g] = "connected" <=> g = f
    BY <1>1, <2>1 DEF Race
  <2>3. stage' = "connected" /\ turn' = Never
    BY <1>2 DEF ConnectionMade
  <2> QED
    BY <1>1, <2>1, <2>2, <2>3 DEF Race, Stages
<1>3. CASE ConnectionFails(f) \/ ConnectTimedOut(f)
  <2>1. attempt' = [attempt EXCEPT ![f] = "failed"] /\ stage' = stage /\ turn' = turn
    BY <1>3 DEF ConnectionFails, ConnectTimedOut, AttemptFails
  <2> QED
    BY <1>1, <2>1 DEF Race, Attempts
<1> QED
  BY <1>2, <1>3

LEMMA RelayKeepsHosts == RelayNext => hosts' = hosts
BY DEF RelayNext, HandlerRuns, TaskRuns, EndpointMade, EndpointFails, ControlEnds, Closed,
   ClientLeaves, FromClient, FromTarget, Malformed, ToAddress, ToDomain, ToClient, Resolved

LEMMA RaceKept == Race /\ [Next]_vars => Race'
<1> SUFFICES ASSUME Race, [Next]_vars PROVE Race'
  OBVIOUS
<1>1. CASE UNCHANGED racevars
  BY <1>1 DEF Race, racevars
<1>2. CASE command = "CONNECT" /\ ConnectNext
  BY <1>1, <1>2, ResolvingKeepsRace, RacingKeepsRace, AttemptsKeepRace
     DEF ConnectNext, CodeActs, TimePasses, Done, Resolving, connectvars, tcpvars, racevars
<1>3. CASE command = "UDP ASSOCIATE" /\ RelayNext /\ UNCHANGED connectonly
  <2>1. hosts' = hosts
    BY <1>3, RelayKeepsHosts
  <2> QED
    BY <1>3, <2>1 DEF connectonly, Race
<1> QED
  BY <1>1, <1>2, <1>3 DEF Next, vars, connectonly, racevars

(* However attempts fail, time out and come too late, the race leaves one  *)
(* open connection when it is won and none when it is lost.                *)
THEOREM RaceHasOneWinner == Spec => []OneConnection
<1>1. Race => OneConnection
  <2> SUFFICES ASSUME Race PROVE OneConnection
    OBVIOUS
  <2> DEFINE won == {f \in Fam : attempt[f] = "connected"}
  <2>1. CASE stage = "connected"
    <3>1. PICK f \in Fam : \A g \in Fam : attempt[g] = "connected" <=> g = f
      BY <2>1 DEF Race
    <3>2. won = {f}
      BY <3>1
    <3>3. Cardinality(won) = 1
      BY <3>2, FS_Singleton
    <3> QED
      BY <2>1, <3>3 DEF OneConnection, Race
  <2>2. CASE stage # "connected"
    <3>1. won = {}
      BY <2>2 DEF Race
    <3>2. Cardinality(won) = 0
      BY <3>1, FS_EmptySet
    <3> QED
      BY <2>2, <3>2 DEF OneConnection, Race
  <2> QED
    BY <2>1, <2>2
<1> QED
  BY <1>1, RaceStarts, RaceKept, PTL DEF Spec

-----------------------------------------------------------------------------
(* The relay.                                                              *)

(* A datagram of a task, by where the task is.                             *)
TaskOK(t) ==
    /\ t.at \in {"client", "resolving"} => t.from \in Client
    /\ t.at = "target" => <<t.dest, t.from>> \in Route

SentTo(c, r) == \E s \in sent : s.client = c /\ s.route = r

(* Until the relay is closed, whoever an answer would go to has sent a     *)
(* datagram by that route; afterwards nothing is delivered.                *)
Relayed ==
    /\ connections \in [Route -> Client \cup {Nobody}]
    /\ \A t \in tasks : TaskOK(t)
    /\ handler # "done" => \A r \in Route : connections[r] # Nobody => SentTo(connections[r], r)
    /\ NoStrangers

relayvars == <<handler, connections, tasks, sent, delivered>>

LEMMA RelayStarts == Init => Relayed
BY DEF Init, RelayInit, Relayed, NoStrangers

LEMMA HandlerKeepsRelayed ==
    ASSUME Relayed, HandlerRuns \/ ClientLeaves
    PROVE  Relayed'
<1>1. UNCHANGED <<connections, tasks, sent, delivered>> /\ (handler = "done" => handler' = "done")
  BY DEF HandlerRuns, EndpointMade, EndpointFails, ControlEnds, Closed, ClientLeaves, datagrams
<1> QED
  BY <1>1 DEF Relayed, TaskOK, SentTo, NoStrangers

LEMMA ArrivalsKeepRelayed ==
    ASSUME Relayed,
           \/ \E c \in Client, dest \in Target \cup Domain \cup {"malformed"} : FromClient(c, dest)
           \/ \E r \in Route : FromTarget(r)
    PROVE  Relayed'
<1>1. UNCHANGED <<handler, connections, sent, delivered>>
  BY DEF FromClient, FromTarget
<1>2. \A t \in tasks' : TaskOK(t)
  <2>1. CASE \E c \in Client, dest \in Target \cup Domain \cup {"malformed"} : FromClient(c, dest)
    <3>1. PICK c \in Client, dest \in Target \cup Domain \cup {"malformed"} : FromClient(c, dest)
      BY <2>1
    <3> DEFINE u == [id |-> asked, from |-> c, dest |-> dest, at |-> "client"]
    <3>2. tasks' = tasks \cup {u}
      BY <3>1 DEF FromClient
    <3>3. TaskOK(u)
      BY DEF TaskOK
    <3> QED
      BY <3>2, <3>3 DEF Relayed
  <2>2. CASE \E r \in Route : FromTarget(r)
    <3>1. PICK r \in Route : FromTarget(r)
      BY <2>2
    <3> DEFINE u == [id |-> answered, from |-> r[2], dest |-> r[1], at |-> "target"]
    <3>2. tasks' = tasks \cup {u}
      BY <3>1 DEF FromTarget
    <3>3. <<u.dest, u.from>> \in Route
      BY DEF Route
    <3>4. TaskOK(u)
      BY <3>3 DEF TaskOK
    <3> QED
      BY <3>2, <3>4 DEF Relayed
  <2> QED
    BY <2>1, <2>2
<1> QED
  BY <1>1, <1>2 DEF Relayed, TaskOK, SentTo, NoStrangers

(* A datagram is sent and its sender put into the map, or neither.         *)
LEMMA SendKeepsRelayed ==
    ASSUME Relayed, NEW t \in tasks, t.at \in {"client", "resolving"}, NEW resolved,
           Forward(t, resolved), End(t), UNCHANGED <<handler, made, delivered>>
    PROVE  Relayed'
<1>1. t.from \in Client
  BY DEF Relayed, TaskOK
<1>2. tasks' \subseteq tasks /\ sent \subseteq sent'
  BY DEF End, Forward, Send
<1>3. NoStrangers'
  BY <1>2 DEF Relayed, NoStrangers
<1>4. CASE UNCHANGED <<connections, sent>>
  BY <1>2, <1>3, <1>4 DEF Relayed, TaskOK, SentTo
<1>5. CASE \E r \in Route : r[1] \in made /\ Send(t, r)
  <2>1. PICK r \in Route : r[1] \in made /\ Send(t, r)
    BY <1>5
  <2>2. connections' = [connections EXCEPT ![r] = t.from]
    BY <2>1 DEF Send
  <2>3. handler # "done" => [id |-> t.id, client |-> t.from, route |-> r] \in sent'
    BY <2>1 DEF Send, Open
  <2>4. handler # "done" => SentTo(t.from, r)'
    BY <2>3 DEF SentTo
  <2>5. connections \in [Route -> Client \cup {Nobody}]
    BY DEF Relayed
  <2>6. connections' \in [Route -> Client \cup {Nobody}]
    BY <1>1, <2>2, <2>5
  <2>7. ASSUME handler # "done", NEW q \in Route, connections'[q] # Nobody
        PROVE  SentTo(connections[q], q)' \/ q = r
    <3>1. CASE q # r
      <4>1. connections'[q] = connections[q]
        BY <3>1, <2>2, <2>5
      <4>2. SentTo(connections[q], q)
        BY <4>1, <2>7 DEF Relayed
      <4> QED
        BY <4>1, <4>2, <1>2 DEF SentTo
    <3> QED
      BY <3>1
  <2>8. connections'[r] = t.from
    BY <2>2, <2>5
  <2>9. handler' # "done" => \A q \in Route : connections'[q] # Nobody => SentTo(connections[q], q)'
    <3>1. handler # "done" => SentTo(connections[r], r)'
      BY <2>4, <2>8 DEF SentTo
    <3> QED
      BY <2>7, <3>1
  <2>10. \A x \in tasks' : TaskOK(x)'
    BY <1>2 DEF Relayed, TaskOK
  <2> QED
    BY <1>3, <2>6, <2>9, <2>10 DEF Relayed
<1> QED
  BY <1>4, <1>5 DEF Forward

LEMMA TasksKeepRelayed ==
    ASSUME Relayed, TaskRuns
    PROVE  Relayed'
<1>1. PICK t \in tasks :
        \/ Malformed(t) \/ ToAddress(t) \/ ToDomain(t) \/ ToClient(t)
        \/ \E resolved \in SUBSET Target : Resolved(t, resolved)
  BY DEF TaskRuns
<1>2. CASE Malformed(t)
  BY <1>2 DEF Malformed, End, Relayed, TaskOK, SentTo, NoStrangers
<1>3. CASE ToAddress(t)
  BY <1>3, SendKeepsRelayed DEF ToAddress
<1>4. CASE ToDomain(t)
  <2> DEFINE u == [t EXCEPT !.at = "resolving"]
  <2>1. tasks' = (tasks \ {t}) \cup {u} /\ t.at = "client"
    BY <1>4 DEF ToDomain
  <2>2. TaskOK(t)
    BY DEF Relayed
  <2>3. TaskOK(u)
    BY <2>1, <2>2 DEF TaskOK
  <2>4. \A x \in tasks' : TaskOK(x)
    BY <2>1, <2>3 DEF Relayed
  <2> QED
    BY <1>4, <2>4 DEF ToDomain, Relayed, TaskOK, SentTo, NoStrangers
<1>5. CASE ToClient(t)
  <2> DEFINE r == <<t.dest, t.from>>
  <2>1. t.at = "target" /\ tasks' \subseteq tasks /\ UNCHANGED <<handler, connections, sent>>
    BY <1>5 DEF ToClient, End
  <2>2. r \in Route
    BY <2>1 DEF Relayed, TaskOK
  <2>3. CASE delivered' = delivered
    BY <2>1, <2>3 DEF Relayed, TaskOK, SentTo, NoStrangers
  <2>4. CASE /\ connections[r] # Nobody /\ handler # "done"
             /\ delivered' = delivered \cup {[id |-> t.id, client |-> connections[r], route |-> r]}
    <3>1. SentTo(connections[r], r)
      BY <2>2, <2>4 DEF Relayed
    <3>2. NoStrangers'
      BY <2>1, <2>4, <3>1 DEF Relayed, NoStrangers, SentTo
    <3> QED
      BY <2>1, <3>2 DEF Relayed, TaskOK, SentTo
  <2> QED
    BY <1>5, <2>3, <2>4 DEF ToClient, Open
<1>6. CASE \E resolved \in SUBSET Target : Resolved(t, resolved)
  BY <1>6, SendKeepsRelayed DEF Resolved
<1> QED
  BY <1>1, <1>2, <1>3, <1>4, <1>5, <1>6

LEMMA RelayedKept == Relayed /\ [Next]_vars => Relayed'
<1> SUFFICES ASSUME Relayed, [Next]_vars PROVE Relayed'
  OBVIOUS
<1>1. CASE RelayNext
  BY <1>1, HandlerKeepsRelayed, ArrivalsKeepRelayed, TasksKeepRelayed DEF RelayNext
<1>2. CASE UNCHANGED relayvars
  BY <1>2 DEF relayvars, Relayed, TaskOK, SentTo, NoStrangers
<1> QED
  BY <1>1, <1>2 DEF Next, vars, relayonly, relayvars

(* Whatever the order of datagrams, resolutions and answers, nobody gets a *)
(* datagram of a target it has sent none to by the same socket.            *)
THEOREM NoneGoAstray == Spec => []NoStrangers
<1>1. Relayed => NoStrangers
  BY DEF Relayed
<1> QED
  BY <1>1, RelayStarts, RelayedKept, PTL DEF Spec

(* No step of a relay that is done sends or delivers anything.             *)
THEOREM DoneIsSilent == Spec => SilentWhenDone
<1> DEFINE Silent == [handler = "done" => UNCHANGED <<sent, delivered>>]_udpvars
<1>1. [Next]_vars => Silent
  <2> SUFFICES ASSUME [Next]_vars, handler = "done" PROVE UNCHANGED <<sent, delivered>>
    OBVIOUS
  <2>1. Open = {} /\ Reading = {}
    BY DEF Open, Reading
  <2>2. CASE RelayNext
    <3>1. CASE HandlerRuns \/ ClientLeaves
      BY <3>1 DEF HandlerRuns, EndpointMade, EndpointFails, ControlEnds, Closed, ClientLeaves, datagrams
    <3>2. CASE TaskRuns
      BY <2>1, <3>2 DEF TaskRuns, Malformed, ToAddress, ToDomain, ToClient, Resolved, Forward, Send
    <3> QED
      BY <2>2, <3>1, <3>2 DEF RelayNext, FromClient, FromTarget
  <2>3. CASE UNCHANGED relayonly
    BY <2>3 DEF relayonly
  <2> QED
    BY <2>2, <2>3 DEF Next, vars
<1> QED
  BY <1>1, PTL DEF Spec, SilentWhenDone

-----------------------------------------------------------------------------
(* The least of a set of numbers, and induction by it.                     *)

LEMMA LeastOf ==
    ASSUME NEW T, T \subseteq Nat, T # {}
    PROVE  \E m \in T : \A q \in T : m <= q
<1> DEFINE R == OpToRel(<, Nat)
<1>1. IsWellFoundedOn(R, Nat)
  BY NatLessThanWellFounded
<1> HIDE DEF R
<1>2. \E m \in T : \A x \in T : ~(<<x, m>> \in R)
  BY <1>1, WFMin
<1>3. PICK m \in T : \A x \in T : ~(x < m)
  BY <1>2 DEF R, OpToRel
<1>4. \A x \in T : m <= x
  BY <1>3
<1> QED
  BY <1>4

LEMMA NeverFails ==
    ASSUME NEW T, T \subseteq Nat, 0 \notin T, \A i \in Nat : i \notin T => i + 1 \notin T
    PROVE  T = {}
<1> SUFFICES ASSUME T # {} PROVE FALSE
  OBVIOUS
<1>1. PICK m \in T : \A q \in T : m <= q
  BY LeastOf
<1>2. m \in Nat \ {0} /\ m - 1 \in Nat /\ ~(m <= m - 1) /\ (m - 1) + 1 = m
  OBVIOUS
<1>3. m - 1 \notin T
  BY <1>1, <1>2
<1> QED
  BY <1>2, <1>3

-----------------------------------------------------------------------------
(* Names: order and relativity (OrderAgrees).                              *)

Byte == 0..255
ByteLabels == Seq(Byte)
ByteNames == Seq(ByteLabels)

LEMMA ByteIs == Byte \subseteq Nat
BY DEF Byte

LEMMA LabelIs ==
    ASSUME NEW x \in ByteLabels
    PROVE  /\ x \in Seq(Byte) /\ Len(x) \in Nat /\ DOMAIN x = 1 .. Len(x)
           /\ \A i \in 1 .. Len(x) : x[i] \in Byte /\ x[i] \in Nat
<1>1. x \in Seq(Byte)
  BY DEF ByteLabels
<1>2. Len(x) \in Nat /\ DOMAIN x = 1 .. Len(x) /\ x \in [1 .. Len(x) -> Byte]
  BY <1>1, LenProperties
<1> QED
  BY <1>1, <1>2, ByteIs

LEMMA LowerIs ==
    ASSUME NEW x \in ByteLabels
    PROVE  /\ LowerLabel(x) \in ByteLabels /\ Len(LowerLabel(x)) = Len(x)
           /\ LowerLabel(x) = <<>> <=> x = <<>>
<1>1. DOMAIN x = 1 .. Len(x) /\ Len(x) \in Nat /\ \A i \in 1 .. Len(x) : x[i] \in Byte
  BY LabelIs
<1>2. \A i \in 1 .. Len(x) : (IF x[i] \in 65..90 THEN x[i] + 32 ELSE x[i]) \in Byte
  <2>1. \A c \in 65..90 : c + 32 \in Byte
    BY DEF Byte
  <2> QED
    BY <1>1, <2>1
<1>3. LowerLabel(x) \in [1 .. Len(x) -> Byte]
  BY <1>1, <1>2 DEF LowerLabel
<1>4. LowerLabel(x) \in Seq(Byte) /\ Len(LowerLabel(x)) = Len(x)
  BY <1>1, <1>3
<1>5. LowerLabel(x) = <<>> <=> Len(LowerLabel(x)) = 0
  BY <1>4, EmptySeq
<1>6. x = <<>> <=> Len(x) = 0
  BY LabelIs, EmptySeq
<1> QED
  BY <1>4, <1>5, <1>6 DEF ByteLabels

(* x and y have their first n bytes in common, and then x comes first.     *)
TextBefore(x, y, n) ==
    /\ n \in Nat /\ n <= Len(x) /\ n < Len(y)
    /\ \A i \in 1 .. n : x[i] = y[i]
    /\ n = Len(x) \/ x[n + 1] < y[n + 1]

LEMMA LabelLessIs ==
    ASSUME NEW x \in ByteLabels, NEW y \in ByteLabels
    PROVE  LabelLess(x, y) <=> \E n : TextBefore(x, y, n)
<1>1. Len(x) \in Nat /\ Len(y) \in Nat /\ x \in Seq(Byte) /\ y \in Seq(Byte)
  BY LabelIs
<1>2. \A n \in 0 .. Len(x) : n < Len(y) =>
        ((SubSeq(x, 1, n) = SubSeq(y, 1, n)) <=> (\A i \in 1 .. n : x[i] = y[i]))
  <2> SUFFICES ASSUME NEW n \in 0 .. Len(x), n < Len(y)
               PROVE  (SubSeq(x, 1, n) = SubSeq(y, 1, n)) <=> (\A i \in 1 .. n : x[i] = y[i])
    OBVIOUS
  <2>1. /\ SubSeq(x, 1, n) \in Seq(Byte) /\ Len(SubSeq(x, 1, n)) = n
        /\ SubSeq(y, 1, n) \in Seq(Byte) /\ Len(SubSeq(y, 1, n)) = n
    BY <1>1
  <2>2. \A i \in 1 .. n : SubSeq(x, 1, n)[i] = x[i] /\ SubSeq(y, 1, n)[i] = y[i]
    BY <1>1
  <2>3. (\A i \in 1 .. n : x[i] = y[i]) => SubSeq(x, 1, n) = SubSeq(y, 1, n)
    BY <2>1, <2>2, SeqEqual
  <2> QED
    BY <2>2, <2>3
<1>3. ASSUME LabelLess(x, y) PROVE \E n : TextBefore(x, y, n)
  <2>1. PICK n \in 0 .. Len(x) :
          /\ n < Len(y) /\ SubSeq(x, 1, n) = SubSeq(y, 1, n)
          /\ n = Len(x) \/ x[n + 1] < y[n + 1]
    BY <1>3 DEF LabelLess
  <2>2. n \in Nat /\ n <= Len(x)
    BY <1>1
  <2> QED
    BY <1>2, <2>1, <2>2 DEF TextBefore
<1>4. ASSUME NEW n, TextBefore(x, y, n) PROVE LabelLess(x, y)
  <2>1. n \in 0 .. Len(x) /\ n < Len(y) /\ (\A i \in 1 .. n : x[i] = y[i])
    BY <1>1, <1>4 DEF TextBefore
  <2>2. SubSeq(x, 1, n) = SubSeq(y, 1, n)
    BY <1>2, <2>1
  <2>3. n = Len(x) \/ x[n + 1] < y[n + 1]
    BY <1>4 DEF TextBefore
  <2> QED
    BY <2>1, <2>2, <2>3 DEF LabelLess
<1> QED
  BY <1>3, <1>4

(* The order of labels is a strict and total one.                          *)
LEMMA LabelTotal ==
    ASSUME NEW x \in ByteLabels, NEW y \in ByteLabels, x # y
    PROVE  LabelLess(x, y) \/ LabelLess(y, x)
<1>1. /\ Len(x) \in Nat /\ Len(y) \in Nat /\ x \in Seq(Byte) /\ y \in Seq(Byte)
      /\ \A i \in 1 .. Len(x) : x[i] \in Nat
      /\ \A i \in 1 .. Len(y) : y[i] \in Nat
  BY LabelIs
<1> DEFINE T == {n \in Nat : n >= Len(x) \/ n >= Len(y) \/ x[n + 1] # y[n + 1]}
<1>2. Len(x) \in T
  BY <1>1
<1>3. PICK n \in T : \A q \in T : n <= q
  BY <1>2, LeastOf
<1>4. n \in Nat /\ n <= Len(x) /\ n <= Len(y)
  <2>1. Len(y) \in T
    BY <1>1
  <2> QED
    BY <1>2, <1>3, <2>1
<1>5. \A i \in 1 .. n : x[i] = y[i]
  <2> SUFFICES ASSUME NEW i \in 1 .. n PROVE x[i] = y[i]
    OBVIOUS
  <2>1. i - 1 \in Nat /\ ~(n <= i - 1) /\ (i - 1) + 1 = i
    BY <1>4
  <2>2. i - 1 \notin T
    BY <1>3, <2>1
  <2> QED
    BY <2>1, <2>2
<1>6. CASE n = Len(x) /\ n < Len(y)
  <2>1. TextBefore(x, y, n)
    BY <1>4, <1>5, <1>6 DEF TextBefore
  <2> QED
    BY <2>1, LabelLessIs
<1>7. CASE n = Len(y) /\ n < Len(x)
  <2>1. TextBefore(y, x, n)
    BY <1>4, <1>5, <1>7 DEF TextBefore
  <2> QED
    BY <2>1, LabelLessIs
<1>8. CASE n = Len(x) /\ n = Len(y)
  <2>1. x = y
    BY <1>1, <1>5, <1>8, SeqEqual
  <2> QED
    BY <2>1
<1>9. CASE n < Len(x) /\ n < Len(y)
  <2>1. x[n + 1] # y[n + 1] /\ x[n + 1] \in Nat /\ y[n + 1] \in Nat
    BY <1>1, <1>3, <1>4, <1>9
  <2>2. CASE x[n + 1] < y[n + 1]
    <3>1. TextBefore(x, y, n)
      BY <1>4, <1>5, <1>9, <2>2 DEF TextBefore
    <3> QED
      BY <3>1, LabelLessIs
  <2>3. CASE y[n + 1] < x[n + 1]
    <3>1. TextBefore(y, x, n)
      BY <1>4, <1>5, <1>9, <2>3 DEF TextBefore
    <3> QED
      BY <3>1, LabelLessIs
  <2> QED
    BY <2>1, <2>2, <2>3
<1> QED
  BY <1>1, <1>4, <1>6, <1>7, <1>8, <1>9

LEMMA LabelStrict ==
    ASSUME NEW x \in ByteLabels, NEW y \in ByteLabels, LabelLess(x, y)
    PROVE  ~LabelLess(y, x) /\ x # y
<1>1. /\ Len(x) \in Nat /\ Len(y) \in Nat
      /\ \A i \in 1 .. Len(x) : x[i] \in Nat
      /\ \A i \in 1 .. Len(y) : y[i] \in Nat
  BY LabelIs
<1>2. PICK m : TextBefore(x, y, m)
  BY LabelLessIs
<1>3. x # y
  <2>1. m \in Nat /\ m < Len(y) /\ (m = Len(x) \/ x[m + 1] < y[m + 1])
    BY <1>2 DEF TextBefore
  <2>2. m + 1 \in 1 .. Len(y)
    BY <1>1, <2>1
  <2> QED
    BY <1>1, <2>1, <2>2
<1>4. ASSUME NEW n, TextBefore(y, x, n) PROVE FALSE
  <2>1. /\ m \in Nat /\ m <= Len(x) /\ m < Len(y) /\ (\A i \in 1 .. m : x[i] = y[i])
        /\ m = Len(x) \/ x[m + 1] < y[m + 1]
    BY <1>2 DEF TextBefore
  <2>2. /\ n \in Nat /\ n <= Len(y) /\ n < Len(x) /\ (\A i \in 1 .. n : y[i] = x[i])
        /\ n = Len(y) \/ y[n + 1] < x[n + 1]
    BY <1>4 DEF TextBefore
  <2>3. CASE m < n
    <3>1. m + 1 \in 1 .. n /\ m + 1 \in 1 .. Len(x) /\ m # Len(x)
      BY <1>1, <2>1, <2>2, <2>3
    <3> QED
      BY <1>1, <2>1, <2>2, <3>1
  <2>4. CASE n < m
    <3>1. n + 1 \in 1 .. m /\ n + 1 \in 1 .. Len(y) /\ n # Len(y)
      BY <1>1, <2>1, <2>2, <2>4
    <3> QED
      BY <1>1, <2>1, <2>2, <3>1
  <2>5. CASE n = m
    <3>1. m + 1 \in 1 .. Len(x) /\ m + 1 \in 1 .. Len(y) /\ m # Len(x) /\ m # Len(y)
      BY <1>1, <2>1, <2>2, <2>5
    <3> QED
      BY <1>1, <2>1, <2>2, <2>5, <3>1
  <2> QED
    BY <2>1, <2>2, <2>3, <2>4, <2>5
<1> QED
  BY <1>3, <1>4, LabelLessIs

LEMMA LabelTransitive ==
    ASSUME NEW x \in ByteLabels, NEW y \in ByteLabels, NEW z \in ByteLabels,
           LabelLess(x, y), LabelLess(y, z)
    PROVE  LabelLess(x, z)
<1>1. /\ Len(x) \in Nat /\ Len(y) \in Nat /\ Len(z) \in Nat
      /\ \A i \in 1 .. Len(x) : x[i] \in Nat
      /\ \A i \in 1 .. Len(y) : y[i] \in Nat
      /\ \A i \in 1 .. Len(z) : z[i] \in Nat
  BY LabelIs
<1>2. PICK m : TextBefore(x, y, m)
  BY LabelLessIs
<1>3. PICK n : TextBefore(y, z, n)
  BY LabelLessIs
<1>4. /\ m \in Nat /\ m <= Len(x) /\ m < Len(y) /\ (\A i \in 1 .. m : x[i] = y[i])
      /\ m = Len(x) \/ x[m + 1] < y[m + 1]
  BY <1>2 DEF TextBefore
<1>5. /\ n \in Nat /\ n <= Len(y) /\ n < Len(z) /\ (\A i \in 1 .. n : y[i] = z[i])
      /\ n = Len(y) \/ y[n + 1] < z[n + 1]
  BY <1>3 DEF TextBefore
<1>6. CASE m < n
  <2>1. m + 1 \in 1 .. n /\ m < Len(z) /\ \A i \in 1 .. m : i \in 1 .. n
    BY <1>4, <1>5, <1>6
  <2>2. TextBefore(x, z, m)
    BY <1>4, <1>5, <2>1 DEF TextBefore
  <2> QED
    BY <2>2, LabelLessIs
<1>7. CASE n < m
  <2>1. n + 1 \in 1 .. m /\ n < Len(x) /\ n # Len(y) /\ \A i \in 1 .. n : i \in 1 .. m
    BY <1>1, <1>4, <1>5, <1>7
  <2>2. TextBefore(x, z, n)
    BY <1>4, <1>5, <2>1 DEF TextBefore
  <2> QED
    BY <2>2, LabelLessIs
<1>8. CASE n = m
  <2>1. n # Len(y) /\ (m # Len(x) => m + 1 \in 1 .. Len(x)) /\ m + 1 \in 1 .. Len(y) /\ m + 1 \in 1 .. Len(z)
    BY <1>1, <1>4, <1>5, <1>8
  <2>2. m = Len(x) \/ x[m + 1] < z[m + 1]
    BY <1>1, <1>4, <1>5, <1>8, <2>1
  <2>3. TextBefore(x, z, m)
    BY <1>4, <1>5, <1>8, <2>2 DEF TextBefore
  <2> QED
    BY <2>3, LabelLessIs
<1> QED
  BY <1>4, <1>5, <1>6, <1>7, <1>8

(* Names are compared label by label, from the last.                       *)
FromEnd(a, k) == LowerLabel(a[Len(a) - k])

LEMMA NameIs ==
    ASSUME NEW a \in ByteNames
    PROVE  /\ a \in Seq(ByteLabels) /\ Len(a) \in Nat /\ DOMAIN a = 1 .. Len(a)
           /\ \A i \in 1 .. Len(a) : a[i] \in ByteLabels
           /\ \A k \in 0 .. Len(a) - 1 : /\ Len(a) - k \in 1 .. Len(a) /\ a[Len(a) - k] \in ByteLabels
                                         /\ FromEnd(a, k) \in ByteLabels
                                         /\ Len(FromEnd(a, k)) = Len(a[Len(a) - k])
                                         /\ FromEnd(a, k) = <<>> <=> a[Len(a) - k] = <<>>
<1>1. a \in Seq(ByteLabels)
  BY DEF ByteNames
<1>2. Len(a) \in Nat /\ DOMAIN a = 1 .. Len(a) /\ a \in [1 .. Len(a) -> ByteLabels]
  BY <1>1, LenProperties
<1>3. \A i \in 1 .. Len(a) : a[i] \in ByteLabels
  BY <1>2
<1>4. \A k \in 0 .. Len(a) - 1 : Len(a) - k \in 1 .. Len(a)
  BY <1>2
<1> QED
  BY <1>1, <1>2, <1>3, <1>4, LowerIs DEF FromEnd

(* They have just n labels in common.                                      *)
Shared(a, b, n) ==
    /\ n \in Nat /\ n <= Len(a) /\ n <= Len(b)
    /\ \A k \in 0 .. n - 1 : FromEnd(a, k) = FromEnd(b, k)
    /\ n = Len(a) \/ n = Len(b) \/ FromEnd(a, n) # FromEnd(b, n)

LEMMA SharedExists ==
    ASSUME NEW a \in ByteNames, NEW b \in ByteNames
    PROVE  \E n : Shared(a, b, n)
<1>1. Len(a) \in Nat /\ Len(b) \in Nat
  BY NameIs
<1> DEFINE T == {n \in Nat : n >= Len(a) \/ n >= Len(b) \/ FromEnd(a, n) # FromEnd(b, n)}
<1>2. Len(a) \in T /\ Len(b) \in T
  BY <1>1
<1>3. PICK n \in T : \A q \in T : n <= q
  BY <1>2, LeastOf
<1>4. n \in Nat /\ n <= Len(a) /\ n <= Len(b)
  BY <1>2, <1>3
<1>5. \A k \in 0 .. n - 1 : FromEnd(a, k) = FromEnd(b, k)
  <2> SUFFICES ASSUME NEW k \in 0 .. n - 1 PROVE FromEnd(a, k) = FromEnd(b, k)
    OBVIOUS
  <2>1. k \in Nat /\ ~(n <= k)
    BY <1>4
  <2>2. k \notin T
    BY <1>3, <2>1
  <2> QED
    BY <2>1, <2>2
<1>6. n = Len(a) \/ n = Len(b) \/ FromEnd(a, n) # FromEnd(b, n)
  <2>1. n >= Len(a) \/ n >= Len(b) \/ FromEnd(a, n) # FromEnd(b, n)
    BY <1>3
  <2> QED
    BY <1>1, <1>4, <2>1
<1> QED
  BY <1>4, <1>5, <1>6 DEF Shared

LEMMA SharedOne ==
    ASSUME NEW a \in ByteNames, NEW b \in ByteNames, NEW m, NEW n, Shared(a, b, m), Shared(a, b, n)
    PROVE  m = n
<1>1. Len(a) \in Nat /\ Len(b) \in Nat
  BY NameIs
<1>2. /\ m \in Nat /\ m <= Len(a) /\ m <= Len(b)
      /\ \A k \in 0 .. m - 1 : FromEnd(a, k) = FromEnd(b, k)
      /\ m = Len(a) \/ m = Len(b) \/ FromEnd(a, m) # FromEnd(b, m)
  BY DEF Shared
<1>3. /\ n \in Nat /\ n <= Len(a) /\ n <= Len(b)
      /\ \A k \in 0 .. n - 1 : FromEnd(a, k) = FromEnd(b, k)
      /\ n = Len(a) \/ n = Len(b) \/ FromEnd(a, n) # FromEnd(b, n)
  BY DEF Shared
<1>4. CASE m < n
  <2>1. m \in 0 .. n - 1 /\ m # Len(a) /\ m # Len(b)
    BY <1>1, <1>2, <1>3, <1>4
  <2> QED
    BY <1>2, <1>3, <2>1
<1>5. CASE n < m
  <2>1. n \in 0 .. m - 1 /\ n # Len(a) /\ n # Len(b)
    BY <1>1, <1>2, <1>3, <1>5
  <2> QED
    BY <1>2, <1>3, <2>1
<1> QED
  BY <1>2, <1>3, <1>4, <1>5

LEMMA SharedSwaps ==
    ASSUME NEW a, NEW b, NEW n, Shared(a, b, n)
    PROVE  Shared(b, a, n)
BY DEF Shared

LEMMA InCommonIs ==
    ASSUME NEW a \in ByteNames, NEW b \in ByteNames
    PROVE  Shared(a, b, InCommon(a, b)) /\ InCommon(b, a) = InCommon(a, b)
<1>1. \A x, y \in ByteNames : Shared(x, y, InCommon(x, y))
  <2> SUFFICES ASSUME NEW x \in ByteNames, NEW y \in ByteNames PROVE Shared(x, y, InCommon(x, y))
    OBVIOUS
  <2> DEFINE shorter == IF Len(x) < Len(y) THEN Len(x) ELSE Len(y)
             Agree(n) == (\A k \in 0 .. n - 1 : FromEnd(x, k) = FromEnd(y, k))
                        /\ (n = shorter \/ ~(FromEnd(x, n) = FromEnd(y, n)))
  <2>1. Len(x) \in Nat /\ Len(y) \in Nat
    BY NameIs
  <2>2. PICK n : Shared(x, y, n)
    BY SharedExists
  <2>3. n \in 0 .. shorter /\ Agree(n)
    BY <2>1, <2>2 DEF Shared
  <2>4. InCommon(x, y) = CHOOSE i \in 0 .. shorter : Agree(i)
    BY Zenon DEF InCommon, FromEnd
  <2> HIDE DEF Agree
  <2>5. InCommon(x, y) \in 0 .. shorter /\ Agree(InCommon(x, y))
    BY <2>3, <2>4, Zenon
  <2> QED
    BY <2>1, <2>5 DEF Shared, Agree
<1>2. Shared(a, b, InCommon(a, b)) /\ Shared(a, b, InCommon(b, a))
  BY <1>1, SharedSwaps
<1> QED
  BY <1>2, SharedOne

-----------------------------------------------------------------------------

NameBefore(a, b, n) ==
    /\ Shared(a, b, n) /\ n < Len(b)
    /\ n = Len(a) \/ LabelLess(FromEnd(a, n), FromEnd(b, n))
NameLess(a, b) == \E n : NameBefore(a, b, n)
Alike(a, b) == Len(a) = Len(b) /\ \A k \in 0 .. Len(a) - 1 : FromEnd(a, k) = FromEnd(b, k)
NameEndsWith(a, b) == Len(b) <= Len(a) /\ \A k \in 0 .. Len(b) - 1 : FromEnd(a, k) = FromEnd(b, k)

(* What FullCompare says of two names that are both absolute, or both not. *)
LEMMA ComparedIs ==
    ASSUME NEW a \in ByteNames, NEW b \in ByteNames, IsAbsolute(a) <=> IsAbsolute(b)
    PROVE  /\ FullCompare(a, b).order < 0 <=> NameLess(a, b)
           /\ FullCompare(a, b).order > 0 <=> NameLess(b, a)
           /\ FullCompare(a, b).order = 0 <=> Alike(a, b)
           /\ FullCompare(a, b).order \in Int
           /\ IsSubdomainOf(a, b) <=> NameEndsWith(a, b)
           /\ IsSuperdomainOf(a, b) <=> NameEndsWith(b, a)
           /\ FullCompare(a, b).relation = "subdomain" <=> NameEndsWith(a, b) /\ Len(b) < Len(a)
<1>1. PICK n : n = InCommon(a, b)
  OBVIOUS
<1>2. Shared(a, b, n) /\ Shared(b, a, n)
  BY <1>1, InCommonIs, SharedSwaps
<1>3. /\ n \in Nat /\ n <= Len(a) /\ n <= Len(b) /\ Len(a) \in Nat /\ Len(b) \in Nat
      /\ \A k \in 0 .. n - 1 : FromEnd(a, k) = FromEnd(b, k)
      /\ n = Len(a) \/ n = Len(b) \/ FromEnd(a, n) # FromEnd(b, n)
  BY <1>2, NameIs DEF Shared
<1>4. /\ NameLess(a, b) <=> NameBefore(a, b, n)
      /\ NameLess(b, a) <=> NameBefore(b, a, n)
  BY <1>2, SharedOne DEF NameLess, NameBefore
<1>5. CASE n = Len(a) \/ n = Len(b)
  <2>1. FullCompare(a, b) =
          [relation |-> IF Len(a) < Len(b) THEN "superdomain"
                        ELSE IF Len(a) > Len(b) THEN "subdomain" ELSE "equal",
           order |-> Len(a) - Len(b), common |-> n]
    BY <1>1, <1>5, Zenon DEF FullCompare, IsAbsolute
  <2>2. /\ FullCompare(a, b).order = Len(a) - Len(b)
        /\ FullCompare(a, b).relation = IF Len(a) < Len(b) THEN "superdomain"
                                        ELSE IF Len(a) > Len(b) THEN "subdomain" ELSE "equal"
    BY <2>1
  <2>3. /\ NameBefore(a, b, n) <=> Len(a) < Len(b)
        /\ NameBefore(b, a, n) <=> Len(b) < Len(a)
    BY <1>2, <1>3, <1>5 DEF NameBefore
  <2>4. /\ Alike(a, b) <=> Len(a) = Len(b)
        /\ NameEndsWith(a, b) <=> Len(b) <= Len(a)
        /\ NameEndsWith(b, a) <=> Len(a) <= Len(b)
    BY <1>3, <1>5 DEF Alike, NameEndsWith
  <2>5. /\ IsSubdomainOf(a, b) <=> Len(b) <= Len(a)
        /\ IsSuperdomainOf(a, b) <=> Len(a) <= Len(b)
        /\ FullCompare(a, b).relation = "subdomain" <=> Len(b) < Len(a)
    BY <1>3, <2>2 DEF IsSubdomainOf, IsSuperdomainOf
  <2> QED
    BY <1>3, <1>4, <2>2, <2>3, <2>4, <2>5
<1>6. CASE n < Len(a) /\ n < Len(b)
  <2> DEFINE x == FromEnd(a, n)
             y == FromEnd(b, n)
  <2>1. x \in ByteLabels /\ y \in ByteLabels /\ x # y
    BY <1>3, <1>6, NameIs
  <2>2. /\ LabelLess(x, y) =>
             FullCompare(a, b) = [relation |-> IF n > 0 THEN "common ancestor" ELSE "none", common |-> n, order |-> -1]
        /\ ~LabelLess(x, y) =>
             FullCompare(a, b) = [relation |-> IF n > 0 THEN "common ancestor" ELSE "none", common |-> n, order |-> 1]
    <3>1. ~(n = Len(a) \/ n = Len(b))
      BY <1>3, <1>6
    <3> QED
      BY <1>1, <3>1, Zenon DEF FullCompare, FromEnd, IsAbsolute
  <2> HIDE DEF x, y
  <2>3. /\ LabelLess(x, y) => FullCompare(a, b).order = -1
        /\ ~LabelLess(x, y) => FullCompare(a, b).order = 1
        /\ FullCompare(a, b).relation \in {"common ancestor", "none"}
    <3>1. PICK w : w = IF n > 0 THEN "common ancestor" ELSE "none"
      OBVIOUS
    <3>2. w \in {"common ancestor", "none"}
      BY <3>1
    <3>3. /\ LabelLess(x, y) => FullCompare(a, b) = [relation |-> w, common |-> n, order |-> -1]
          /\ ~LabelLess(x, y) => FullCompare(a, b) = [relation |-> w, common |-> n, order |-> 1]
      BY <2>2, <3>1, Zenon
    <3>4. CASE LabelLess(x, y)
      <4>1. FullCompare(a, b) = [relation |-> w, common |-> n, order |-> -1]
        BY <3>3, <3>4, Zenon
      <4>2. FullCompare(a, b).order = -1 /\ FullCompare(a, b).relation = w
        BY <4>1
      <4> QED
        BY <3>2, <3>4, <4>2, Zenon
    <3>5. CASE ~LabelLess(x, y)
      <4>1. FullCompare(a, b) = [relation |-> w, common |-> n, order |-> 1]
        BY <3>3, <3>5, Zenon
      <4>2. FullCompare(a, b).order = 1 /\ FullCompare(a, b).relation = w
        BY <4>1
      <4> QED
        BY <3>2, <3>5, <4>2, Zenon
    <3> QED
      BY <3>4, <3>5, Zenon
  <2>4. LabelLess(y, x) <=> ~LabelLess(x, y)
    BY <2>1, LabelTotal, LabelStrict
  <2>5. /\ NameBefore(a, b, n) <=> LabelLess(x, y)
        /\ NameBefore(b, a, n) <=> LabelLess(y, x)
    BY <1>2, <1>3, <1>6 DEF NameBefore, x, y
  <2>6. ~Alike(a, b) /\ ~NameEndsWith(a, b) /\ ~NameEndsWith(b, a)
    <3>1. n \in 0 .. Len(a) - 1 /\ n \in 0 .. Len(b) - 1 /\ FromEnd(a, n) # FromEnd(b, n)
      BY <1>3, <1>6
    <3> QED
      BY <3>1 DEF Alike, NameEndsWith
  <2>7. ~IsSubdomainOf(a, b) /\ ~IsSuperdomainOf(a, b) /\ FullCompare(a, b).relation # "subdomain"
    BY <2>3 DEF IsSubdomainOf, IsSuperdomainOf
  <2>8. CASE LabelLess(x, y)
    <3>1. FullCompare(a, b).order = -1 /\ NameLess(a, b) /\ ~NameLess(b, a)
      BY <1>4, <2>3, <2>4, <2>5, <2>8
    <3> QED
      BY <2>6, <2>7, <3>1
  <2>9. CASE ~LabelLess(x, y)
    <3>1. FullCompare(a, b).order = 1 /\ ~NameLess(a, b) /\ NameLess(b, a)
      BY <1>4, <2>3, <2>4, <2>5, <2>9
    <3> QED
      BY <2>6, <2>7, <3>1
  <2> QED
    BY <2>8, <2>9
<1> QED
  BY <1>3, <1>5, <1>6

(* And of two of which one is absolute.                                    *)
LEMMA ComparedApart ==
    ASSUME NEW a, NEW b, ~(IsAbsolute(a) <=> IsAbsolute(b))
    PROVE  /\ FullCompare(a, b).order = (IF IsAbsolute(a) THEN 1 ELSE -1)
           /\ ~IsSubdomainOf(a, b) /\ ~IsSuperdomainOf(a, b)
<1>1. FullCompare(a, b) = [relation |-> "none", order |-> IF IsAbsolute(a) THEN 1 ELSE -1, common |-> 0]
  BY Zenon DEF FullCompare, IsAbsolute
<1> QED
  BY <1>1 DEF IsSubdomainOf, IsSuperdomainOf

LEMMA LessTransitive ==
    ASSUME NEW a \in ByteNames, NEW b \in ByteNames, NEW c \in ByteNames, NameLess(a, b), NameLess(b, c)
    PROVE  NameLess(a, c)
<1>1. Len(a) \in Nat /\ Len(b) \in Nat /\ Len(c) \in Nat
  BY NameIs
<1>2. PICK m : NameBefore(a, b, m)
  BY DEF NameLess
<1>3. PICK n : NameBefore(b, c, n)
  BY DEF NameLess
<1>4. /\ m \in Nat /\ m <= Len(a) /\ m < Len(b)
      /\ \A k \in 0 .. m - 1 : FromEnd(a, k) = FromEnd(b, k)
      /\ m = Len(a) \/ FromEnd(a, m) # FromEnd(b, m)
      /\ m = Len(a) \/ LabelLess(FromEnd(a, m), FromEnd(b, m))
  BY <1>1, <1>2 DEF NameBefore, Shared
<1>5. /\ n \in Nat /\ n <= Len(b) /\ n < Len(c)
      /\ \A k \in 0 .. n - 1 : FromEnd(b, k) = FromEnd(c, k)
      /\ n = Len(b) \/ FromEnd(b, n) # FromEnd(c, n)
      /\ n = Len(b) \/ LabelLess(FromEnd(b, n), FromEnd(c, n))
  BY <1>1, <1>3 DEF NameBefore, Shared
<1>6. CASE m < n
  <2>1. m \in 0 .. n - 1 /\ m < Len(c) /\ \A k \in 0 .. m - 1 : k \in 0 .. n - 1
    BY <1>4, <1>5, <1>6
  <2>2. FromEnd(b, m) = FromEnd(c, m) /\ \A k \in 0 .. m - 1 : FromEnd(a, k) = FromEnd(c, k)
    BY <1>4, <1>5, <2>1
  <2>3. NameBefore(a, c, m)
    BY <1>4, <2>1, <2>2 DEF NameBefore, Shared
  <2> QED
    BY <2>3 DEF NameLess
<1>7. CASE n < m
  <2>1. n \in 0 .. m - 1 /\ n < Len(a) /\ n # Len(b) /\ \A k \in 0 .. n - 1 : k \in 0 .. m - 1
    BY <1>1, <1>4, <1>5, <1>7
  <2>2. FromEnd(a, n) = FromEnd(b, n) /\ \A k \in 0 .. n - 1 : FromEnd(a, k) = FromEnd(c, k)
    BY <1>4, <1>5, <2>1
  <2>3. NameBefore(a, c, n)
    BY <1>4, <1>5, <2>1, <2>2 DEF NameBefore, Shared
  <2> QED
    BY <2>3 DEF NameLess
<1>8. CASE n = m
  <2>1. n # Len(b) /\ \A k \in 0 .. m - 1 : FromEnd(a, k) = FromEnd(c, k)
    BY <1>1, <1>4, <1>5, <1>8
  <2>2. CASE m = Len(a)
    <3>1. NameBefore(a, c, m)
      BY <1>4, <1>5, <1>8, <2>1, <2>2 DEF NameBefore, Shared
    <3> QED
      BY <3>1 DEF NameLess
  <2>3. CASE m # Len(a)
    <3>1. m \in 0 .. Len(a) - 1 /\ m \in 0 .. Len(b) - 1 /\ m \in 0 .. Len(c) - 1
      BY <1>1, <1>4, <1>5, <1>8, <2>3
    <3>2. FromEnd(a, m) \in ByteLabels /\ FromEnd(b, m) \in ByteLabels /\ FromEnd(c, m) \in ByteLabels
      BY <3>1, NameIs
    <3>3. LabelLess(FromEnd(a, m), FromEnd(c, m))
      BY <1>4, <1>5, <1>8, <2>1, <2>3, <3>2, LabelTransitive
    <3>4. FromEnd(a, m) # FromEnd(c, m)
      BY <3>2, <3>3, LabelStrict
    <3>5. NameBefore(a, c, m)
      BY <1>4, <1>5, <1>8, <2>1, <3>3, <3>4 DEF NameBefore, Shared
    <3> QED
      BY <3>5 DEF NameLess
  <2> QED
    BY <2>2, <2>3
<1> QED
  BY <1>4, <1>5, <1>6, <1>7, <1>8

(* Names that are alike come before the same ones.                         *)
LEMMA AlikeSame ==
    ASSUME NEW a \in ByteNames, NEW b \in ByteNames, NEW c \in ByteNames, NameLess(a, b), Alike(b, c)
    PROVE  NameLess(a, c)
<1>1. Len(a) \in Nat /\ Len(b) \in Nat /\ Len(c) = Len(b)
  BY NameIs DEF Alike
<1>2. PICK m : NameBefore(a, b, m)
  BY DEF NameLess
<1>3. m \in Nat /\ m < Len(b) /\ \A k \in 0 .. m : k \in 0 .. Len(b) - 1
  BY <1>1, <1>2 DEF NameBefore, Shared
<1>4. FromEnd(b, m) = FromEnd(c, m) /\ \A k \in 0 .. m - 1 : FromEnd(b, k) = FromEnd(c, k)
  BY <1>1, <1>3 DEF Alike
<1>5. NameBefore(a, c, m)
  BY <1>1, <1>2, <1>3, <1>4 DEF NameBefore, Shared
<1> QED
  BY <1>5 DEF NameLess

-----------------------------------------------------------------------------

LEMMA NameAbsoluteIs ==
    ASSUME NEW a \in ByteNames
    PROVE  IsAbsolute(a) <=> Len(a) > 0 /\ FromEnd(a, 0) = <<>>
<1>1. a \in Seq(ByteLabels) /\ Len(a) \in Nat
  BY NameIs
<1>2. a # <<>> <=> Len(a) > 0
  BY <1>1, EmptySeq
<1>3. Len(a) > 0 => 0 \in 0 .. Len(a) - 1 /\ Len(a) - 0 = Len(a)
  BY <1>1
<1>4. Len(a) > 0 => (FromEnd(a, 0) = <<>> <=> a[Len(a)] = <<>>)
  BY <1>3, NameIs
<1> QED
  BY <1>2, <1>4 DEF IsAbsolute, Last

(* The two parts of a name that _validate_labels looks at.                 *)
LEMMA MadeIs ==
    ASSUME NEW a
    PROVE  /\ MakeName(a).err = "none" <=> /\ \A i \in DOMAIN a : ~(Len(a[i]) > MaxLabel)
                                           /\ ~(Octets(a) > MaxName)
                                           /\ \A i \in DOMAIN a : a[i] = <<>> => i = Len(a)
           /\ MakeName(a).err = "none" => MakeName(a) = [err |-> "none", labels |-> a]
<1> DEFINE long == \E i \in DOMAIN a : Len(a[i]) > MaxLabel
           empty == \E i \in DOMAIN a : a[i] = <<>> /\ i # Len(a)
           large == Octets(a) > MaxName
<1>1. MakeName(a) = IF long THEN [err |-> "LabelTooLong", labels |-> <<>>]
                    ELSE IF large THEN [err |-> "NameTooLong", labels |-> <<>>]
                    ELSE IF empty THEN [err |-> "EmptyLabel", labels |-> <<>>]
                    ELSE [err |-> "none", labels |-> a]
  BY Zenon DEF MakeName, Raised, Is
<1>2. /\ ~long <=> \A i \in DOMAIN a : ~(Len(a[i]) > MaxLabel)
      /\ ~empty <=> \A i \in DOMAIN a : a[i] = <<>> => i = Len(a)
  BY Zenon
<1> HIDE DEF long, empty, large
<1>3. MakeName(a).err = "none" <=> ~long /\ ~large /\ ~empty
  BY <1>1
<1>4. ~long /\ ~large /\ ~empty => MakeName(a) = [err |-> "none", labels |-> a]
  BY <1>1, Zenon
<1> QED
  BY <1>2, <1>3, <1>4, Zenon DEF large

LEMMA OctetsSame ==
    ASSUME NEW a \in ByteNames, NEW b \in ByteNames, Len(a) = Len(b),
           \A i \in 1 .. Len(a) : Len(a[i]) = Len(b[i])
    PROVE  Octets(a) = Octets(b)
<1>0. Len(a) \in Nat
  BY NameIs
<1>1. ASSUME NEW f
      PROVE  [n \in 0 .. Len(a) |-> IF n = 0 THEN 0 ELSE f[n - 1] + Len(a[n]) + 1]
             = [n \in 0 .. Len(b) |-> IF n = 0 THEN 0 ELSE f[n - 1] + Len(b[n]) + 1]
  <2>1. \A n \in 0 .. Len(a) : n # 0 => n \in 1 .. Len(a)
    BY <1>0
  <2>2. \A n \in 0 .. Len(a) : (IF n = 0 THEN 0 ELSE f[n - 1] + Len(a[n]) + 1)
                               = (IF n = 0 THEN 0 ELSE f[n - 1] + Len(b[n]) + 1)
    BY <2>1, Zenon
  <2> QED
    BY <2>2, Zenon
<1>2. \A f : (f = [n \in 0 .. Len(a) |-> IF n = 0 THEN 0 ELSE f[n - 1] + Len(a[n]) + 1])
             <=> (f = [n \in 0 .. Len(b) |-> IF n = 0 THEN 0 ELSE f[n - 1] + Len(b[n]) + 1])
  BY <1>1, Zenon
<1>3. (CHOOSE f : f = [n \in 0 .. Len(a) |-> IF n = 0 THEN 0 ELSE f[n - 1] + Len(a[n]) + 1])
      = (CHOOSE f : f = [n \in 0 .. Len(b) |-> IF n = 0 THEN 0 ELSE f[n - 1] + Len(b[n]) + 1])
  BY <1>2, Zenon
<1> QED
  BY <1>3, Zenon DEF Octets

(* Names of labels of the same lengths are both names or both not.         *)
LEMMA MadeAlike ==
    ASSUME NEW a \in ByteNames, NEW b \in ByteNames, Alike(a, b), MakeName(a).err = "none"
    PROVE  MakeName(b) = [err |-> "none", labels |-> b]
<1>1. /\ Len(a) \in Nat /\ Len(b) = Len(a) /\ DOMAIN a = 1 .. Len(a) /\ DOMAIN b = 1 .. Len(a)
  BY NameIs DEF Alike
<1>2. ASSUME NEW i \in 1 .. Len(a)
      PROVE  Len(a[i]) = Len(b[i]) /\ (a[i] = <<>> <=> b[i] = <<>>)
  <2>1. Len(a) - i \in 0 .. Len(a) - 1 /\ Len(a) - (Len(a) - i) = i /\ Len(b) - (Len(a) - i) = i
    BY <1>1
  <2>2. FromEnd(a, Len(a) - i) = FromEnd(b, Len(a) - i)
    BY <2>1 DEF Alike
  <2>3. /\ Len(FromEnd(a, Len(a) - i)) = Len(a[i])
        /\ FromEnd(a, Len(a) - i) = <<>> <=> a[i] = <<>>
    BY <2>1, NameIs
  <2>4. /\ Len(FromEnd(b, Len(a) - i)) = Len(b[i])
        /\ FromEnd(b, Len(a) - i) = <<>> <=> b[i] = <<>>
    BY <1>1, <2>1, NameIs
  <2> QED
    BY <2>2, <2>3, <2>4
<1>3. Octets(a) = Octets(b)
  BY <1>1, <1>2, OctetsSame
<1>4. /\ \A i \in 1 .. Len(a) : ~(Len(a[i]) > MaxLabel)
      /\ ~(Octets(a) > MaxName)
      /\ \A i \in 1 .. Len(a) : a[i] = <<>> => i = Len(a)
  BY <1>1, MadeIs, Zenon
<1>5. /\ \A i \in DOMAIN b : ~(Len(b[i]) > MaxLabel)
      /\ ~(Octets(b) > MaxName)
      /\ \A i \in DOMAIN b : b[i] = <<>> => i = Len(b)
  BY <1>1, <1>2, <1>3, <1>4, Zenon
<1> QED
  BY <1>5, MadeIs, Zenon

LEMMA AlikeFacts ==
    ASSUME NEW a \in ByteNames, NEW b \in ByteNames, Alike(a, b)
    PROVE  IsAbsolute(a) <=> IsAbsolute(b)
<1>1. Len(a) \in Nat /\ Len(b) = Len(a) /\ (Len(a) > 0 => 0 \in 0 .. Len(a) - 1)
  BY NameIs DEF Alike
<1>2. Len(a) > 0 => FromEnd(a, 0) = FromEnd(b, 0)
  BY <1>1 DEF Alike
<1> QED
  BY <1>1, <1>2, NameAbsoluteIs

-----------------------------------------------------------------------------
(* Digestable forms.                                                       *)

LEMMA CanonicalSame ==
    ASSUME NEW a \in ByteNames, NEW b \in ByteNames
    PROVE  CanonicalName(a) = CanonicalName(b) <=> Alike(a, b)
<1>1. \A x \in ByteNames :
        /\ CanonicalName(x) \in Seq(ByteLabels) /\ Len(CanonicalName(x)) = Len(x)
        /\ \A i \in 1 .. Len(x) : CanonicalName(x)[i] = FromEnd(x, Len(x) - i)
  <2> SUFFICES ASSUME NEW x \in ByteNames
               PROVE  /\ CanonicalName(x) \in Seq(ByteLabels) /\ Len(CanonicalName(x)) = Len(x)
                      /\ \A i \in 1 .. Len(x) : CanonicalName(x)[i] = FromEnd(x, Len(x) - i)
    OBVIOUS
  <2>1. Len(x) \in Nat /\ DOMAIN x = 1 .. Len(x) /\ \A i \in 1 .. Len(x) : x[i] \in ByteLabels
    BY NameIs
  <2>2. CanonicalName(x) = [i \in 1 .. Len(x) |-> LowerLabel(x[i])]
    BY <2>1 DEF CanonicalName
  <2>3. \A i \in 1 .. Len(x) : LowerLabel(x[i]) \in ByteLabels
    BY <2>1, LowerIs
  <2>4. CanonicalName(x) \in Seq(ByteLabels) /\ Len(CanonicalName(x)) = Len(x)
    BY <2>1, <2>2, <2>3
  <2>5. \A i \in 1 .. Len(x) : Len(x) - (Len(x) - i) = i
    BY <2>1
  <2> QED
    BY <2>2, <2>4, <2>5 DEF FromEnd
<1>2. Len(a) \in Nat /\ Len(b) \in Nat
  BY NameIs
<1>3. ASSUME CanonicalName(a) = CanonicalName(b) PROVE Alike(a, b)
  <2>1. Len(a) = Len(b)
    BY <1>1, <1>3
  <2>2. ASSUME NEW k \in 0 .. Len(a) - 1 PROVE FromEnd(a, k) = FromEnd(b, k)
    <3>1. Len(a) - k \in 1 .. Len(a) /\ Len(a) - (Len(a) - k) = k
      BY <1>2
    <3> QED
      BY <1>1, <1>3, <2>1, <3>1
  <2> QED
    BY <2>1, <2>2 DEF Alike
<1>4. ASSUME Alike(a, b) PROVE CanonicalName(a) = CanonicalName(b)
  <2>1. Len(a) = Len(b) /\ \A i \in 1 .. Len(a) : Len(a) - i \in 0 .. Len(a) - 1
    BY <1>2, <1>4 DEF Alike
  <2>2. \A i \in 1 .. Len(a) : CanonicalName(a)[i] = CanonicalName(b)[i]
    BY <1>1, <1>4, <2>1 DEF Alike
  <2> QED
    BY <1>1, <2>1, <2>2, SeqEqual
<1> QED
  BY <1>3, <1>4

LEMMA RootIs == RootName \in ByteNames /\ Len(RootName) = 1 /\ RootName[1] = <<>>
<1>1. <<>> \in ByteLabels
  BY EmptySeq DEF ByteLabels
<1> QED
  BY <1>1 DEF RootName, ByteNames

LEMMA JoinedFromEnd ==
    ASSUME NEW a \in ByteNames, NEW b \in ByteNames
    PROVE  /\ a \o b \in ByteNames /\ Len(a \o b) = Len(a) + Len(b)
           /\ \A k \in 0 .. Len(b) - 1 : FromEnd(a \o b, k) = FromEnd(b, k)
           /\ \A k \in 0 .. Len(a) - 1 : FromEnd(a \o b, Len(b) + k) = FromEnd(a, k)
<1>1. a \in Seq(ByteLabels) /\ b \in Seq(ByteLabels) /\ Len(a) \in Nat /\ Len(b) \in Nat
  BY NameIs
<1>2. /\ a \o b \in Seq(ByteLabels) /\ Len(a \o b) = Len(a) + Len(b)
      /\ \A i \in 1 .. Len(a) + Len(b) : (a \o b)[i] = IF i <= Len(a) THEN a[i] ELSE b[i - Len(a)]
  BY <1>1, ConcatProperties
<1>3. ASSUME NEW k \in 0 .. Len(b) - 1 PROVE FromEnd(a \o b, k) = FromEnd(b, k)
  <2>1. /\ Len(a) + Len(b) - k \in 1 .. Len(a) + Len(b) /\ ~(Len(a) + Len(b) - k <= Len(a))
        /\ Len(a) + Len(b) - k - Len(a) = Len(b) - k
    BY <1>1
  <2>2. (a \o b)[Len(a \o b) - k] = b[Len(b) - k]
    BY <1>2, <2>1
  <2> QED
    BY <2>2 DEF FromEnd
<1>4. ASSUME NEW k \in 0 .. Len(a) - 1 PROVE FromEnd(a \o b, Len(b) + k) = FromEnd(a, k)
  <2>1. /\ Len(a) + Len(b) - (Len(b) + k) = Len(a) - k
        /\ Len(a) - k \in 1 .. Len(a) + Len(b) /\ Len(a) - k <= Len(a)
    BY <1>1
  <2>2. (a \o b)[Len(a \o b) - (Len(b) + k)] = a[Len(a) - k]
    BY <1>2, <2>1
  <2> QED
    BY <2>2 DEF FromEnd
<1> QED
  BY <1>2, <1>3, <1>4 DEF ByteNames

LEMMA RootedAlike ==
    ASSUME NEW a \in ByteNames, NEW b \in ByteNames
    PROVE  Alike(a \o RootName, b \o RootName) <=> Alike(a, b)
<1>1. Len(a) \in Nat /\ Len(b) \in Nat
  BY NameIs
<1>2. RootName \in ByteNames /\ Len(RootName) = 1
  BY RootIs
<1>3. \A x \in ByteNames :
        /\ Len(x \o RootName) = Len(x) + 1
        /\ FromEnd(x \o RootName, 0) = FromEnd(RootName, 0)
        /\ \A k \in 0 .. Len(x) - 1 : FromEnd(x \o RootName, 1 + k) = FromEnd(x, k)
  <2> TAKE x \in ByteNames
  <2>1. /\ Len(x \o RootName) = Len(x) + Len(RootName)
        /\ \A k \in 0 .. Len(RootName) - 1 : FromEnd(x \o RootName, k) = FromEnd(RootName, k)
        /\ \A k \in 0 .. Len(x) - 1 : FromEnd(x \o RootName, Len(RootName) + k) = FromEnd(x, k)
    BY <1>2, JoinedFromEnd
  <2>2. 0 \in 0 .. Len(RootName) - 1
    BY <1>2
  <2> QED
    BY <1>2, <2>1, <2>2
<1>4. ASSUME Alike(a \o RootName, b \o RootName) PROVE Alike(a, b)
  <2>1. Len(a) = Len(b)
    BY <1>1, <1>3, <1>4 DEF Alike
  <2>2. ASSUME NEW k \in 0 .. Len(a) - 1 PROVE FromEnd(a, k) = FromEnd(b, k)
    <3>1. 1 + k \in 0 .. Len(a \o RootName) - 1
      BY <1>1, <1>3
    <3>2. FromEnd(a \o RootName, 1 + k) = FromEnd(b \o RootName, 1 + k)
      BY <1>4, <3>1 DEF Alike
    <3> QED
      BY <1>3, <2>1, <3>2
  <2> QED
    BY <2>1, <2>2 DEF Alike
<1>5. ASSUME Alike(a, b) PROVE Alike(a \o RootName, b \o RootName)
  <2>1. Len(a) = Len(b) /\ Len(a \o RootName) = Len(b \o RootName) /\ Len(a \o RootName) = Len(a) + 1
    BY <1>3, <1>5 DEF Alike
  <2>2. ASSUME NEW k \in 0 .. Len(a \o RootName) - 1
        PROVE  FromEnd(a \o RootName, k) = FromEnd(b \o RootName, k)
    <3>1. CASE k = 0
      BY <1>3, <3>1
    <3>2. CASE k # 0
      <4>1. k - 1 \in 0 .. Len(a) - 1 /\ 1 + (k - 1) = k
        BY <1>1, <2>1, <3>2
      <4>2. FromEnd(a, k - 1) = FromEnd(b, k - 1)
        BY <1>5, <4>1 DEF Alike
      <4>3. FromEnd(a \o RootName, 1 + (k - 1)) = FromEnd(b \o RootName, 1 + (k - 1))
        BY <1>3, <2>1, <4>1, <4>2
      <4> QED
        BY <4>1, <4>3
    <3> QED
      BY <3>1, <3>2
  <2> QED
    BY <2>1, <2>2 DEF Alike
<1> QED
  BY <1>4, <1>5

LEMMA DigestableSame ==
    ASSUME NEW a \in ByteNames, NEW b \in ByteNames, IsAbsolute(a) <=> IsAbsolute(b)
    PROVE  Digestable(a, {RootName}) = Digestable(b, {RootName}) <=> Alike(a, b)
<1>1. (CHOOSE o \in {RootName} : TRUE) = RootName
  OBVIOUS
<1>2. CASE IsAbsolute(a)
  <2>1. Digestable(a, {RootName}) = CanonicalName(a) /\ Digestable(b, {RootName}) = CanonicalName(b)
    BY <1>2, Zenon DEF Digestable
  <2> QED
    BY <2>1, CanonicalSame
<1>3. CASE ~IsAbsolute(a)
  <2>1. /\ Digestable(a, {RootName}) = CanonicalName(a \o RootName)
        /\ Digestable(b, {RootName}) = CanonicalName(b \o RootName)
    BY <1>1, <1>3, Zenon DEF Digestable
  <2>2. a \o RootName \in ByteNames /\ b \o RootName \in ByteNames
    BY RootIs, JoinedFromEnd
  <2> QED
    BY <2>1, <2>2, CanonicalSame, RootedAlike
<1> QED
  BY <1>2, <1>3

-----------------------------------------------------------------------------
(* Relativity.                                                             *)

LEMMA RelativizedFromEnd ==
    ASSUME NEW a \in ByteNames, NEW b \in ByteNames, NameEndsWith(a, b), b # <<>>,
           NEW r \in {SubSeq(a, 1, Len(a) - Len(b))}
    PROVE  /\ r \in ByteNames /\ Len(r) = Len(a) - Len(b) /\ Len(b) > 0
           /\ \A i \in 1 .. Len(r) : r[i] = a[i] /\ i \in 1 .. Len(a) /\ i # Len(a)
           /\ Alike(a, r \o b)
<1>1. /\ a \in Seq(ByteLabels) /\ b \in Seq(ByteLabels) /\ Len(a) \in Nat /\ Len(b) \in Nat \ {0}
      /\ Len(b) <= Len(a) /\ \A i \in 1 .. Len(a) : a[i] \in ByteLabels
  BY NameIs, EmptySeq DEF NameEndsWith
<1>2. PICK n : n = Len(a) - Len(b) /\ r = SubSeq(a, 1, n)
  OBVIOUS
<1>3. n \in Nat /\ n < Len(a) /\ n + Len(b) = Len(a)
  BY <1>1, <1>2
<1>4. /\ r \in Seq(ByteLabels) /\ Len(r) = n /\ \A i \in 1 .. n : r[i] = a[i]
  <2>1. \A i \in 1 .. n : a[i] \in ByteLabels
    BY <1>1, <1>3
  <2>2. /\ r \in Seq(ByteLabels) /\ Len(r) = (IF 1 <= n THEN n - 1 + 1 ELSE 0)
        /\ \A i \in 1 .. n - 1 + 1 : r[i] = a[1 + i - 1]
    BY <1>2, <1>3, <2>1, SubSeqProperties
  <2>3. n - 1 + 1 = n /\ \A i \in 1 .. n : 1 + i - 1 = i
    BY <1>3
  <2> QED
    BY <1>3, <2>2, <2>3
<1>5. r \in ByteNames
  BY <1>4 DEF ByteNames
<1>6. \A k \in 0 .. n - 1 : FromEnd(r, k) = FromEnd(a, Len(b) + k)
  <2> TAKE k \in 0 .. n - 1
  <2>1. n - k \in 1 .. n /\ Len(a) - (Len(b) + k) = n - k
    BY <1>1, <1>3
  <2> QED
    BY <1>4, <2>1 DEF FromEnd
<1>7. /\ r \o b \in ByteNames /\ Len(r \o b) = Len(r) + Len(b)
      /\ \A k \in 0 .. Len(b) - 1 : FromEnd(r \o b, k) = FromEnd(b, k)
      /\ \A k \in 0 .. Len(r) - 1 : FromEnd(r \o b, Len(b) + k) = FromEnd(r, k)
  BY <1>5, JoinedFromEnd
<1>8. \A k \in 0 .. Len(a) - 1 : FromEnd(a, k) = FromEnd(r \o b, k)
  <2> TAKE k \in 0 .. Len(a) - 1
  <2>1. CASE k < Len(b)
    <3>1. k \in 0 .. Len(b) - 1
      BY <1>1, <2>1
    <3> QED
      BY <1>7, <3>1 DEF NameEndsWith
  <2>2. CASE ~(k < Len(b))
    <3>1. k - Len(b) \in 0 .. n - 1 /\ Len(b) + (k - Len(b)) = k
      BY <1>1, <1>3, <2>2
    <3>2. FromEnd(r \o b, Len(b) + (k - Len(b))) = FromEnd(r, k - Len(b))
      BY <1>4, <1>7, <3>1
    <3>3. FromEnd(r, k - Len(b)) = FromEnd(a, Len(b) + (k - Len(b)))
      BY <1>6, <3>1
    <3> QED
      BY <3>1, <3>2, <3>3
  <2> QED
    BY <2>1, <2>2
<1>9. Alike(a, r \o b)
  BY <1>3, <1>4, <1>7, <1>8 DEF Alike
<1>10. \A i \in 1 .. n : i \in 1 .. Len(a) /\ i # Len(a)
  BY <1>1, <1>3
<1> QED
  BY <1>1, <1>2, <1>4, <1>5, <1>9, <1>10

(* Relative to a name above it, a name ends where that begins.             *)
LEMMA RelativizeIs ==
    ASSUME NEW a \in ByteNames, NEW b \in ByteNames, IsSubdomainOf(a, b), b # <<>>
    PROVE  RelativizeName(a, b) = SubSeq(a, 1, Len(a) - Len(b))
BY Zenon DEF RelativizeName

LEMMA RelativeAndBack ==
    ASSUME NEW a \in ByteNames, NEW b \in ByteNames, MakeName(a).err = "none",
           IsSubdomainOf(a, b), b # <<>>
    PROVE  /\ SameName(RelativizeName(a, b) \o b, a)
           /\ LET back == DerelativizeName(RelativizeName(a, b), b)
              IN  back.err = "none" /\ SameName(back.labels, a)
<1>1. PICK r : r = SubSeq(a, 1, Len(a) - Len(b))
  OBVIOUS
<1>2. RelativizeName(a, b) = r
  BY <1>1, RelativizeIs
<1>3. (IsAbsolute(a) <=> IsAbsolute(b)) /\ NameEndsWith(a, b)
  <2>1. IsAbsolute(a) <=> IsAbsolute(b)
    BY ComparedApart
  <2> QED
    BY <2>1, ComparedIs
<1>4. /\ r \in ByteNames /\ Len(r) = Len(a) - Len(b) /\ Len(b) > 0
      /\ \A i \in 1 .. Len(r) : r[i] = a[i] /\ i \in 1 .. Len(a) /\ i # Len(a)
      /\ Alike(a, r \o b)
  <2>1. NameEndsWith(a, b) /\ r = SubSeq(a, 1, Len(a) - Len(b))
    BY <1>1, <1>3
  <2> HIDE <1>1, <1>3
  <2> QED
    BY <2>1, RelativizedFromEnd
<1>5. r \o b \in ByteNames
  BY <1>4, JoinedFromEnd
<1>6. SameName(r \o b, a)
  <2>1. IsAbsolute(r \o b) <=> IsAbsolute(a)
    BY <1>4, <1>5, AlikeFacts
  <2>2. Alike(r \o b, a)
    BY <1>4, Zenon DEF Alike
  <2> QED
    BY <1>5, <2>1, <2>2, ComparedIs DEF SameName
<1>7. ~IsAbsolute(r)
  <2>1. DOMAIN a = 1 .. Len(a) /\ \A i \in DOMAIN a : a[i] = <<>> => i = Len(a)
    BY MadeIs, NameIs
  <2>2. Len(r) \in Nat /\ (Len(r) > 0 => Len(r) \in 1 .. Len(r))
    BY <1>4, NameIs
  <2>3. Len(r) > 0 => r[Len(r)] # <<>>
    BY <1>4, <2>1, <2>2
  <2>4. r # <<>> => Len(r) > 0
    BY <1>4, <2>2, NameIs, EmptySeq
  <2> QED
    BY <2>3, <2>4 DEF IsAbsolute, Last
<1>8. MakeName(r \o b) = [err |-> "none", labels |-> r \o b]
  BY <1>4, <1>5, MadeAlike
<1>9. DerelativizeName(r, b) = [err |-> "none", labels |-> r \o b]
  BY <1>7, <1>8, Zenon DEF DerelativizeName, ConcatenateNames
<1>10. DerelativizeName(r, b).err = "none" /\ DerelativizeName(r, b).labels = r \o b
  BY <1>9
<1> QED
  BY <1>2, <1>6, <1>10, Zenon

LEMMA SplitJoins ==
    ASSUME NEW a \in ByteNames, NEW depth \in 0 .. Len(a)
    PROVE  SplitName(a, depth)[1] \o SplitName(a, depth)[2] = a
<1>1. a \in Seq(ByteLabels) /\ Len(a) \in Nat
  BY NameIs
<1>2. 1 \in 1 .. Len(a) + 1 /\ Len(a) - depth \in 1 - 1 .. Len(a) /\ Len(a) \in Len(a) - depth .. Len(a)
  BY <1>1
<1>3. SubSeq(a, 1, Len(a) - depth) \o SubSeq(a, Len(a) - depth + 1, Len(a)) = SubSeq(a, 1, Len(a))
  BY <1>1, <1>2, ConcatAdjacentSubSeq
<1>4. SubSeq(a, 1, Len(a)) = a
  BY <1>1, SubSeqFull
<1>5. /\ SplitName(a, depth)[1] = SubSeq(a, 1, Len(a) - depth)
      /\ SplitName(a, depth)[2] = SubSeq(a, Len(a) - depth + 1, Len(a))
  BY DEF SplitName
<1> QED
  BY <1>3, <1>4, <1>5

LEMMA ParentIsAbove ==
    ASSUME NEW a \in ByteNames, MakeName(a).err = "none", ParentOf(a).err = "none"
    PROVE  FullCompare(a, ParentOf(a).labels).relation = "subdomain"
<1>1. a # <<>> /\ a # RootName
  <2>1. a \in {<<>>, RootName} => ParentOf(a) = [err |-> "NoParent", labels |-> <<>>]
    BY Zenon DEF ParentOf, Raised
  <2>2. [err |-> "NoParent", labels |-> <<>>].err # "none"
    OBVIOUS
  <2> QED
    BY <2>1, <2>2, Zenon
<1>2. ParentOf(a) = [err |-> "none", labels |-> Tail(a)]
  BY <1>1, Zenon DEF ParentOf, Is
<1>3. ParentOf(a).labels = Tail(a)
  BY <1>2
<1>4. PICK t : t = Tail(a)
  OBVIOUS
<1>5. /\ t \in Seq(ByteLabels) /\ Len(t) = Len(a) - 1 /\ Len(a) \in Nat \ {0}
      /\ \A i \in 1 .. Len(t) : t[i] = a[i + 1]
  <2>1. a \in Seq(ByteLabels)
    BY NameIs
  <2> QED
    BY <1>1, <1>4, <2>1, HeadTailProperties, EmptySeq
<1>6. t \in ByteNames
  BY <1>5 DEF ByteNames
<1>7. \A k \in 0 .. Len(t) - 1 : FromEnd(a, k) = FromEnd(t, k)
  <2> TAKE k \in 0 .. Len(t) - 1
  <2>1. Len(t) - k \in 1 .. Len(t) /\ (Len(t) - k) + 1 = Len(a) - k
    BY <1>5
  <2> QED
    BY <1>5, <2>1 DEF FromEnd
<1>8. NameEndsWith(a, t) /\ Len(t) < Len(a)
  BY <1>5, <1>7 DEF NameEndsWith
<1>9. IsAbsolute(a) <=> IsAbsolute(t)
  <2>1. CASE Len(t) > 0
    <3>1. 0 \in 0 .. Len(t) - 1 /\ Len(a) > 0
      BY <1>5, <2>1
    <3>2. FromEnd(a, 0) = FromEnd(t, 0)
      BY <1>7, <3>1
    <3> QED
      BY <1>6, <2>1, <3>1, <3>2, NameAbsoluteIs
  <2>2. CASE ~(Len(t) > 0)
    <3>1. Len(a) = 1 /\ Len(t) = 0
      BY <1>5, <2>2
    <3>2. ~IsAbsolute(t)
      BY <1>6, <2>2, NameAbsoluteIs
    <3>3. a[1] # <<>>
      <4>1. a \in Seq(ByteLabels) /\ RootName \in Seq(ByteLabels) /\ Len(RootName) = 1 /\ RootName[1] = <<>>
        BY NameIs, RootIs DEF ByteNames
      <4>2. ASSUME a[1] = <<>> PROVE FALSE
        <5>1. \A i \in 1 .. Len(a) : a[i] = RootName[i]
          BY <3>1, <4>1, <4>2
        <5>2. a = RootName
          BY <3>1, <4>1, <5>1, SeqEqual
        <5> QED
          BY <1>1, <5>2
      <4> QED
        BY <4>2
    <3>4. ~IsAbsolute(a)
      BY <3>1, <3>3 DEF IsAbsolute, Last
    <3> QED
      BY <3>2, <3>4
  <2> QED
    BY <2>1, <2>2
<1>10. FullCompare(a, t).relation = "subdomain"
  BY <1>6, <1>8, <1>9, ComparedIs
<1> QED
  BY <1>3, <1>4, <1>10

-----------------------------------------------------------------------------

LEMMA OrderOfTwo ==
    ASSUME NEW a \in ByteNames, NEW b \in ByteNames
    PROVE  /\ FullCompare(a, b).order < 0 <=> FullCompare(b, a).order > 0
           /\ IsSubdomainOf(a, b) <=> IsSuperdomainOf(b, a)
           /\ (IsAbsolute(a) <=> IsAbsolute(b)) =>
                (FullCompare(a, b).order = 0
                 <=> Digestable(a, {RootName}) = Digestable(b, {RootName}))
<1>1. CASE IsAbsolute(a) <=> IsAbsolute(b)
  <2>1. FullCompare(a, b).order < 0 <=> FullCompare(b, a).order > 0
    BY <1>1, ComparedIs
  <2>2. IsSubdomainOf(a, b) <=> IsSuperdomainOf(b, a)
    BY <1>1, ComparedIs
  <2> QED
    BY <1>1, <2>1, <2>2, ComparedIs, DigestableSame
<1>2. CASE ~(IsAbsolute(a) <=> IsAbsolute(b))
  <2>1. /\ FullCompare(a, b).order = IF IsAbsolute(a) THEN 1 ELSE -1
        /\ FullCompare(b, a).order = IF IsAbsolute(b) THEN 1 ELSE -1
        /\ ~IsSubdomainOf(a, b) /\ ~IsSuperdomainOf(b, a)
    BY <1>2, ComparedApart
  <2>2. CASE IsAbsolute(a)
    <3>1. FullCompare(a, b).order = 1 /\ FullCompare(b, a).order = -1
      BY <1>2, <2>1, <2>2
    <3> QED
      BY <1>2, <2>1, <3>1
  <2>3. CASE ~IsAbsolute(a)
    <3>1. FullCompare(a, b).order = -1 /\ FullCompare(b, a).order = 1
      BY <1>2, <2>1, <2>3
    <3> QED
      BY <1>2, <2>1, <3>1
  <2> QED
    BY <2>2, <2>3
<1> QED
  BY <1>1, <1>2

LEMMA OrderOfThree ==
    ASSUME NEW a \in ByteNames, NEW b \in ByteNames, NEW c \in ByteNames,
           FullCompare(a, b).order < 0, FullCompare(b, c).order <= 0
    PROVE  FullCompare(a, c).order < 0
<1>1. CASE (IsAbsolute(a) <=> IsAbsolute(b)) /\ (IsAbsolute(b) <=> IsAbsolute(c))
  <2>1. NameLess(a, b) /\ FullCompare(b, c).order \in Int
    BY <1>1, ComparedIs
  <2>2. NameLess(b, c) \/ Alike(b, c)
    <3>1. FullCompare(b, c).order < 0 \/ FullCompare(b, c).order = 0
      BY <2>1
    <3> QED
      BY <1>1, <3>1, ComparedIs
  <2>3. NameLess(a, c)
    BY <2>1, <2>2, LessTransitive, AlikeSame
  <2> QED
    BY <1>1, <2>3, ComparedIs
<1>2. CASE ~((IsAbsolute(a) <=> IsAbsolute(b)) /\ (IsAbsolute(b) <=> IsAbsolute(c)))
  <2>1. \A x, y \in ByteNames :
          ~(IsAbsolute(x) <=> IsAbsolute(y)) /\ FullCompare(x, y).order <= 0 => ~IsAbsolute(x) /\ IsAbsolute(y)
    <3> SUFFICES ASSUME NEW x \in ByteNames, NEW y \in ByteNames,
                        ~(IsAbsolute(x) <=> IsAbsolute(y)), FullCompare(x, y).order <= 0
                 PROVE  ~IsAbsolute(x)
      OBVIOUS
    <3>1. ASSUME IsAbsolute(x) PROVE FALSE
      <4>1. FullCompare(x, y).order = 1
        BY <3>1, ComparedApart
      <4> QED
        BY <4>1
    <3> QED
      BY <3>1
  <2>2. FullCompare(a, b).order <= 0
    <3>1. FullCompare(a, b).order \in Int
      <4>1. CASE IsAbsolute(a) <=> IsAbsolute(b)
        BY <4>1, ComparedIs
      <4>2. CASE ~(IsAbsolute(a) <=> IsAbsolute(b))
        <5>1. FullCompare(a, b).order = IF IsAbsolute(a) THEN 1 ELSE -1
          BY <4>2, ComparedApart
        <5> QED
          BY <5>1
      <4> QED
        BY <4>1, <4>2
    <3> QED
      BY <3>1
  <2>3. ~IsAbsolute(a) /\ IsAbsolute(c)
    BY <1>2, <2>1, <2>2
  <2>4. FullCompare(a, c).order = -1
    BY <2>3, ComparedApart
  <2> QED
    BY <2>4
<1> QED
  BY <1>1, <1>2

LEMMA AreOrdered ==
    ASSUME NEW a, IsName(a), NEW names, \A b \in names : IsName(b)
    PROVE  NamesOrdered(a, names)
<1>1. a \in ByteNames /\ MakeName(a).err = "none" /\ \A b \in names : b \in ByteNames
  BY DEF IsName, ByteNames, ByteLabels, Byte
<1>2. ASSUME NEW b \in names
      PROVE  /\ FullCompare(a, b).order < 0 <=> FullCompare(b, a).order > 0
             /\ IsSubdomainOf(a, b) <=> IsSuperdomainOf(b, a)
             /\ (IsAbsolute(a) <=> IsAbsolute(b)) =>
                  (FullCompare(a, b).order = 0
                   <=> Digestable(a, {RootName}) = Digestable(b, {RootName}))
  BY <1>1, OrderOfTwo
<1>3. ASSUME NEW b \in names, NEW c \in names, FullCompare(a, b).order < 0, FullCompare(b, c).order <= 0
      PROVE  FullCompare(a, c).order < 0
  BY <1>1, <1>3, OrderOfThree
<1>4. ASSUME NEW b \in names, IsSubdomainOf(a, b), b # <<>>
      PROVE  /\ SameName(RelativizeName(a, b) \o b, a)
             /\ LET back == DerelativizeName(RelativizeName(a, b), b)
                IN  back.err = "none" /\ SameName(back.labels, a)
  BY <1>1, <1>4, RelativeAndBack
<1>5. \A depth \in 0 .. Len(a) : SplitName(a, depth)[1] \o SplitName(a, depth)[2] = a
  BY <1>1, SplitJoins
<1>6. ParentOf(a).err = "none" => FullCompare(a, ParentOf(a).labels).relation = "subdomain"
  BY <1>1, ParentIsAbove
<1>7. \A b \in names : IsAbsolute(a) = IsAbsolute(b) => (IsAbsolute(a) <=> IsAbsolute(b))
  OBVIOUS
<1>8. \A b \in names :
        LET ab == FullCompare(a, b)
            ba == FullCompare(b, a)
        IN  /\ (ab.order < 0) = (ba.order > 0)
            /\ IsAbsolute(a) = IsAbsolute(b) =>
                 (ab.order = 0) = (Digestable(a, {RootName}) = Digestable(b, {RootName}))
            /\ \A c \in names : ab.order < 0 /\ FullCompare(b, c).order <= 0 => FullCompare(a, c).order < 0
            /\ IsSubdomainOf(a, b) = IsSuperdomainOf(b, a)
            /\ IsSubdomainOf(a, b) /\ b # <<>> =>
                 /\ SameName(RelativizeName(a, b) \o b, a)
                 /\ IsAbsolute(b) => LET back == DerelativizeName(RelativizeName(a, b), b)
                                     IN  back.err = "none" /\ SameName(back.labels, a)
  <2> TAKE b \in names
  <2>1. (FullCompare(a, b).order < 0) = (FullCompare(b, a).order > 0)
    BY <1>2
  <2>2. IsAbsolute(a) = IsAbsolute(b) =>
          (FullCompare(a, b).order = 0) = (Digestable(a, {RootName}) = Digestable(b, {RootName}))
    BY <1>2, <1>7
  <2>3. IsSubdomainOf(a, b) = IsSuperdomainOf(b, a)
    BY <1>2 DEF IsSubdomainOf, IsSuperdomainOf
  <2> QED
    BY <1>3, <1>4, <2>1, <2>2, <2>3, Zenon
<1> QED
  BY <1>5, <1>6, <1>8, Zenon DEF NamesOrdered

-----------------------------------------------------------------------------
(* What is given, if it is a name, is one that Name() makes, and stays.    *)
NamesInit == given.kind = "name" => IsName(given.value)
NamesSpec == NamesInit /\ [][UNCHANGED given]_given

(* Whatever names are compared, their order is total and transitive, as    *)
(* Name.fullcompare makes it, equal are just those that have one digest,   *)
(* and a name made relative by Name.relativize is the same when it is made *)
(* absolute again.                                                         *)
THEOREM NamesAreOrdered == NamesSpec => []OrderAgrees
<1>1. NamesInit => OrderAgrees
  BY AreOrdered, NamesAssumption, Zenon DEF NamesInit, OrderAgrees
<1>2. NamesInit /\ [UNCHANGED given]_given => NamesInit'
  BY DEF NamesInit
<1> QED
  BY <1>1, <1>2, PTL DEF NamesSpec

-----------------------------------------------------------------------------
(* Names: text (NamesSurvive).                                             *)

(* What FlattenSeq has concatenated so far.                                *)
Flattening(s, f, i) == IF i = 1 THEN s[i] ELSE f[i - 1] \o s[i]
Flattens(s, c, f) == f = [i \in 1 .. c |-> Flattening(s, f, i)]

LEMMA FlatsExist ==
    ASSUME NEW s
    PROVE  \A c \in Nat : \E f : Flattens(s, c, f)
<1> DEFINE T == {c \in Nat : ~\E f : Flattens(s, c, f)}
<1>1. 0 \notin T
  <2> DEFINE g == [i \in 1 .. 0 |-> Flattening(s, <<>>, i)]
  <2>1. g = [i \in 1 .. 0 |-> Flattening(s, g, i)]
    OBVIOUS
  <2> HIDE DEF g
  <2>2. Flattens(s, 0, g)
    BY <2>1, Zenon DEF Flattens
  <2> QED
    BY <2>2
<1>2. ASSUME NEW c \in Nat, c \notin T
      PROVE  c + 1 \notin T
  <2>1. PICK f : Flattens(s, c, f)
    BY <1>2
  <2> DEFINE g == [i \in 1 .. c + 1 |-> IF i = c + 1 THEN Flattening(s, f, i) ELSE f[i]]
  <2>2. \A i \in 1 .. c + 1 : g[i] = Flattening(s, g, i)
    <3> TAKE i \in 1 .. c + 1
    <3>1. i # 1 => i - 1 \in 1 .. c + 1 /\ i - 1 # c + 1
      OBVIOUS
    <3>2. i # 1 => g[i - 1] = f[i - 1]
      BY <3>1
    <3>3. Flattening(s, g, i) = Flattening(s, f, i)
      <4> HIDE DEF g
      <4> QED
        BY <3>2, Zenon DEF Flattening
    <3>4. CASE i = c + 1
      <4>1. g[i] = Flattening(s, f, i)
        BY <3>4
      <4> QED
        BY <3>3, <4>1
    <3>5. CASE i # c + 1
      <4>1. i \in 1 .. c /\ g[i] = f[i]
        BY <3>5
      <4>2. f[i] = Flattening(s, f, i)
        BY <2>1, <4>1, Zenon DEF Flattens
      <4> QED
        BY <3>3, <4>1, <4>2
    <3> QED
      BY <3>4, <3>5
  <2>3. g = [i \in 1 .. c + 1 |-> g[i]]
    OBVIOUS
  <2> HIDE DEF g
  <2>4. Flattens(s, c + 1, g)
    BY <2>2, <2>3, Zenon DEF Flattens
  <2> QED
    BY <2>4
<1>3. T \subseteq Nat
  OBVIOUS
<1> HIDE DEF T
<1>4. T = {}
  BY <1>1, <1>2, <1>3, NeverFails
<1> QED
  BY <1>4 DEF T

LEMMA FlattenIs ==
    ASSUME NEW S, NEW s \in Seq(Seq(S))
    PROVE  /\ Len(s) = 0 => FlattenSeq(s) = <<>>
           /\ Len(s) # 0 => \E f : /\ FlattenSeq(s) = f[Len(s)] /\ f[1] = s[1]
                                   /\ \A i \in 1 .. Len(s) : f[i] \in Seq(S)
                                   /\ \A i \in 1 .. Len(s) : i # 1 => f[i] = f[i - 1] \o s[i]
<1>1. Len(s) \in Nat /\ \A i \in 1 .. Len(s) : s[i] \in Seq(S)
  BY LenProperties
<1>2. ASSUME Len(s) = 0 PROVE FlattenSeq(s) = <<>>
  <2>1. FlattenSeq(s) = s
    BY <1>2, Zenon DEF FlattenSeq
  <2> QED
    BY <1>2, <2>1, EmptySeq
<1>3. ASSUME Len(s) # 0
      PROVE  \E f : /\ FlattenSeq(s) = f[Len(s)] /\ f[1] = s[1]
                    /\ \A i \in 1 .. Len(s) : f[i] \in Seq(S)
                    /\ \A i \in 1 .. Len(s) : i # 1 => f[i] = f[i - 1] \o s[i]
  <2> DEFINE f == CHOOSE f : Flattens(s, Len(s), f)
  <2>1. Flattens(s, Len(s), f)
    BY <1>1, FlatsExist, Zenon
  <2>2. FlattenSeq(s) = f[Len(s)]
    BY <1>3, Zenon DEF FlattenSeq, Flattens, Flattening
  <2> HIDE DEF f
  <2>3. \A i \in 1 .. Len(s) : f[i] = Flattening(s, f, i)
    BY <2>1, Zenon DEF Flattens
  <2>4. 1 \in 1 .. Len(s)
    BY <1>1, <1>3
  <2>5. f[1] = s[1]
    BY <2>3, <2>4, Zenon DEF Flattening
  <2>6. \A i \in 1 .. Len(s) : i # 1 => f[i] = f[i - 1] \o s[i]
    BY <2>3, Zenon DEF Flattening
  <2> DEFINE T == {i \in Nat : i \in 1 .. Len(s) /\ f[i] \notin Seq(S)}
  <2>7. 0 \notin T
    OBVIOUS
  <2>8. ASSUME NEW i \in Nat, i \notin T PROVE i + 1 \notin T
    <3> SUFFICES ASSUME i + 1 \in 1 .. Len(s) PROVE f[i + 1] \in Seq(S)
      OBVIOUS
    <3>1. CASE i = 0
      <4>1. f[1] \in Seq(S)
        BY <1>1, <2>4, <2>5
      <4> QED
        BY <3>1, <4>1
    <3>2. CASE i # 0
      <4>1. i \in 1 .. Len(s) /\ i + 1 # 1 /\ (i + 1) - 1 = i
        BY <1>1, <3>2
      <4>2. f[i] \in Seq(S)
        BY <2>8, <4>1
      <4>3. f[i + 1] = f[i] \o s[i + 1] /\ s[i + 1] \in Seq(S)
        BY <1>1, <2>6, <4>1
      <4> QED
        BY <4>2, <4>3, ConcatProperties
    <3> QED
      BY <3>1, <3>2
  <2>9. T \subseteq Nat
    OBVIOUS
  <2> HIDE DEF T
  <2>10. T = {}
    BY <2>7, <2>8, <2>9, NeverFails
  <2>11. \A i \in 1 .. Len(s) : f[i] \in Seq(S)
    BY <2>10 DEF T
  <2> QED
    BY <2>2, <2>5, <2>6, <2>11
<1> QED
  BY <1>2, <1>3

-----------------------------------------------------------------------------
(* Reading a text from one state of the reader leads to another.           *)
Course(f, st, text, form) ==
    f[0] = st /\ \A n \in 1 .. Len(text) : f[n] = ReadChar(f[n - 1], text[n], form)
ReadsTo(st, text, form, end) == \E f : Course(f, st, text, form) /\ f[Len(text)] = end

LEMMA ReadsNothing ==
    ASSUME NEW st, NEW form
    PROVE  ReadsTo(st, <<>>, form, st)
<1> DEFINE f == [n \in 0 .. 0 |-> st]
<1>1. f[0] = st /\ Len(<<>>) = 0 /\ \A n \in 1 .. 0 : FALSE
  OBVIOUS
<1> HIDE DEF f
<1>2. Course(f, st, <<>>, form) /\ f[Len(<<>>)] = st
  BY <1>1 DEF Course
<1> QED
  BY <1>2 DEF ReadsTo

LEMMA ReadsOne ==
    ASSUME NEW st, NEW form, NEW c
    PROVE  ReadsTo(st, <<c>>, form, ReadChar(st, c, form))
<1> DEFINE f == [n \in 0 .. 1 |-> IF n = 0 THEN st ELSE ReadChar(st, c, form)]
<1>1. f[0] = st /\ f[1] = ReadChar(st, c, form) /\ Len(<<c>>) = 1 /\ <<c>>[1] = c
  OBVIOUS
<1>2. \A n \in 1 .. 1 : n = 1 /\ n - 1 = 0
  OBVIOUS
<1> HIDE DEF f
<1>3. \A n \in 1 .. Len(<<c>>) : f[n] = ReadChar(f[n - 1], <<c>>[n], form)
  BY <1>1, <1>2, Zenon
<1>4. Course(f, st, <<c>>, form) /\ f[Len(<<c>>)] = ReadChar(st, c, form)
  BY <1>1, <1>3, Zenon DEF Course
<1> QED
  BY <1>4, Zenon DEF ReadsTo

LEMMA ReadsOn ==
    ASSUME NEW s \in Seq(Nat), NEW t \in Seq(Nat), NEW form, NEW x, NEW y, NEW z,
           ReadsTo(x, s, form, y), ReadsTo(y, t, form, z)
    PROVE  ReadsTo(x, s \o t, form, z)
<1>1. PICK f : Course(f, x, s, form) /\ f[Len(s)] = y
  BY DEF ReadsTo
<1>2. PICK g : Course(g, y, t, form) /\ g[Len(t)] = z
  BY DEF ReadsTo
<1>3. /\ f[0] = x /\ \A n \in 1 .. Len(s) : f[n] = ReadChar(f[n - 1], s[n], form)
      /\ g[0] = y /\ \A n \in 1 .. Len(t) : g[n] = ReadChar(g[n - 1], t[n], form)
  BY <1>1, <1>2, Zenon DEF Course
<1>4. /\ Len(s) \in Nat /\ Len(t) \in Nat /\ Len(s \o t) = Len(s) + Len(t)
      /\ \A n \in 1 .. Len(s) + Len(t) : (s \o t)[n] = IF n <= Len(s) THEN s[n] ELSE t[n - Len(s)]
  BY LenProperties, ConcatProperties
<1> DEFINE h == [n \in 0 .. Len(s) + Len(t) |-> IF n <= Len(s) THEN f[n] ELSE g[n - Len(s)]]
<1>5. /\ \A n \in 0 .. Len(s) : h[n] = f[n]
      /\ \A n \in 0 .. Len(t) : h[Len(s) + n] = g[n]
  <2>1. \A n \in 0 .. Len(s) : n \in 0 .. Len(s) + Len(t) /\ n <= Len(s)
    BY <1>4
  <2>2. \A n \in 0 .. Len(s) : h[n] = f[n]
    BY <2>1
  <2>3. ASSUME NEW n \in 0 .. Len(t) PROVE h[Len(s) + n] = g[n]
    <3>1. CASE n = 0
      <4>1. Len(s) \in 0 .. Len(s) /\ Len(s) + n = Len(s)
        BY <1>4, <3>1
      <4>2. h[Len(s)] = f[Len(s)]
        BY <2>2, <4>1
      <4> HIDE DEF h
      <4> QED
        BY <1>1, <1>3, <3>1, <4>1, <4>2
    <3>2. CASE n # 0
      <4>1. Len(s) + n \in 0 .. Len(s) + Len(t) /\ ~(Len(s) + n <= Len(s)) /\ (Len(s) + n) - Len(s) = n
        BY <1>4, <3>2
      <4> QED
        BY <4>1
    <3> QED
      BY <3>1, <3>2
  <2> QED
    BY <2>2, <2>3
<1> HIDE DEF h
<1>6. ASSUME NEW n \in 1 .. Len(s \o t) PROVE h[n] = ReadChar(h[n - 1], (s \o t)[n], form)
  <2>1. CASE n <= Len(s)
    <3>1. n \in 1 .. Len(s) /\ n \in 0 .. Len(s) /\ n - 1 \in 0 .. Len(s) /\ n \in 1 .. Len(s) + Len(t)
      BY <1>4, <2>1
    <3>2. h[n] = f[n] /\ h[n - 1] = f[n - 1] /\ (s \o t)[n] = s[n]
      BY <1>4, <1>5, <2>1, <3>1
    <3> QED
      BY <1>3, <3>1, <3>2
  <2>2. CASE ~(n <= Len(s))
    <3>1. PICK k : k = n - Len(s)
      OBVIOUS
    <3>2. /\ k \in 1 .. Len(t) /\ k \in 0 .. Len(t) /\ k - 1 \in 0 .. Len(t) /\ n \in 1 .. Len(s) + Len(t)
          /\ Len(s) + k = n /\ Len(s) + (k - 1) = n - 1
      BY <1>4, <2>2, <3>1
    <3>3. h[n] = g[k] /\ h[n - 1] = g[k - 1] /\ (s \o t)[n] = t[k]
      <4>1. h[Len(s) + k] = g[k] /\ h[Len(s) + (k - 1)] = g[k - 1]
        BY <1>5, <3>2
      <4>2. (s \o t)[n] = t[k]
        BY <1>4, <2>2, <3>1, <3>2
      <4> QED
        BY <3>2, <4>1, <4>2
    <3> QED
      BY <1>3, <3>2, <3>3
  <2> QED
    BY <2>1, <2>2
<1>7. h[0] = x /\ h[Len(s \o t)] = z
  <2>1. 0 \in 0 .. Len(s) /\ Len(t) \in 0 .. Len(t)
    BY <1>4
  <2> QED
    BY <1>2, <1>3, <1>4, <1>5, <2>1
<1>8. Course(h, x, s \o t, form)
  BY <1>6, <1>7 DEF Course
<1> QED
  BY <1>7, <1>8 DEF ReadsTo

(* There is one end only: the one ReadName computes.                       *)
Computed(st, text, form) ==
    LET reads[n \in 0 .. Len(text)] == IF n = 0 THEN st ELSE ReadChar(reads[n - 1], text[n], form)
    IN  reads[Len(text)]

LEMMA ReadsComputed ==
    ASSUME NEW st, NEW text \in Seq(Nat), NEW form, NEW end, ReadsTo(st, text, form, end)
    PROVE  Computed(st, text, form) = end
<1>1. PICK f : Course(f, st, text, form) /\ f[Len(text)] = end
  BY DEF ReadsTo
<1>2. f[0] = st /\ \A n \in 1 .. Len(text) : f[n] = ReadChar(f[n - 1], text[n], form)
  BY <1>1, Zenon DEF Course
<1>3. Len(text) \in Nat
  BY LenProperties
<1> DEFINE Tracks(g) == g = [n \in 0 .. Len(text) |-> IF n = 0 THEN st ELSE ReadChar(g[n - 1], text[n], form)]
           h == [n \in 0 .. Len(text) |-> f[n]]
           g == CHOOSE g : Tracks(g)
<1>4. Tracks(h)
  <2>1. ASSUME NEW n \in 0 .. Len(text)
        PROVE  f[n] = IF n = 0 THEN st ELSE ReadChar(h[n - 1], text[n], form)
    <3>1. CASE n = 0
      BY <1>2, <3>1
    <3>2. CASE n # 0
      <4>1. n \in 1 .. Len(text) /\ n - 1 \in 0 .. Len(text)
        BY <1>3, <3>2
      <4>2. h[n - 1] = f[n - 1]
        BY <4>1
      <4> HIDE DEF h
      <4> QED
        BY <1>2, <3>2, <4>1, <4>2
    <3> QED
      BY <3>1, <3>2
  <2>2. h = [n \in 0 .. Len(text) |-> IF n = 0 THEN st ELSE ReadChar(h[n - 1], text[n], form)]
    <3>1. h = [n \in 0 .. Len(text) |-> f[n]]
      OBVIOUS
    <3> HIDE DEF h
    <3> QED
      BY <2>1, <3>1, Zenon
  <2> HIDE DEF h
  <2> QED
    BY <2>2, Zenon
<1> HIDE DEF h
<1>5. Tracks(g)
  BY <1>4, Zenon
<1>6. \A n \in 0 .. Len(text) : g[n] = IF n = 0 THEN st ELSE ReadChar(g[n - 1], text[n], form)
  <2> HIDE DEF g
  <2> QED
    BY <1>5, Zenon
<1> DEFINE T == {n \in Nat : n <= Len(text) /\ g[n] # f[n]}
<1>7. 0 \notin T
  <2>1. g[0] = st
    <3>1. 0 \in 0 .. Len(text)
      BY <1>3
    <3> HIDE DEF g
    <3> QED
      BY <1>6, <3>1
  <2> HIDE DEF g
  <2> QED
    BY <1>2, <2>1
<1>8. ASSUME NEW n \in Nat, n \notin T PROVE n + 1 \notin T
  <2> HIDE DEF g
  <2> SUFFICES ASSUME n + 1 <= Len(text) PROVE g[n + 1] = f[n + 1]
    OBVIOUS
  <2>1. n <= Len(text) /\ n + 1 \in 1 .. Len(text) /\ n + 1 \in 0 .. Len(text) /\ n + 1 # 0 /\ (n + 1) - 1 = n
    BY <1>3
  <2>2. g[n] = f[n]
    BY <1>8, <2>1
  <2>3. g[n + 1] = ReadChar(g[n], text[n + 1], form)
    BY <1>6, <2>1
  <2>4. f[n + 1] = ReadChar(f[n], text[n + 1], form)
    BY <1>2, <2>1
  <2> QED
    BY <2>2, <2>3, <2>4
<1>9. T \subseteq Nat
  OBVIOUS
<1> HIDE DEF T
<1>10. T = {}
  BY <1>7, <1>8, <1>9, NeverFails
<1>11. g[Len(text)] = end
  <2>1. Len(text) \notin T /\ Len(text) <= Len(text)
    BY <1>3, <1>10
  <2> HIDE DEF g
  <2>2. g[Len(text)] = f[Len(text)]
    BY <1>3, <2>1 DEF T
  <2> QED
    BY <1>1, <2>2
<1> QED
  BY <1>11, Zenon DEF Computed

-----------------------------------------------------------------------------
(* The reader between two escapes, and inside one.                         *)
Fields == {"labels", "label", "escaping", "digits", "total", "err"}
Out(st, L, l) ==
    DOMAIN st = Fields /\ st.labels = L /\ st.label = l /\ st.escaping = FALSE /\ st.err = "none"
InLabel(st, L, l, d, t) ==
    /\ DOMAIN st = Fields /\ st.labels = L /\ st.label = l /\ st.escaping = TRUE /\ st.err = "none"
    /\ st.digits = d /\ st.total = t

LEMMA OutIs ==
    ASSUME NEW L, NEW l, NEW st, Out(st, L, l)
    PROVE  /\ st.labels = L /\ st.label = l /\ st.escaping = FALSE /\ st.err = "none"
           /\ \A m : Out([st EXCEPT !.label = m], L, m)
           /\ InLabel([st EXCEPT !.escaping = TRUE, !.digits = 0, !.total = 0], L, l, 0, 0)
           /\ \A M : Out([st EXCEPT !.label = <<>>, !.err = "none", !.labels = M], M, <<>>)
BY DEF Out, InLabel, Fields

LEMMA InIs ==
    ASSUME NEW L, NEW l, NEW d, NEW t, NEW st, InLabel(st, L, l, d, t)
    PROVE  /\ st.labels = L /\ st.label = l /\ st.escaping = TRUE /\ st.err = "none"
           /\ st.digits = d /\ st.total = t
           /\ \A m : Out([st EXCEPT !.label = m, !.escaping = FALSE], L, m)
           /\ \A e, u : InLabel([st EXCEPT !.digits = e, !.total = u], L, l, e, u)
BY DEF Out, InLabel, Fields

LEMMA ReadPlain ==
    ASSUME NEW L, NEW l, NEW st, Out(st, L, l), NEW c, NEW form, c \notin DotsOf(form), c # 92
    PROVE  Out(ReadChar(st, c, form), L, Append(l, c))
<1>1. st.err = "none" /\ st.escaping = FALSE /\ st.label = l
  BY Zenon DEF Out
<1>2. ReadChar(st, c, form) = [st EXCEPT !.label = Append(l, c)]
  BY <1>1, Zenon DEF ReadChar
<1>3. Out([st EXCEPT !.label = Append(l, c)], L, Append(l, c))
  BY OutIs, Zenon
<1> QED
  BY <1>2, <1>3, Zenon

LEMMA ReadBackslash ==
    ASSUME NEW L, NEW l, NEW st, Out(st, L, l), NEW form, 92 \notin DotsOf(form)
    PROVE  InLabel(ReadChar(st, 92, form), L, l, 0, 0)
<1>1. st.err = "none" /\ st.escaping = FALSE
  BY Zenon DEF Out
<1>2. ReadChar(st, 92, form) = [st EXCEPT !.escaping = TRUE, !.digits = 0, !.total = 0]
  BY <1>1, Zenon DEF ReadChar
<1>3. InLabel([st EXCEPT !.escaping = TRUE, !.digits = 0, !.total = 0], L, l, 0, 0)
  BY OutIs, Zenon
<1> QED
  BY <1>2, <1>3, Zenon

LEMMA ReadEscaped ==
    ASSUME NEW L, NEW l, NEW t, NEW st, InLabel(st, L, l, 0, t), NEW c, NEW form, ~IsDigit(c)
    PROVE  Out(ReadChar(st, c, form), L, Append(l, c))
<1>1. st.err = "none" /\ st.escaping = TRUE /\ st.digits = 0 /\ st.label = l
  BY Zenon DEF InLabel
<1>2. ReadChar(st, c, form) = [st EXCEPT !.label = Append(l, c), !.escaping = FALSE]
  BY <1>1, Zenon DEF ReadChar
<1>3. Out([st EXCEPT !.label = Append(l, c), !.escaping = FALSE], L, Append(l, c))
  BY InIs, Zenon
<1> QED
  BY <1>2, <1>3, Zenon

LEMMA ReadDigit ==
    ASSUME NEW L, NEW l, NEW d, NEW t, NEW st, InLabel(st, L, l, d, t), NEW c, NEW form, NEW e, NEW u,
           IsDigit(c), d < 2, e = d + 1, u = t * 10 + c - 48
    PROVE  InLabel(ReadChar(st, c, form), L, l, e, u)
<1>1. st.err = "none" /\ st.escaping = TRUE /\ st.digits = d /\ st.total = t
  BY Zenon DEF InLabel
<1>2. st.digits < 2 /\ st.digits + 1 = e /\ st.total * 10 + c - 48 = u
  BY <1>1, Zenon
<1>3. ReadChar(st, c, form) = [st EXCEPT !.digits = e, !.total = u]
  BY <1>1, <1>2, Zenon DEF ReadChar
<1>4. InLabel([st EXCEPT !.digits = e, !.total = u], L, l, e, u)
  BY DEF InLabel, Fields
<1> QED
  BY <1>3, <1>4, Zenon

LEMMA ReadLastDigit ==
    ASSUME NEW L, NEW l, NEW t, NEW st, InLabel(st, L, l, 2, t), NEW c, NEW form, NEW u,
           IsDigit(c), u = t * 10 + c - 48, ~(u > 255)
    PROVE  Out(ReadChar(st, c, form), L, Append(l, u))
<1>1. st.err = "none" /\ st.escaping = TRUE /\ st.digits = 2 /\ st.total = t /\ st.label = l
  BY Zenon DEF InLabel
<1>2. ~(2 < 2) /\ 2 # 0
  OBVIOUS
<1>3. st.total * 10 + c - 48 = u /\ ~(st.digits < 2) /\ st.digits # 0
  BY <1>1, <1>2, Zenon
<1>4. ReadChar(st, c, form) = [st EXCEPT !.label = Append(l, u), !.escaping = FALSE]
  BY <1>1, <1>3, Zenon DEF ReadChar
<1>5. Out([st EXCEPT !.label = Append(l, u), !.escaping = FALSE], L, Append(l, u))
  BY InIs, Zenon
<1> QED
  BY <1>4, <1>5, Zenon

LEMMA ReadDot ==
    ASSUME NEW L, NEW l, NEW st, Out(st, L, l), NEW form, NEW x, 46 \in DotsOf(form), l # <<>>,
           EncodeLabel(l, form) = [err |-> "none", labels |-> <<x>>]
    PROVE  Out(ReadChar(st, 46, form), L \o <<x>>, <<>>)
<1> DEFINE coded == [err |-> "none", labels |-> <<x>>]
<1>1. st.err = "none" /\ st.escaping = FALSE /\ st.label = l /\ st.labels = L
  BY Zenon DEF Out
<1>2. coded.err = "none" /\ coded.labels = <<x>>
  OBVIOUS
<1> HIDE DEF coded
<1>3. EncodeLabel(l, form) = coded
  BY DEF coded
<1>4. ReadChar(st, 46, form) = [st EXCEPT !.label = <<>>, !.err = coded.err, !.labels = L \o coded.labels]
  BY <1>1, <1>3, Zenon DEF ReadChar
<1>5. Out([st EXCEPT !.label = <<>>, !.err = "none", !.labels = L \o <<x>>], L \o <<x>>, <<>>)
  BY OutIs, Zenon
<1> QED
  BY <1>2, <1>4, <1>5, Zenon

-----------------------------------------------------------------------------
(* Reading text takes the reader, out of an escape, from one label to      *)
(* another.                                                                *)
Reads(L, l, text, form, M, m) ==
    \A st : Out(st, L, l) => \E end : Out(end, M, m) /\ ReadsTo(st, text, form, end)

LEMMA ReadsThrough ==
    ASSUME NEW s \in Seq(Nat), NEW t \in Seq(Nat), NEW form, NEW L, NEW l, NEW M, NEW m, NEW N, NEW n,
           Reads(L, l, s, form, M, m), Reads(M, m, t, form, N, n)
    PROVE  Reads(L, l, s \o t, form, N, n)
<1> SUFFICES ASSUME NEW x, Out(x, L, l)
             PROVE  \E z : Out(z, N, n) /\ ReadsTo(x, s \o t, form, z)
  BY Zenon DEF Reads
<1>1. PICK y : Out(y, M, m) /\ ReadsTo(x, s, form, y)
  BY Zenon DEF Reads
<1>2. PICK z : Out(z, N, n) /\ ReadsTo(y, t, form, z)
  BY <1>1, Zenon DEF Reads
<1>3. ReadsTo(x, s \o t, form, z)
  BY <1>1, <1>2, ReadsOn, Zenon
<1> QED
  BY <1>2, <1>3, Zenon

LEMMA DotsAre ==
    ASSUME NEW form
    PROVE  /\ 46 \in DotsOf(form)
           /\ \A c \in 0 .. 127 : c # 46 => c \notin DotsOf(form)
           /\ \A c : c \in DotsOf(form) => c \in Dots
BY DEF DotsOf, Dots

LEMMA PlainRead ==
    ASSUME NEW L, NEW l, NEW form, NEW c, c \notin DotsOf(form), c # 92
    PROVE  Reads(L, l, <<c>>, form, L, Append(l, c))
<1> SUFFICES ASSUME NEW x, Out(x, L, l)
             PROVE  \E z : Out(z, L, Append(l, c)) /\ ReadsTo(x, <<c>>, form, z)
  BY Zenon DEF Reads
<1>1. Out(ReadChar(x, c, form), L, Append(l, c)) /\ ReadsTo(x, <<c>>, form, ReadChar(x, c, form))
  BY ReadsOne, ReadPlain, Zenon
<1> QED
  BY <1>1, Zenon

LEMMA DotRead ==
    ASSUME NEW L, NEW l, NEW form, NEW x, l # <<>>, EncodeLabel(l, form) = [err |-> "none", labels |-> <<x>>]
    PROVE  Reads(L, l, <<46>>, form, L \o <<x>>, <<>>)
<1> SUFFICES ASSUME NEW y, Out(y, L, l)
             PROVE  \E z : Out(z, L \o <<x>>, <<>>) /\ ReadsTo(y, <<46>>, form, z)
  BY Zenon DEF Reads
<1>1. Out(ReadChar(y, 46, form), L \o <<x>>, <<>>) /\ ReadsTo(y, <<46>>, form, ReadChar(y, 46, form))
  BY ReadsOne, ReadDot, DotsAre, Zenon
<1> QED
  BY <1>1, Zenon

LEMMA TwoBytes ==
    ASSUME NEW a \in Nat, NEW b \in Nat
    PROVE  <<a>> \o <<b>> = <<a, b>>
<1> DEFINE u == Append(<<a>>, b)   v == <<a, b>>
<1>1. <<a>> \o <<b>> = u
  OBVIOUS
<1>2. u \in Seq(Nat) /\ v \in Seq(Nat) /\ Len(u) = 2 /\ Len(v) = 2
  OBVIOUS
<1>3. u[1] = a /\ u[2] = b /\ v[1] = a /\ v[2] = b /\ \A i \in 1 .. 2 : i = 1 \/ i = 2
  OBVIOUS
<1> HIDE DEF u, v
<1>4. \A i \in 1 .. 2 : u[i] = v[i]
  BY <1>3
<1>5. u = v
  BY <1>2, <1>4, SeqEqual
<1> QED
  BY <1>1, <1>5, Zenon DEF v

LEMMA FourBytes ==
    ASSUME NEW a \in Nat, NEW b \in Nat, NEW c \in Nat, NEW d \in Nat
    PROVE  <<a>> \o <<b>> \o <<c>> \o <<d>> = <<a, b, c, d>>
<1> DEFINE u == Append(Append(Append(<<a>>, b), c), d)   v == <<a, b, c, d>>
<1>1. <<a>> \o <<b>> \o <<c>> \o <<d>> = u
  OBVIOUS
<1>2. u \in Seq(Nat) /\ v \in Seq(Nat) /\ Len(u) = 4 /\ Len(v) = 4
  OBVIOUS
<1>3. /\ u[1] = a /\ u[2] = b /\ u[3] = c /\ u[4] = d
      /\ v[1] = a /\ v[2] = b /\ v[3] = c /\ v[4] = d
      /\ \A i \in 1 .. 4 : i = 1 \/ i = 2 \/ i = 3 \/ i = 4
  OBVIOUS
<1> HIDE DEF u, v
<1>4. \A i \in 1 .. 4 : u[i] = v[i]
  BY <1>3
<1>5. u = v
  BY <1>2, <1>4, SeqEqual
<1> QED
  BY <1>1, <1>5, Zenon DEF v

LEMMA EscapeRead ==
    ASSUME NEW L, NEW l, NEW form, NEW c \in Nat, ~IsDigit(c)
    PROVE  Reads(L, l, <<92, c>>, form, L, Append(l, c))
<1> SUFFICES ASSUME NEW x, Out(x, L, l)
             PROVE  \E z : Out(z, L, Append(l, c)) /\ ReadsTo(x, <<92, c>>, form, z)
  BY Zenon DEF Reads
<1>1. 92 \notin DotsOf(form)
  BY DotsAre
<1>2. PICK y : InLabel(y, L, l, 0, 0) /\ ReadsTo(x, <<92>>, form, y)
  BY <1>1, ReadsOne, ReadBackslash, ZenonT(40)
<1>3. PICK z : Out(z, L, Append(l, c)) /\ ReadsTo(y, <<c>>, form, z)
  BY <1>2, ReadsOne, ReadEscaped, Zenon
<1>4. <<92>> \in Seq(Nat) /\ <<c>> \in Seq(Nat) /\ <<92>> \o <<c>> = <<92, c>>
  BY TwoBytes
<1>5. ReadsTo(x, <<92>> \o <<c>>, form, z)
  BY <1>2, <1>3, <1>4, ReadsOn, Zenon
<1> QED
  BY <1>3, <1>4, <1>5, Zenon

LEMMA DigitsRead ==
    ASSUME NEW L, NEW l, NEW form, NEW x \in 0 .. 9, NEW y \in 0 .. 9, NEW z \in 0 .. 9,
           ~(x * 100 + y * 10 + z > 255)
    PROVE  Reads(L, l, <<92, 48 + x, 48 + y, 48 + z>>, form, L, Append(l, x * 100 + y * 10 + z))
<1> DEFINE text == <<92, 48 + x, 48 + y, 48 + z>>
           c == x * 100 + y * 10 + z
<1> SUFFICES ASSUME NEW st, Out(st, L, l)
             PROVE  \E end : Out(end, L, Append(l, c)) /\ ReadsTo(st, text, form, end)
  BY Zenon DEF Reads
<1>1. 92 \notin DotsOf(form)
  BY DotsAre
<1>2. PICK st0 : InLabel(st0, L, l, 0, 0) /\ ReadsTo(st, <<92>>, form, st0)
  BY <1>1, ReadsOne, ReadBackslash, ZenonT(40)
<1>3. /\ 48 + x \in Nat /\ 48 + y \in Nat /\ 48 + z \in Nat
      /\ IsDigit(48 + x) /\ IsDigit(48 + y) /\ IsDigit(48 + z)
  BY DEF IsDigit
<1>4. /\ x = 0 * 10 + (48 + x) - 48 /\ x * 10 + y = x * 10 + (48 + y) - 48
      /\ c = (x * 10 + y) * 10 + (48 + z) - 48 /\ ~(c > 255)
      /\ 0 < 2 /\ 1 < 2 /\ 1 = 0 + 1 /\ 2 = 1 + 1
  OBVIOUS
<1> HIDE DEF c
<1>5. PICK st1 : InLabel(st1, L, l, 1, x) /\ ReadsTo(st0, <<48 + x>>, form, st1)
  BY <1>2, <1>3, <1>4, ReadsOne, ReadDigit, ZenonT(40)
<1>6. PICK st2 : InLabel(st2, L, l, 2, x * 10 + y) /\ ReadsTo(st1, <<48 + y>>, form, st2)
  BY <1>3, <1>4, <1>5, ReadsOne, ReadDigit, ZenonT(40)
<1>7. PICK st3 : Out(st3, L, Append(l, c)) /\ ReadsTo(st2, <<48 + z>>, form, st3)
  BY <1>3, <1>4, <1>6, ReadsOne, ReadLastDigit, ZenonT(40)
<1>8. /\ <<92>> \in Seq(Nat) /\ <<48 + x>> \in Seq(Nat) /\ <<48 + y>> \in Seq(Nat) /\ <<48 + z>> \in Seq(Nat)
      /\ <<92>> \o <<48 + x>> \in Seq(Nat) /\ <<92>> \o <<48 + x>> \o <<48 + y>> \in Seq(Nat)
  BY <1>3
<1>9. <<92>> \o <<48 + x>> \o <<48 + y>> \o <<48 + z>> = text
  BY <1>3, FourBytes
<1> HIDE DEF text
<1>10. ReadsTo(st, <<92>> \o <<48 + x>>, form, st1)
  BY <1>2, <1>5, <1>8, ReadsOn, Zenon
<1>11. ReadsTo(st, <<92>> \o <<48 + x>> \o <<48 + y>>, form, st2)
  BY <1>6, <1>8, <1>10, ReadsOn, Zenon
<1>12. ReadsTo(st, text, form, st3)
  BY <1>7, <1>8, <1>9, <1>11, ReadsOn, ZenonT(40)
<1> QED
  BY <1>7, <1>12, Zenon

(* An escaped byte is read as that byte, in either form.                   *)
LEMMA ByteReads ==
    ASSUME NEW c \in Byte
    PROVE  /\ EscapedByte(c) \in Seq(0 .. 126) /\ Len(EscapedByte(c)) > 0
           /\ EscapedByte(c)[1] \notin {46, 64}
           /\ \A L, l, form : Reads(L, l, EscapedByte(c), form, L, Append(l, c))
<1>0. c \in Nat /\ c <= 255
  BY DEF Byte
<1>1. CASE c \in Special
  <2>1. EscapedByte(c) = <<92, c>>
    BY <1>1 DEF EscapedByte
  <2>2. c \in 0 .. 126 /\ ~IsDigit(c)
    BY <1>1 DEF Special, IsDigit
  <2>3. <<92, c>> \in Seq(0 .. 126) /\ Len(<<92, c>>) > 0 /\ <<92, c>>[1] \notin {46, 64}
    BY <2>2
  <2>4. \A L, l, form : Reads(L, l, <<92, c>>, form, L, Append(l, c))
    BY <1>0, <2>2, EscapeRead
  <2> QED
    BY <2>1, <2>3, <2>4
<1>2. CASE c \notin Special /\ c \in 33..126
  <2>1. EscapedByte(c) = <<c>>
    BY <1>2 DEF EscapedByte
  <2>2. c \in 0 .. 126 /\ c # 46 /\ c # 64 /\ c # 92
    BY <1>2 DEF Special
  <2>3. <<c>> \in Seq(0 .. 126) /\ Len(<<c>>) > 0 /\ <<c>>[1] \notin {46, 64}
    BY <2>2
  <2>4. c \in 0 .. 127
    BY <2>2
  <2>5. \A L, l, form : Reads(L, l, <<c>>, form, L, Append(l, c))
    BY <2>2, <2>4, PlainRead, DotsAre
  <2> QED
    BY <2>1, <2>3, <2>5
<1>3. CASE c \notin Special /\ c \notin 33..126
  <2> DEFINE x == c \div 100   y == (c \div 10) % 10   z == c % 10
  <2>1. EscapedByte(c) = <<92, 48 + x, 48 + y, 48 + z>>
    BY <1>3, Zenon DEF EscapedByte
  <2>2. x \in 0 .. 9 /\ y \in 0 .. 9 /\ z \in 0 .. 9 /\ x * 100 + y * 10 + z = c
    BY <1>0
  <2> HIDE DEF x, y, z
  <2>3. /\ <<92, 48 + x, 48 + y, 48 + z>> \in Seq(0 .. 126) /\ Len(<<92, 48 + x, 48 + y, 48 + z>>) > 0
        /\ <<92, 48 + x, 48 + y, 48 + z>>[1] \notin {46, 64}
    BY <2>2
  <2>4. ~(x * 100 + y * 10 + z > 255)
    BY <1>0, <2>2
  <2>5. \A L, l, form : Reads(L, l, <<92, 48 + x, 48 + y, 48 + z>>, form, L, Append(l, x * 100 + y * 10 + z))
    BY <2>2, <2>4, DigitsRead, ZenonT(40)
  <2>6. \A L, l, form : Reads(L, l, <<92, 48 + x, 48 + y, 48 + z>>, form, L, Append(l, c))
    BY <2>2, <2>5, Zenon
  <2> QED
    BY <2>1, <2>3, <2>6
<1> QED
  BY <1>1, <1>2, <1>3

-----------------------------------------------------------------------------
LEMMA SeqOfLess ==
    ASSUME NEW S, NEW R, S \subseteq R
    PROVE  Seq(S) \subseteq Seq(R)
<1> SUFFICES ASSUME NEW x \in Seq(S) PROVE x \in Seq(R)
  OBVIOUS
<1>1. Len(x) \in Nat /\ x \in [1 .. Len(x) -> S]
  BY LenProperties
<1>2. x \in [1 .. Len(x) -> R]
  BY <1>1
<1> QED
  BY <1>1, <1>2

LEMMA ConcatIs ==
    ASSUME NEW S, NEW x \in Seq(S), NEW y \in Seq(S)
    PROVE  /\ x \o y \in Seq(S) /\ Len(x) \in Nat /\ Len(y) \in Nat /\ Len(x \o y) = Len(x) + Len(y)
           /\ \A q \in 1 .. Len(x) : q \in 1 .. Len(x \o y) /\ (x \o y)[q] = x[q]
           /\ \A q \in 1 .. Len(y) : Len(x) + q \in 1 .. Len(x \o y) /\ (x \o y)[Len(x) + q] = y[q]
<1>1. Len(x) \in Nat /\ Len(y) \in Nat /\ x \o y \in Seq(S) /\ Len(x \o y) = Len(x) + Len(y)
  BY LenProperties, ConcatProperties
<1>2. \A q \in 1 .. Len(x) + Len(y) : (x \o y)[q] = IF q <= Len(x) THEN x[q] ELSE y[q - Len(x)]
  BY ConcatProperties
<1>3. \A q \in 1 .. Len(x) : q \in 1 .. Len(x) + Len(y) /\ q <= Len(x)
  BY <1>1
<1>4. \A q \in 1 .. Len(y) : /\ Len(x) + q \in 1 .. Len(x) + Len(y) /\ ~(Len(x) + q <= Len(x))
                             /\ (Len(x) + q) - Len(x) = q
  BY <1>1
<1>5. \A q \in 1 .. Len(x) : (x \o y)[q] = x[q]
  BY <1>2, <1>3
<1>6. \A q \in 1 .. Len(y) : (x \o y)[Len(x) + q] = y[q]
  BY <1>2, <1>4
<1> QED
  BY <1>1, <1>3, <1>4, <1>5, <1>6

(* A label is what its characters are read as, one after the other.        *)
LEMMA PiecesRead ==
    ASSUME NEW label \in Seq(Nat), NEW p \in Seq(Seq(Nat)), Len(p) = Len(label), NEW form, NEW L,
           \A i \in 1 .. Len(label) : \A l : Reads(L, l, p[i], form, L, Append(l, label[i]))
    PROVE  Reads(L, <<>>, FlattenSeq(p), form, L, label)
<1> DEFINE n == Len(label)
<1>1. n \in Nat /\ DOMAIN label = 1 .. n /\ \A i \in 1 .. n : label[i] \in Nat
  BY LenProperties
<1>2. CASE n = 0
  <2>1. FlattenSeq(p) = <<>> /\ label = <<>>
    BY <1>2, FlattenIs, EmptySeq
  <2>2. Reads(L, <<>>, <<>>, form, L, <<>>)
    BY ReadsNothing, Zenon DEF Reads
  <2> QED
    BY <2>1, <2>2, Zenon
<1>3. CASE n # 0
  <2>0. Len(p) = n /\ Len(p) # 0
    BY <1>3
  <2>1. PICK f : /\ FlattenSeq(p) = f[n] /\ f[1] = p[1]
                 /\ \A i \in 1 .. n : f[i] \in Seq(Nat)
                 /\ \A i \in 1 .. n : i # 1 => f[i] = f[i - 1] \o p[i]
    <3>1. \E f : /\ FlattenSeq(p) = f[Len(p)] /\ f[1] = p[1]
                 /\ \A i \in 1 .. Len(p) : f[i] \in Seq(Nat)
                 /\ \A i \in 1 .. Len(p) : i # 1 => f[i] = f[i - 1] \o p[i]
      BY <2>0, FlattenIs
    <3> HIDE DEF n
    <3> QED
      BY <2>0, <3>1, Zenon
  <2> DEFINE T == {i \in Nat : i \in 1 .. n /\ ~Reads(L, <<>>, f[i], form, L, SubSeq(label, 1, i))}
  <2>2. 0 \notin T
    OBVIOUS
  <2>3. ASSUME NEW i \in Nat, i \notin T PROVE i + 1 \notin T
    <3> SUFFICES ASSUME i + 1 \in 1 .. n
                 PROVE  Reads(L, <<>>, f[i + 1], form, L, SubSeq(label, 1, i + 1))
      OBVIOUS
    <3> HIDE DEF n
    <3>1. \A l : Reads(L, l, p[i + 1], form, L, Append(l, label[i + 1]))
      BY DEF n
    <3>2. CASE i = 0
      <4>1. SubSeq(label, 1, i + 1) = Append(<<>>, label[i + 1])
        <5>1. i + 1 = 1 /\ 1 \in 1 .. n /\ label[1] \in Nat
          BY <1>1, <3>2
        <5>2. /\ SubSeq(label, 1, 1) \in Seq(Nat) /\ Len(SubSeq(label, 1, 1)) = 1
              /\ SubSeq(label, 1, 1)[1] = label[1]
          BY <1>1, <5>1 DEF n
        <5>3. /\ Append(<<>>, label[1]) \in Seq(Nat) /\ Len(Append(<<>>, label[1])) = 1
              /\ Append(<<>>, label[1])[1] = label[1]
          BY <5>1
        <5>4. PICK x, y : x = SubSeq(label, 1, 1) /\ y = Append(<<>>, label[1])
          OBVIOUS
        <5>5. /\ x \in Seq(Nat) /\ y \in Seq(Nat) /\ Len(x) = 1 /\ Len(y) = 1 /\ x[1] = y[1]
              /\ \A q \in 1 .. 1 : q = 1
          BY <5>2, <5>3, <5>4
        <5>6. x = y
          BY <5>5, SeqEqual
        <5> QED
          BY <5>1, <5>4, <5>6, Zenon
      <4>2. f[i + 1] = p[i + 1]
        BY <2>1, <3>2
      <4> QED
        BY <3>1, <4>1, <4>2, Zenon
    <3>3. CASE i # 0
      <4>1. i \in 1 .. n /\ i + 1 # 1 /\ (i + 1) - 1 = i
        BY <1>1, <3>3
      <4>2. Reads(L, <<>>, f[i], form, L, SubSeq(label, 1, i))
        BY <2>3, <4>1 DEF n
      <4>3. f[i + 1] = f[i] \o p[i + 1] /\ f[i] \in Seq(Nat)
        BY <2>1, <4>1
      <4>4. p[i + 1] \in Seq(Nat)
        BY DEF n
      <4>5. SubSeq(label, 1, i + 1) = Append(SubSeq(label, 1, i), label[i + 1])
        BY <1>1, <4>1 DEF n
      <4>6. Reads(L, SubSeq(label, 1, i), p[i + 1], form, L, SubSeq(label, 1, i + 1))
        BY <3>1, <4>5, Zenon
      <4> QED
        BY <4>2, <4>3, <4>4, <4>6, ReadsThrough, Zenon
    <3> QED
      BY <3>2, <3>3
  <2>4. T \subseteq Nat
    OBVIOUS
  <2> HIDE DEF T
  <2>5. T = {}
    BY <2>2, <2>3, <2>4, NeverFails
  <2>6. n \in Nat /\ n \in 1 .. n /\ n \notin T
    BY <1>1, <1>3, <2>5
  <2>7. Reads(L, <<>>, f[n], form, L, SubSeq(label, 1, n))
    BY <2>6 DEF T
  <2>8. SubSeq(label, 1, n) = label
    BY <1>1
  <2> HIDE DEF n
  <2> QED
    BY <2>1, <2>7, <2>8, Zenon
<1> QED
  BY <1>2, <1>3

(* What is concatenated begins with the first, and holds all of it.        *)
LEMMA FlattenFirst ==
    ASSUME NEW S, NEW s \in Seq(Seq(S)), Len(s) > 0, Len(s[1]) > 0
    PROVE  FlattenSeq(s) \in Seq(S) /\ Len(FlattenSeq(s)) > 0 /\ FlattenSeq(s)[1] = s[1][1]
<1> DEFINE n == Len(s)
<1>1. n \in Nat /\ n # 0 /\ \A i \in 1 .. n : s[i] \in Seq(S)
  BY LenProperties
<1>2. PICK f : /\ FlattenSeq(s) = f[n] /\ f[1] = s[1]
               /\ \A i \in 1 .. n : f[i] \in Seq(S)
               /\ \A i \in 1 .. n : i # 1 => f[i] = f[i - 1] \o s[i]
  BY <1>1, FlattenIs
<1> HIDE DEF n
<1> DEFINE T == {i \in Nat : i \in 1 .. n /\ ~(Len(f[i]) > 0 /\ f[i][1] = s[1][1])}
<1>3. 0 \notin T
  OBVIOUS
<1>4. ASSUME NEW i \in Nat, i \notin T PROVE i + 1 \notin T
  <2> SUFFICES ASSUME i + 1 \in 1 .. n PROVE Len(f[i + 1]) > 0 /\ f[i + 1][1] = s[1][1]
    OBVIOUS
  <2>1. CASE i = 0
    BY <1>2, <2>1
  <2>2. CASE i # 0
    <3>1. i \in 1 .. n /\ i + 1 # 1 /\ (i + 1) - 1 = i
      BY <1>1, <2>2
    <3>2. Len(f[i]) > 0 /\ f[i][1] = s[1][1]
      BY <1>4, <3>1
    <3>3. f[i + 1] = f[i] \o s[i + 1] /\ f[i] \in Seq(S) /\ s[i + 1] \in Seq(S)
      BY <1>1, <1>2, <3>1
    <3>4. PICK x, y : x = f[i] /\ y = s[i + 1]
      OBVIOUS
    <3>5. x \in Seq(S) /\ y \in Seq(S) /\ Len(x) > 0
      BY <3>2, <3>3, <3>4
    <3>6. Len(x) \in Nat /\ Len(y) \in Nat /\ Len(x \o y) = Len(x) + Len(y)
      BY <3>5, ConcatIs
    <3>7. 1 \in 1 .. Len(x)
      BY <3>5, <3>6
    <3>8. (x \o y)[1] = x[1]
      BY <3>5, <3>7, ConcatIs
    <3>9. Len(x \o y) > 0
      BY <3>5, <3>6
    <3>10. f[i + 1] = x \o y /\ x[1] = s[1][1]
      BY <3>2, <3>3, <3>4
    <3> QED
      BY <3>8, <3>9, <3>10, Zenon
  <2> QED
    BY <2>1, <2>2
<1>5. T \subseteq Nat
  OBVIOUS
<1> HIDE DEF T
<1>6. T = {}
  BY <1>3, <1>4, <1>5, NeverFails
<1>7. n \in Nat /\ n \in 1 .. n /\ n \notin T
  BY <1>1, <1>6
<1> QED
  BY <1>2, <1>7 DEF T

LEMMA FlattenHolds ==
    ASSUME NEW S, NEW s \in Seq(Seq(S)), NEW j \in 1 .. Len(s), NEW k \in 1 .. Len(s[j])
    PROVE  \E i \in 1 .. Len(FlattenSeq(s)) : FlattenSeq(s)[i] = s[j][k]
<1> DEFINE n == Len(s)
<1>1. n \in Nat /\ n # 0 /\ \A i \in 1 .. n : s[i] \in Seq(S)
  BY LenProperties
<1>2. PICK f : /\ FlattenSeq(s) = f[n] /\ f[1] = s[1]
               /\ \A i \in 1 .. n : f[i] \in Seq(S)
               /\ \A i \in 1 .. n : i # 1 => f[i] = f[i - 1] \o s[i]
  BY <1>1, FlattenIs
<1>j. j \in 1 .. n /\ j \in Nat /\ s[j] \in Seq(S) /\ Len(s[j]) \in Nat
  BY <1>1, LenProperties
<1> HIDE DEF n
<1> DEFINE Has(x) == \E i \in 1 .. Len(x) : x[i] = s[j][k]
           T == {i \in Nat : i \in 1 .. n /\ j <= i /\ ~Has(f[i])}
<1>3. 0 \notin T
  OBVIOUS
<1>4. ASSUME NEW i \in Nat, i \notin T PROVE i + 1 \notin T
  <2> SUFFICES ASSUME i + 1 \in 1 .. n, j <= i + 1 PROVE Has(f[i + 1])
    OBVIOUS
  <2>1. CASE i = 0
    <3>1. j = 1 /\ f[i + 1] = s[j]
      BY <1>2, <1>j, <2>1
    <3> QED
      BY <3>1
  <2>2. CASE i # 0
    <3>1. i \in 1 .. n /\ i + 1 # 1 /\ (i + 1) - 1 = i
      BY <1>1, <2>2
    <3>2. f[i + 1] = f[i] \o s[i + 1] /\ f[i] \in Seq(S) /\ s[i + 1] \in Seq(S)
      BY <1>1, <1>2, <3>1
    <3>3. PICK x, y : x = f[i] /\ y = s[i + 1]
      OBVIOUS
    <3>4. /\ f[i + 1] = x \o y /\ x \in Seq(S) /\ y \in Seq(S)
      BY <3>2, <3>3, Zenon
    <3>5. CASE j <= i
      <4>1. Has(x)
        BY <1>4, <3>1, <3>3, <3>5
      <4>2. PICK q \in 1 .. Len(x) : x[q] = s[j][k]
        BY <4>1
      <4>3. q \in 1 .. Len(x \o y) /\ (x \o y)[q] = s[j][k]
        BY <3>4, <4>2, ConcatIs
      <4> QED
        BY <3>4, <4>3, Zenon
    <3>6. CASE ~(j <= i)
      <4>1. j = i + 1
        BY <1>j, <3>6
      <4>2. k \in 1 .. Len(y) /\ s[j][k] = y[k]
        BY <3>3, <4>1
      <4>3. Len(x) + k \in 1 .. Len(x \o y) /\ (x \o y)[Len(x) + k] = s[j][k]
        BY <3>4, <4>2, ConcatIs
      <4> QED
        BY <3>4, <4>3, Zenon
    <3> QED
      BY <3>5, <3>6
  <2> QED
    BY <2>1, <2>2
<1>5. T \subseteq Nat
  OBVIOUS
<1> HIDE DEF T
<1>6. T = {}
  BY <1>3, <1>4, <1>5, NeverFails
<1>7. n \in Nat /\ n \in 1 .. n /\ n \notin T /\ j <= n
  BY <1>1, <1>6, <1>j
<1> HIDE DEF Has
<1>8. Has(f[n])
  BY <1>7 DEF T
<1> QED
  BY <1>2, <1>8 DEF Has

(* Escapify, and its way back.                                             *)
LEMMA EscapifyReads ==
    ASSUME NEW label \in ByteLabels
    PROVE  /\ Escapify(label) \in Seq(0 .. 126)
           /\ label # <<>> => Len(Escapify(label)) > 0 /\ Escapify(label)[1] \notin {46, 64}
           /\ label = <<>> => Escapify(label) = <<>>
           /\ \A form, L : Reads(L, <<>>, Escapify(label), form, L, label)
<1> DEFINE p == [i \in DOMAIN label |-> EscapedByte(label[i])]
<1>1. Len(label) \in Nat /\ DOMAIN label = 1 .. Len(label) /\ label \in Seq(Nat)
      /\ \A i \in 1 .. Len(label) : label[i] \in Byte
  BY LabelIs, ByteIs
<1>2. \A i \in 1 .. Len(label) : p[i] = EscapedByte(label[i]) /\ p[i] \in Seq(0 .. 126)
  BY <1>1, ByteReads
<1>3. p \in Seq(Seq(0 .. 126)) /\ Len(p) = Len(label)
  <2>1. p \in [1 .. Len(label) -> Seq(0 .. 126)]
    BY <1>1, <1>2
  <2> QED
    BY <1>1, <2>1
<1>4. Escapify(label) = FlattenSeq(p)
  BY Zenon DEF Escapify
<1> HIDE DEF p
<1>5. label = <<>> <=> Len(label) = 0
  BY <1>1, EmptySeq
<1>6. label = <<>> => Escapify(label) = <<>>
  BY <1>3, <1>4, <1>5, FlattenIs
<1>7. ASSUME label # <<>>
      PROVE  FlattenSeq(p) \in Seq(0 .. 126) /\ Len(FlattenSeq(p)) > 0 /\ FlattenSeq(p)[1] \notin {46, 64}
  <2>1. Len(p) > 0 /\ 1 \in 1 .. Len(label)
    BY <1>1, <1>3, <1>5, <1>7
  <2>2. Len(p[1]) > 0 /\ p[1][1] \notin {46, 64}
    BY <1>1, <1>2, <2>1, ByteReads
  <2> QED
    BY <1>3, <2>1, <2>2, FlattenFirst
<1>8. Escapify(label) \in Seq(0 .. 126)
  <2>1. <<>> \in Seq(0 .. 126)
    OBVIOUS
  <2> QED
    BY <1>4, <1>6, <1>7, <2>1, Zenon
<1>9. p \in Seq(Seq(Nat))
  <2>0. Seq(0 .. 126) \subseteq Seq(Nat)
    <3>1. 0 .. 126 \subseteq Nat
      OBVIOUS
    <3> QED
      BY <3>1, SeqOfLess
  <2>1. \A i \in 1 .. Len(p) : p[i] \in Seq(Nat)
    BY <1>2, <1>3, <2>0, Zenon
  <2>2. p \in [1 .. Len(p) -> Seq(Nat)] /\ Len(p) \in Nat
    BY <1>3, <2>1, LenProperties
  <2> QED
    BY <2>2
<1>10. \A form, L : Reads(L, <<>>, Escapify(label), form, L, label)
  <2> TAKE form, L
  <2>1. ASSUME NEW i \in 1 .. Len(label), NEW l PROVE Reads(L, l, p[i], form, L, Append(l, label[i]))
    <3>1. label[i] \in Byte /\ p[i] = EscapedByte(label[i])
      BY <1>1, <1>2
    <3>2. Reads(L, l, EscapedByte(label[i]), form, L, Append(l, label[i]))
      BY <3>1, ByteReads
    <3> QED
      BY <3>1, <3>2, Zenon
  <2> QED
    BY <1>1, <1>3, <1>4, <1>9, <2>1, PiecesRead, Zenon
<1> QED
  BY <1>4, <1>6, <1>7, <1>8, <1>10, Zenon

(* The text of a label in one form or the other.                           *)
TextOf(label, form) == IF form = "unicode" THEN IdnaDecode(label) ELSE Escapify(label)

(* Each label is read as v[i] from its text, and kept as e[i].             *)
Joins(labels, n, form, S, v, e) ==
    /\ n \in Nat \ {0} /\ DOMAIN labels = 1 .. n /\ S \subseteq Nat /\ 46 \in S
    /\ e \in Seq(ByteLabels) /\ Len(e) = n /\ Len(TextOf(labels[1], form)) > 0
    /\ \A i \in 1 .. n :
         /\ TextOf(labels[i], form) \in Seq(S)
         /\ \A L : Reads(L, <<>>, TextOf(labels[i], form), form, L, v[i])
         /\ i # n => v[i] # <<>> /\ EncodeLabel(v[i], form) = [err |-> "none", labels |-> <<e[i]>>]

(* The labels of a name are what its joined text is read as.               *)
(* The joined text of the labels is read as the labels, all but the last.  *)
JoinedAs(text, labels, n, form, S, v, e) ==
    /\ Reads(<<>>, <<>>, text, form, SubSeq(e, 1, n - 1), v[n])
    /\ text \in Seq(S) /\ Len(text) > 0 /\ text[1] = TextOf(labels[1], form)[1]
    /\ \A j \in 1 .. n : \A k \in 1 .. Len(TextOf(labels[j], form)) :
         \E i \in 1 .. Len(text) : text[i] = TextOf(labels[j], form)[k]

LEMMA JoinedReads ==
    ASSUME NEW labels, NEW n, NEW form, NEW S, NEW v, NEW e, Joins(labels, n, form, S, v, e)
    PROVE  JoinedAs(Joined(labels, form), labels, n, form, S, v, e)
<1> SUFFICES ASSUME n \in Nat \ {0}, DOMAIN labels = 1 .. n, S \subseteq Nat, 46 \in S,
                    e \in Seq(ByteLabels), Len(e) = n, Len(TextOf(labels[1], form)) > 0,
                    \A i \in 1 .. n :
                      /\ TextOf(labels[i], form) \in Seq(S)
                      /\ \A L : Reads(L, <<>>, TextOf(labels[i], form), form, L, v[i])
                      /\ i # n => v[i] # <<>> /\ EncodeLabel(v[i], form) = [err |-> "none", labels |-> <<e[i]>>]
             PROVE  /\ Reads(<<>>, <<>>, Joined(labels, form), form, SubSeq(e, 1, n - 1), v[n])
                    /\ Joined(labels, form) \in Seq(S) /\ Len(Joined(labels, form)) > 0
                    /\ Joined(labels, form)[1] = TextOf(labels[1], form)[1]
                    /\ \A j \in 1 .. n : \A k \in 1 .. Len(TextOf(labels[j], form)) :
                         \E i \in 1 .. Len(Joined(labels, form)) : Joined(labels, form)[i] = TextOf(labels[j], form)[k]
  BY Zenon DEF Joins, JoinedAs
<1> DEFINE t(i) == TextOf(labels[i], form)
           p == [i \in DOMAIN labels |-> (IF i = 1 THEN <<>> ELSE <<46>>) \o t(i)]
<1>1. Joined(labels, form) = FlattenSeq(p)
  BY Zenon DEF Joined, TextOf
<1>2. p = [i \in 1 .. n |-> (IF i = 1 THEN <<>> ELSE <<46>>) \o t(i)]
  BY Zenon
<1>3. \A i \in 1 .. n : p[i] = (IF i = 1 THEN <<>> ELSE <<46>>) \o t(i)
  BY <1>2, Zenon
<1> HIDE DEF p
<1>4. \A i \in 1 .. n : t(i) \in Seq(S)
  OBVIOUS
<1> HIDE DEF t
<1>5. 1 \in 1 .. n /\ <<46>> \in Seq(S) /\ Len(<<46>>) = 1
  OBVIOUS
<1>6. p[1] = t(1)
  <2>1. p[1] = <<>> \o t(1)
    BY <1>3, <1>5, Zenon
  <2>2. t(1) \in Seq(S)
    BY <1>4, <1>5
  <2>3. <<>> \o t(1) = t(1)
    BY <2>2, ConcatEmptySeq
  <2> QED
    BY <2>1, <2>3, Zenon
<1>7. \A i \in 1 .. n : i # 1 => p[i] = <<46>> \o t(i)
  BY <1>3, Zenon
<1>8. \A i \in 1 .. n : p[i] \in Seq(S)
  <2> TAKE i \in 1 .. n
  <2>1. CASE i = 1
    BY <1>4, <1>5, <1>6, <2>1, Zenon
  <2>2. CASE i # 1
    <3>1. t(i) \in Seq(S) /\ p[i] = <<46>> \o t(i)
      BY <1>4, <1>7, <2>2
    <3> QED
      BY <1>5, <3>1, ConcatIs
  <2> QED
    BY <2>1, <2>2
<1>9. p \in Seq(Seq(S)) /\ Len(p) = n
  <2>1. p \in [1 .. n -> Seq(S)]
    BY <1>2, <1>8
  <2> QED
    BY <2>1
<1>10. Seq(S) \subseteq Seq(Nat)
  BY SeqOfLess
<1>11. Reads(<<>>, <<>>, FlattenSeq(p), form, SubSeq(e, 1, n - 1), v[n])
  <2>0. Len(p) # 0
    BY <1>9
  <2>1. \E f : /\ FlattenSeq(p) = f[Len(p)] /\ f[1] = p[1]
               /\ \A i \in 1 .. Len(p) : f[i] \in Seq(S)
               /\ \A i \in 1 .. Len(p) : i # 1 => f[i] = f[i - 1] \o p[i]
    BY <1>9, <2>0, FlattenIs
  <2>2. PICK f : /\ FlattenSeq(p) = f[n] /\ f[1] = p[1]
                 /\ \A i \in 1 .. n : f[i] \in Seq(S)
                 /\ \A i \in 1 .. n : i # 1 => f[i] = f[i - 1] \o p[i]
    BY <1>9, <2>1, Zenon
  <2>3. \A i \in 1 .. n : \A L : Reads(L, <<>>, t(i), form, L, v[i])
    BY DEF t
  <2> DEFINE T == {i \in Nat : i \in 1 .. n /\ ~Reads(<<>>, <<>>, f[i], form, SubSeq(e, 1, i - 1), v[i])}
  <2>4. 0 \notin T
    OBVIOUS
  <2>5. ASSUME NEW i \in Nat, i \notin T PROVE i + 1 \notin T
    <3> SUFFICES ASSUME i + 1 \in 1 .. n
                 PROVE  Reads(<<>>, <<>>, f[i + 1], form, SubSeq(e, 1, i), v[i + 1])
      <4>1. (i + 1) - 1 = i
        OBVIOUS
      <4> QED
        BY <4>1
    <3>1. CASE i = 0
      <4>1. SubSeq(e, 1, i) = <<>>
        BY <3>1
      <4>2. i + 1 = 1
        BY <3>1
      <4>3. Reads(<<>>, <<>>, t(1), form, <<>>, v[1])
        BY <1>5, <2>3, Zenon
      <4> QED
        BY <1>6, <2>2, <4>1, <4>2, <4>3, Zenon
    <3>2. CASE i # 0
      <4>1. i \in 1 .. n /\ i # n /\ i + 1 # 1 /\ (i + 1) - 1 = i
        BY <3>2
      <4>2. Reads(<<>>, <<>>, f[i], form, SubSeq(e, 1, i - 1), v[i])
        BY <2>5, <4>1
      <4>3. f[i + 1] = f[i] \o p[i + 1] /\ f[i] \in Seq(Nat)
        BY <1>10, <2>2, <4>1
      <4>4. p[i + 1] = <<46>> \o t(i + 1) /\ t(i + 1) \in Seq(Nat) /\ <<46>> \in Seq(Nat) /\ p[i + 1] \in Seq(Nat)
        BY <1>4, <1>5, <1>7, <1>8, <1>10, <4>1
      <4>5. v[i] # <<>> /\ EncodeLabel(v[i], form) = [err |-> "none", labels |-> <<e[i]>>]
        BY <4>1
      <4>6. SubSeq(e, 1, i - 1) \o <<e[i]>> = SubSeq(e, 1, i)
        <5>1. /\ Len(e) = n /\ i - 1 \in 0 .. Len(e) /\ i \in 0 .. Len(e) /\ e[i] \in ByteLabels
              /\ (i - 1) + 1 = i
          BY <4>1
        <5>2. SubSeq(e, 1, i) = Append(SubSeq(e, 1, i - 1), e[i])
          BY <5>1
        <5>3. SubSeq(e, 1, i - 1) \in Seq(ByteLabels)
          BY <5>1
        <5>4. SubSeq(e, 1, i - 1) \o <<e[i]>> = Append(SubSeq(e, 1, i - 1), e[i])
          BY <5>1, <5>3
        <5> QED
          BY <5>2, <5>4, Zenon
      <4>7. Reads(SubSeq(e, 1, i - 1), v[i], <<46>>, form, SubSeq(e, 1, i), <<>>)
        BY <4>5, <4>6, DotRead, Zenon
      <4>8. Reads(SubSeq(e, 1, i), <<>>, t(i + 1), form, SubSeq(e, 1, i), v[i + 1])
        BY <2>3
      <4>9. Reads(SubSeq(e, 1, i - 1), v[i], p[i + 1], form, SubSeq(e, 1, i), v[i + 1])
        BY <4>4, <4>7, <4>8, ReadsThrough, Zenon
      <4> QED
        BY <4>2, <4>3, <4>4, <4>9, ReadsThrough, ZenonT(40)
    <3> QED
      BY <3>1, <3>2
  <2>6. T \subseteq Nat
    OBVIOUS
  <2> HIDE DEF T
  <2>7. T = {}
    BY <2>4, <2>5, <2>6, NeverFails
  <2>8. n \in Nat /\ n \in 1 .. n /\ n \notin T
    BY <2>7
  <2>9. Reads(<<>>, <<>>, f[n], form, SubSeq(e, 1, n - 1), v[n])
    BY <2>8 DEF T
  <2> QED
    BY <2>2, <2>9, Zenon
<1>12. FlattenSeq(p) \in Seq(S) /\ Len(FlattenSeq(p)) > 0 /\ FlattenSeq(p)[1] = t(1)[1]
  <2>1. Len(p) > 0 /\ Len(p[1]) > 0
    BY <1>6, <1>9 DEF t
  <2> QED
    BY <1>6, <1>9, <2>1, FlattenFirst
<1>13. ASSUME NEW j \in 1 .. n, NEW k \in 1 .. Len(t(j))
       PROVE  \E i \in 1 .. Len(FlattenSeq(p)) : FlattenSeq(p)[i] = t(j)[k]
  <2>1. j \in 1 .. Len(p) /\ t(j) \in Seq(S)
    BY <1>4, <1>9
  <2>2. PICK h \in 1 .. Len(p[j]) : p[j][h] = t(j)[k]
    <3>1. CASE j = 1
      <4>1. p[j] = t(j)
        BY <1>6, <3>1
      <4> QED
        BY <4>1
    <3>2. CASE j # 1
      <4>1. p[j] = <<46>> \o t(j)
        BY <1>7, <3>2
      <4>2. Len(<<46>>) + k \in 1 .. Len(p[j]) /\ p[j][Len(<<46>>) + k] = t(j)[k]
        BY <1>5, <2>1, <4>1, ConcatIs
      <4> QED
        BY <4>2, Zenon
    <3> QED
      BY <3>1, <3>2
  <2>3. \E i \in 1 .. Len(FlattenSeq(p)) : FlattenSeq(p)[i] = p[j][h]
    BY <1>9, <2>1, FlattenHolds, ZenonT(40)
  <2> QED
    BY <2>2, <2>3, Zenon
<1>14. \A j \in 1 .. n : \A k \in 1 .. Len(t(j)) :
         \E i \in 1 .. Len(FlattenSeq(p)) : FlattenSeq(p)[i] = t(j)[k]
  BY <1>13
<1>15. PICK J : J = Joined(labels, form)
  OBVIOUS
<1>16. J = FlattenSeq(p)
  BY <1>1, <1>15
<1>17. \A j \in 1 .. n : \A k \in 1 .. Len(t(j)) : \E i \in 1 .. Len(J) : J[i] = t(j)[k]
  BY <1>14, <1>16, Zenon
<1>18. Reads(<<>>, <<>>, J, form, SubSeq(e, 1, n - 1), v[n]) /\ J \in Seq(S) /\ Len(J) > 0 /\ J[1] = t(1)[1]
  BY <1>11, <1>12, <1>16, Zenon
<1> QED
  BY <1>15, <1>17, <1>18, ZenonT(40) DEF t

-----------------------------------------------------------------------------
(* What ReadName makes of the labels that it has read.                     *)
Under(labels, origin) ==
    IF (labels = <<>> \/ Last(labels) # <<>>) /\ origin # {}
    THEN labels \o CHOOSE o \in origin : TRUE
    ELSE labels

(* Text is read as the labels M, and a last one that is kept as x.         *)
ReadAs(text, form, M, m, x) ==
    /\ text \in Seq(Nat) /\ text # <<>> /\ text # <<64>> /\ ~(Len(text) = 1 /\ text[1] \in DotsOf(form))
    /\ Reads(<<>>, <<>>, text, form, M, m)
    /\ m = <<>> => x = <<>>
    /\ m # <<>> => EncodeLabel(m, form) = [err |-> "none", labels |-> <<x>>]

LEMMA ReadNameIs ==
    ASSUME NEW text, NEW form, NEW M, NEW m, NEW x, ReadAs(text, form, M, m, x), NEW origin
    PROVE  ReadName(text, origin, form) = MakeName(Under(M \o <<x>>, origin))
<1> SUFFICES ASSUME text \in Seq(Nat), text # <<>>, text # << 64 >>, ~(Len(text) = 1 /\ text[1] \in DotsOf(form)),
                    Reads(<<>>, <<>>, text, form, M, m),
                    m = <<>> => x = <<>>,
                    m # <<>> => EncodeLabel(m, form) = [err |-> "none", labels |-> <<x>>]
             PROVE  ReadName(text, origin, form) = MakeName(Under(M \o <<x>>, origin))
  BY Zenon DEF ReadAs
<1> DEFINE begin == [labels |-> <<>>, label |-> <<>>, escaping |-> FALSE,
                     digits |-> 0, total |-> 0, err |-> "none"]
           one == [err |-> "none", labels |-> <<x>>]
<1>1. Out(begin, <<>>, <<>>)
  BY DEF Out, Fields
<1> HIDE DEF begin
<1>2. PICK end : Out(end, M, m) /\ ReadsTo(begin, text, form, end)
  BY <1>1, Zenon DEF Reads
<1> DEFINE read == Computed(begin, text, form)
           coded == IF read.label = <<>> THEN Is(RootName) ELSE EncodeLabel(read.label, form)
<1>3. read = end
  BY <1>2, ReadsComputed, Zenon
<1>4. ReadName(text, origin, form) =
        IF text = <<64>> \/ text = <<>> THEN MakeName(Under(<<>>, origin))
        ELSE IF Len(text) = 1 /\ text[1] \in DotsOf(form) THEN Is(RootName)
        ELSE IF read.err # "none" THEN Raised(read.err)
        ELSE IF read.escaping THEN Raised("BadEscape")
        ELSE IF coded.err # "none" THEN coded
        ELSE MakeName(Under(read.labels \o coded.labels, origin))
  BY Zenon DEF ReadName, Under, Computed, begin
<1> HIDE DEF read
<1>5. read.err = "none" /\ read.escaping = FALSE /\ read.labels = M /\ read.label = m
  BY <1>2, <1>3, Zenon DEF Out
<1>6. coded = one
  <2>1. Is(RootName) = [err |-> "none", labels |-> << <<>> >>]
    BY Zenon DEF Is, RootName
  <2> QED
    BY <1>5, <2>1, Zenon
<1>7. one.err = "none" /\ one.labels = <<x>>
  OBVIOUS
<1> HIDE DEF coded, one
<1> QED
  BY <1>4, <1>5, <1>6, <1>7, Zenon

-----------------------------------------------------------------------------
(* The text of bytes, and the way back.                                    *)
LEMMA NameFacts ==
    ASSUME NEW a, IsName(a)
    PROVE  /\ a \in ByteNames /\ Len(a) \in Nat /\ DOMAIN a = 1 .. Len(a) /\ MakeName(a) = Is(a)
           /\ \A i \in 1 .. Len(a) : ~(Len(a[i]) > MaxLabel)
           /\ \A i \in 1 .. Len(a) : a[i] = <<>> => i = Len(a)
           /\ a # <<>> /\ a # RootName => Len(a) > 0 /\ a[1] # <<>>
<1>1. a \in ByteNames /\ MakeName(a).err = "none"
  BY DEF IsName, ByteNames, ByteLabels, Byte
<1>2. Len(a) \in Nat /\ DOMAIN a = 1 .. Len(a) /\ a \in Seq(ByteLabels)
  BY <1>1, NameIs
<1>3. /\ \A i \in 1 .. Len(a) : ~(Len(a[i]) > MaxLabel)
      /\ \A i \in 1 .. Len(a) : a[i] = <<>> => i = Len(a)
  BY <1>1, <1>2, MadeIs, Zenon
<1>4. MakeName(a) = Is(a)
  BY <1>1, MadeIs, Zenon DEF Is
<1>5. ASSUME a # <<>>, a # RootName PROVE Len(a) > 0 /\ a[1] # <<>>
  <2>1. Len(a) > 0
    BY <1>2, <1>5, EmptySeq
  <2>2. ASSUME a[1] = <<>> PROVE FALSE
    <3>1. Len(a) = 1
      <4>1. 1 \in 1 .. Len(a)
        BY <1>2, <2>1
      <4> QED
        BY <1>3, <2>2, <4>1
    <3>2. RootName \in Seq(ByteLabels) /\ Len(RootName) = 1 /\ RootName[1] = <<>>
      BY RootIs DEF ByteNames
    <3>3. \A i \in 1 .. 1 : a[i] = RootName[i]
      <4>1. \A i \in 1 .. 1 : i = 1
        OBVIOUS
      <4> QED
        BY <2>2, <3>2, <4>1, Zenon
    <3>4. a = RootName
      BY <1>2, <3>1, <3>2, <3>3, SeqEqual
    <3> QED
      BY <1>5, <3>4
  <2> QED
    BY <2>1, <2>2
<1> QED
  BY <1>1, <1>2, <1>3, <1>4, <1>5, Zenon

LEMMA LastJoins ==
    ASSUME NEW a \in ByteNames, Len(a) > 0
    PROVE  /\ SubSeq(a, 1, Len(a) - 1) \in ByteNames /\ Len(SubSeq(a, 1, Len(a) - 1)) = Len(a) - 1
           /\ SubSeq(a, 1, Len(a) - 1) \o <<a[Len(a)]>> = a
           /\ \A i \in 1 .. Len(a) - 1 : SubSeq(a, 1, Len(a) - 1)[i] = a[i]
<1>1. a \in Seq(ByteLabels) /\ Len(a) \in Nat /\ a[Len(a)] \in ByteLabels
  BY NameIs DEF ByteNames
<1> DEFINE b == SubSeq(a, 1, Len(a) - 1)   x == a[Len(a)]
<1>2. /\ b \in Seq(ByteLabels) /\ Len(b) = Len(a) - 1
      /\ \A i \in 1 .. Len(a) - 1 : b[i] = a[i]
  <2>1. \A m \in 0 .. Len(a) : /\ SubSeq(a, 1, m) \in Seq(ByteLabels) /\ Len(SubSeq(a, 1, m)) = m
                               /\ \A i \in 1 .. m : SubSeq(a, 1, m)[i] = a[i]
    BY <1>1
  <2>2. Len(a) - 1 \in 0 .. Len(a)
    BY <1>1
  <2> QED
    BY <2>1, <2>2, Zenon
<1> HIDE DEF b
<1>3. /\ b \o <<x>> \in Seq(ByteLabels) /\ Len(b \o <<x>>) = Len(a)
      /\ \A i \in 1 .. Len(a) - 1 : (b \o <<x>>)[i] = b[i]
      /\ (b \o <<x>>)[Len(a)] = x
  <2>1. <<x>> \in Seq(ByteLabels) /\ Len(<<x>>) = 1 /\ <<x>>[1] = x
    BY <1>1
  <2> HIDE DEF x
  <2>2. /\ b \o <<x>> \in Seq(ByteLabels) /\ Len(b \o <<x>>) = Len(b) + Len(<<x>>)
        /\ \A q \in 1 .. Len(b) : (b \o <<x>>)[q] = b[q]
        /\ \A q \in 1 .. Len(<<x>>) : (b \o <<x>>)[Len(b) + q] = <<x>>[q]
    BY <1>2, <2>1, ConcatIs
  <2>3. 1 \in 1 .. Len(<<x>>) /\ Len(b) + 1 = Len(a) /\ Len(b) + Len(<<x>>) = Len(a)
    BY <1>1, <1>2, <2>1
  <2> QED
    BY <1>2, <2>1, <2>2, <2>3
<1>4. \A i \in 1 .. Len(a) : (b \o <<x>>)[i] = a[i]
  <2> TAKE i \in 1 .. Len(a)
  <2>1. i = Len(a) \/ i \in 1 .. Len(a) - 1
    BY <1>1
  <2> QED
    BY <1>2, <1>3, <2>1
<1>5. b \o <<x>> = a
  <2> HIDE DEF x
  <2> QED
    BY <1>1, <1>3, <1>4, SeqEqual
<1> QED
  BY <1>2, <1>5 DEF b, ByteNames

LEMMA TextBack ==
    ASSUME NEW a \in ByteNames, Len(a) > 0, a[1] # <<>>,
           \A i \in 1 .. Len(a) : a[i] = <<>> => i = Len(a), NEW origin
    PROVE  NameFromText(Joined(a, "bytes"), origin) = MakeName(Under(a, origin))
<1> DEFINE n == Len(a)   S == 0 .. 126   text == Joined(a, "bytes")
<1>1. /\ n \in Nat \ {0} /\ DOMAIN a = 1 .. n /\ a \in Seq(ByteLabels)
      /\ \A i \in 1 .. n : a[i] \in ByteLabels
  BY NameIs DEF ByteNames
<1>2. 1 \in 1 .. n /\ n \in 1 .. n
  <2> HIDE DEF n
  <2> QED
    BY <1>1
<1>3. \A x : TextOf(x, "bytes") = Escapify(x) /\ EncodeLabel(x, "bytes") = [err |-> "none", labels |-> <<x>>]
  <2>1. "bytes" # "unicode"
    OBVIOUS
  <2> QED
    BY <2>1, Zenon DEF TextOf, EncodeLabel, Is
<1>4. ASSUME NEW i \in 1 .. n
      PROVE  /\ TextOf(a[i], "bytes") \in Seq(S)
             /\ \A L : Reads(L, <<>>, TextOf(a[i], "bytes"), "bytes", L, a[i])
             /\ i # n => a[i] # <<>> /\ EncodeLabel(a[i], "bytes") = [err |-> "none", labels |-> <<a[i]>>]
  <2>1. a[i] \in ByteLabels
    BY <1>1
  <2>2. Escapify(a[i]) \in Seq(S) /\ \A form, L : Reads(L, <<>>, Escapify(a[i]), form, L, a[i])
    BY <2>1, EscapifyReads
  <2>3. TextOf(a[i], "bytes") = Escapify(a[i])
    BY <1>3, Zenon
  <2>4. i # n => a[i] # <<>>
    BY <1>1, ZenonT(40)
  <2> QED
    BY <1>3, <2>2, <2>3, <2>4, Zenon
<1>5. TextOf(a[1], "bytes") = Escapify(a[1]) /\ Len(Escapify(a[1])) > 0 /\ Escapify(a[1])[1] \notin {46, 64}
  BY <1>1, <1>2, <1>3, EscapifyReads
<1>6. S \subseteq Nat /\ 46 \in S /\ Len(a) = n /\ Len(TextOf(a[1], "bytes")) > 0
  BY <1>5
<1> HIDE DEF n, S
<1>7. /\ Reads(<<>>, <<>>, text, "bytes", SubSeq(a, 1, n - 1), a[n])
      /\ text \in Seq(S) /\ Len(text) > 0 /\ text[1] = TextOf(a[1], "bytes")[1]
  <2>1. Joins(a, n, "bytes", S, a, a)
    BY <1>1, <1>4, <1>6, Zenon DEF Joins
  <2>2. JoinedAs(text, a, n, "bytes", S, a, a)
    BY <2>1, JoinedReads, Zenon
  <2> QED
    BY <2>2, Zenon DEF JoinedAs
<1> HIDE DEF text
<1>8. Seq(S) \subseteq Seq(Nat)
  BY <1>6, SeqOfLess
<1>9. /\ text \in Seq(Nat) /\ text[1] \notin {46, 64} /\ DotsOf("bytes") = {46}
      /\ DOMAIN text = 1 .. Len(text) /\ \A i \in 1 .. Len(text) : text[i] \in S
  BY <1>5, <1>7, <1>8, LenProperties DEF DotsOf
<1>10. /\ text # <<>> /\ text # <<64>> /\ text[1] \notin DotsOf("bytes")
  BY <1>7, <1>9, EmptySeq
<1>11. ReadName(text, origin, "bytes") = MakeName(Under(SubSeq(a, 1, n - 1) \o <<a[n]>>, origin))
  <2> DEFINE M == SubSeq(a, 1, n - 1)   m == a[n]
  <2>1. EncodeLabel(m, "bytes") = [err |-> "none", labels |-> <<m>>]
    BY <1>3, Zenon
  <2>2. Reads(<<>>, <<>>, text, "bytes", M, m)
    BY <1>7, Zenon
  <2> HIDE DEF M, m
  <2>3. ReadName(text, origin, "bytes") = MakeName(Under(M \o <<m>>, origin))
    <3>1. ReadAs(text, "bytes", M, m, m)
      BY <1>9, <1>10, <2>1, <2>2, Zenon DEF ReadAs
    <3> QED
      BY <3>1, ReadNameIs
  <2> QED
    BY <2>3, Zenon DEF M, m
<1>12. SubSeq(a, 1, n - 1) \o <<a[n]>> = a
  BY LastJoins DEF n
<1>13. ~\E i \in DOMAIN text : text[i] > 127
  <2>1. \A c \in S : ~(c > 127)
    BY DEF S
  <2> QED
    BY <1>9, <2>1, Zenon
<1>14. NameFromText(text, origin) = ReadName(text, origin, "bytes")
  BY <1>13, Zenon DEF NameFromText
<1> QED
  BY <1>11, <1>12, <1>14, Zenon DEF text

LEMMA AtSign ==
    ASSUME NEW origin
    PROVE  /\ NameFromText(<<64>>, origin) = MakeName(Under(<<>>, origin))
           /\ NameFromText(<<46>>, origin) = Is(RootName)
<1>1. /\ DOMAIN <<64>> = {1} /\ <<64>>[1] = 64 /\ Len(<<64>>) = 1
      /\ DOMAIN <<46>> = {1} /\ <<46>>[1] = 46 /\ Len(<<46>>) = 1
      /\ <<46>> # <<64>> /\ <<46>> # <<>> /\ 46 \in DotsOf("bytes") /\ ~(64 > 127) /\ ~(46 > 127)
  BY DEF DotsOf
<1>2. ~(\E i \in DOMAIN <<64>> : <<64>>[i] > 127) /\ ~(\E i \in DOMAIN <<46>> : <<46>>[i] > 127)
  BY <1>1
<1>3. /\ NameFromText(<<64>>, origin) = ReadName(<<64>>, origin, "bytes")
      /\ NameFromText(<<46>>, origin) = ReadName(<<46>>, origin, "bytes")
  BY <1>2, Zenon DEF NameFromText
<1>4. ReadName(<<64>>, origin, "bytes") = MakeName(Under(<<>>, origin))
  BY <1>1, Zenon DEF ReadName, Under
<1>5. ReadName(<<46>>, origin, "bytes") = Is(RootName)
  BY <1>1, Zenon DEF ReadName
<1> QED
  BY <1>3, <1>4, <1>5, Zenon

LEMMA BytesComeBack ==
    ASSUME NEW a, IsName(a)
    PROVE  /\ NameFromText(NameText(a, FALSE), {}) = Is(a)
           /\ IsAbsolute(a) => NameFromText(NameText(a, TRUE), {RootName}) = Is(a)
<1>1. /\ a \in ByteNames /\ Len(a) \in Nat /\ MakeName(a) = Is(a)
      /\ \A i \in 1 .. Len(a) : a[i] = <<>> => i = Len(a)
  BY NameFacts
<1>2. \A x : Under(x, {}) = x
  BY Zenon DEF Under
<1>3. CASE a = <<>>
  <2>1. NameText(a, FALSE) = <<64>> /\ ~IsAbsolute(a)
    BY <1>3, Zenon DEF NameText, Written, IsAbsolute
  <2>2. NameFromText(<<64>>, {}) = MakeName(a)
    BY <1>2, <1>3, AtSign, Zenon
  <2> QED
    BY <1>1, <2>1, <2>2, Zenon
<1>4. CASE a # <<>> /\ a = RootName
  <2>1. NameText(a, FALSE) = <<46>> /\ NameText(a, TRUE) = <<46>>
    BY <1>4, Zenon DEF NameText, Written
  <2> QED
    BY <1>4, <2>1, AtSign, Zenon
<1>5. CASE a # <<>> /\ a # RootName
  <2>1. Len(a) > 0 /\ a[1] # <<>>
    BY <1>5, NameFacts
  <2>2. NameText(a, FALSE) = Joined(a, "bytes")
    BY <1>5, Zenon DEF NameText, Written
  <2>3. NameFromText(NameText(a, FALSE), {}) = Is(a)
    BY <1>1, <1>2, <2>1, <2>2, TextBack, Zenon
  <2>4. ASSUME IsAbsolute(a) PROVE NameFromText(NameText(a, TRUE), {RootName}) = Is(a)
    <3> DEFINE b == SubSeq(a, 1, Len(a) - 1)
    <3>1. /\ b \in ByteNames /\ Len(b) = Len(a) - 1 /\ b \o <<a[Len(a)]>> = a
          /\ \A i \in 1 .. Len(a) - 1 : b[i] = a[i]
      BY <1>1, <2>1, LastJoins
    <3>2. a[Len(a)] = <<>>
      BY <2>4 DEF IsAbsolute, Last
    <3>3. Len(a) > 1
      BY <1>1, <2>1, <3>2
    <3>4. NameText(a, TRUE) = Joined(b, "bytes")
      BY <1>5, <2>4, Zenon DEF NameText, Written, Front
    <3> HIDE DEF b
    <3>5. /\ Len(b) > 0 /\ b[1] # <<>> /\ \A i \in 1 .. Len(b) : b[i] # <<>>
      <4>1. \A i \in 1 .. Len(b) : i \in 1 .. Len(a) - 1 /\ i \in 1 .. Len(a) /\ i # Len(a)
        BY <1>1, <3>1
      <4>2. \A i \in 1 .. Len(b) : b[i] # <<>>
        BY <1>1, <3>1, <4>1
      <4>3. Len(b) > 0 /\ 1 \in 1 .. Len(b)
        BY <1>1, <3>1, <3>3
      <4> QED
        BY <4>2, <4>3
    <3>6. NameFromText(Joined(b, "bytes"), {RootName}) = MakeName(Under(b, {RootName}))
      BY <3>1, <3>5, TextBack
    <3>7. Under(b, {RootName}) = a
      <4>1. Len(b) \in 1 .. Len(b)
        BY <1>1, <3>1, <3>3
      <4>2. Last(b) # <<>>
        BY <3>5, <4>1 DEF Last
      <4>3. (CHOOSE o \in {RootName} : TRUE) = RootName /\ {RootName} # {}
        OBVIOUS
      <4>4. Under(b, {RootName}) = b \o RootName
        BY <4>2, <4>3, Zenon DEF Under
      <4> QED
        BY <3>1, <3>2, <4>4, Zenon DEF RootName
    <3> QED
      BY <1>1, <3>4, <3>6, <3>7, Zenon
  <2> QED
    BY <2>3, <2>4
<1> QED
  BY <1>3, <1>4, <1>5, Zenon

-----------------------------------------------------------------------------
(* Punycode, as the model has it, can be undone.                           *)
Wide == {c \in Nat : c < 65536}
Coded(c) == <<97 + (c \div 4096), 97 + ((c \div 256) % 16), 97 + ((c \div 16) % 16), 97 + (c % 16)>>

LEMMA CodedIs ==
    ASSUME NEW c \in Wide
    PROVE  /\ Coded(c) \in Seq(Byte) /\ Len(Coded(c)) = 4
           /\ (Coded(c)[1] - 97) * 4096 + (Coded(c)[2] - 97) * 256 + (Coded(c)[3] - 97) * 16 + (Coded(c)[4] - 97) = c
<1> DEFINE x == c \div 4096   y == (c \div 256) % 16   z == (c \div 16) % 16   w == c % 16
<1>1. Coded(c) = <<97 + x, 97 + y, 97 + z, 97 + w>>
  BY DEF Coded
<1>2. c \in Nat /\ c < 65536
  BY DEF Wide
<1>3. x \in 0 .. 15 /\ y \in 0 .. 15 /\ z \in 0 .. 15 /\ w \in 0 .. 15
  BY <1>2
<1>4. x * 4096 + y * 256 + z * 16 + w = c
  BY <1>2
<1> HIDE DEF x, y, z, w
<1>5. /\ <<97 + x, 97 + y, 97 + z, 97 + w>> \in Seq(Byte)
      /\ Len(<<97 + x, 97 + y, 97 + z, 97 + w>>) = 4
  BY <1>3 DEF Byte
<1>6. /\ Coded(c)[1] = 97 + x /\ Coded(c)[2] = 97 + y
      /\ Coded(c)[3] = 97 + z /\ Coded(c)[4] = 97 + w
  BY <1>1
<1>7. (97 + x) - 97 = x /\ (97 + y) - 97 = y /\ (97 + z) - 97 = z /\ (97 + w) - 97 = w
  BY <1>3
<1> QED
  BY <1>1, <1>4, <1>5, <1>6, <1>7

LEMMA PunyIs ==
    ASSUME NEW u \in Seq(Wide)
    PROVE  /\ Puny(u) \in Seq(Byte) /\ Len(u) \in Nat /\ Len(Puny(u)) = 4 * Len(u)
           /\ \A i \in 1 .. Len(u) : \A k \in 1 .. 4 : Puny(u)[4 * (i - 1) + k] = Coded(u[i])[k]
<1> DEFINE n == Len(u)   p == [i \in DOMAIN u |-> Coded(u[i])]
<1>1. n \in Nat /\ DOMAIN u = 1 .. n /\ \A i \in 1 .. n : u[i] \in Wide
  BY LenProperties
<1>2. Puny(u) = FlattenSeq(p)
  BY Zenon DEF Puny, Coded
<1>3. \A i \in 1 .. n : p[i] = Coded(u[i]) /\ p[i] \in Seq(Byte) /\ Len(p[i]) = 4
  BY <1>1, CodedIs
<1>4. p \in Seq(Seq(Byte)) /\ Len(p) = n
  <2>1. p \in [1 .. n -> Seq(Byte)]
    BY <1>1, <1>3
  <2> QED
    BY <1>1, <2>1
<1> HIDE DEF n, p
<1>5. CASE n = 0
  <2>1. Puny(u) = <<>>
    BY <1>2, <1>4, <1>5, FlattenIs
  <2>2. \A i \in 1 .. n : FALSE
    BY <1>5
  <2> QED
    BY <1>1, <1>5, <2>1, <2>2 DEF n
<1>6. CASE n # 0
  <2>1. \E f : /\ FlattenSeq(p) = f[Len(p)] /\ f[1] = p[1]
               /\ \A i \in 1 .. Len(p) : f[i] \in Seq(Byte)
               /\ \A i \in 1 .. Len(p) : i # 1 => f[i] = f[i - 1] \o p[i]
    BY <1>4, <1>6, FlattenIs
  <2>2. PICK f : /\ FlattenSeq(p) = f[n] /\ f[1] = p[1]
                 /\ \A i \in 1 .. n : f[i] \in Seq(Byte)
                 /\ \A i \in 1 .. n : i # 1 => f[i] = f[i - 1] \o p[i]
    BY <1>4, <2>1, Zenon
  <2> DEFINE Good(x, i) == /\ Len(x) = 4 * i
                           /\ \A j \in 1 .. i : \A k \in 1 .. 4 : x[4 * (j - 1) + k] = Coded(u[j])[k]
             T == {i \in Nat : i \in 1 .. n /\ ~Good(f[i], i)}
  <2>3. 0 \notin T
    OBVIOUS
  <2>4. ASSUME NEW i \in Nat, i \notin T PROVE i + 1 \notin T
    <3> SUFFICES ASSUME i + 1 \in 1 .. n PROVE Good(f[i + 1], i + 1)
      OBVIOUS
    <3>1. CASE i = 0
      <4>1. f[i + 1] = p[1] /\ i + 1 = 1 /\ 1 \in 1 .. n
        BY <2>2, <3>1
      <4>2. p[1] = Coded(u[1]) /\ Len(p[1]) = 4
        BY <1>3, <4>1
      <4>3. \A j \in 1 .. 1 : j = 1
        OBVIOUS
      <4>4. \A k \in 1 .. 4 : 4 * (1 - 1) + k = k
        OBVIOUS
      <4>5. Good(p[1], 1)
        BY <4>2, <4>3, <4>4
      <4> HIDE DEF Good
      <4> QED
        BY <4>1, <4>5, Zenon
    <3>2. CASE i # 0
      <4>1. i \in 1 .. n /\ i + 1 # 1 /\ (i + 1) - 1 = i
        BY <1>1, <3>2
      <4>2. Good(f[i], i)
        BY <2>4, <4>1
      <4>3. PICK x, y : x = f[i] /\ y = p[i + 1]
        OBVIOUS
      <4>4. f[i + 1] = x \o y /\ x \in Seq(Byte) /\ y \in Seq(Byte) /\ y = Coded(u[i + 1]) /\ Len(y) = 4
        BY <1>3, <2>2, <4>1, <4>3
      <4>5. Good(x, i)
        <5> HIDE DEF Good
        <5> QED
          BY <4>2, <4>3
      <4>6. /\ Len(x \o y) = Len(x) + Len(y)
            /\ \A q \in 1 .. Len(x) : (x \o y)[q] = x[q]
            /\ \A q \in 1 .. Len(y) : (x \o y)[Len(x) + q] = y[q]
        <5>1. x \in Seq(Byte) /\ y \in Seq(Byte)
          BY <4>4
        <5> QED
          BY <5>1, ConcatIs
      <4>7. Len(x) = 4 * i
        BY <4>5
      <4>8. Len(x \o y) = 4 * (i + 1)
        BY <4>4, <4>6, <4>7
      <4>9. ASSUME NEW j \in 1 .. i + 1, NEW k \in 1 .. 4
            PROVE  (x \o y)[4 * (j - 1) + k] = Coded(u[j])[k]
        <5>1. CASE j \in 1 .. i
          <6>1. 4 * (j - 1) + k \in 1 .. Len(x)
            BY <4>7, <5>1
          <6>2. x[4 * (j - 1) + k] = Coded(u[j])[k]
            BY <4>5, <5>1
          <6> QED
            BY <4>6, <6>1, <6>2
        <5>2. CASE j \notin 1 .. i
          <6>1. j = i + 1 /\ 4 * (j - 1) + k = Len(x) + k /\ k \in 1 .. Len(y)
            BY <4>4, <4>7, <5>2
          <6>2. (x \o y)[Len(x) + k] = y[k]
            BY <4>6, <6>1
          <6> QED
            BY <4>4, <6>1, <6>2
        <5> QED
          BY <5>1, <5>2
      <4>10. Good(x \o y, i + 1)
        BY <4>8, <4>9
      <4> HIDE DEF Good
      <4> QED
        BY <4>4, <4>10
    <3> QED
      BY <3>1, <3>2
  <2>5. T \subseteq Nat
    OBVIOUS
  <2> HIDE DEF T, Good
  <2>6. T = {}
    BY <2>3, <2>4, <2>5, NeverFails
  <2>7. n \in Nat /\ n \in 1 .. n /\ n \notin T
    BY <1>1, <1>6, <2>6
  <2>8. Good(f[n], n)
    BY <2>7 DEF T
  <2>9. f[n] \in Seq(Byte) /\ Puny(u) = f[n]
    BY <1>2, <2>2, <2>7
  <2>10. Good(Puny(u), n) /\ Puny(u) \in Seq(Byte)
    BY <2>8, <2>9, Zenon
  <2> QED
    BY <1>1, <2>10, Zenon DEF Good, n
<1> QED
  BY <1>5, <1>6

LEMMA PunyBack ==
    ASSUME NEW u \in Seq(Wide)
    PROVE  Unpuny(Puny(u)) = u
<1> DEFINE n == Len(u)   s == Puny(u)
<1>1. /\ n \in Nat /\ Len(s) = 4 * n /\ u \in [1 .. n -> Wide] /\ \A i \in 1 .. n : u[i] \in Wide
      /\ \A i \in 1 .. n : \A k \in 1 .. 4 : s[4 * (i - 1) + k] = Coded(u[i])[k]
  BY PunyIs, LenProperties
<1> HIDE DEF n, s
<1>2. Len(s) \div 4 = n
  BY <1>1
<1> DEFINE back(i) == (s[4 * i - 3] - 97) * 4096 + (s[4 * i - 2] - 97) * 256 + (s[4 * i - 1] - 97) * 16 + (s[4 * i - 0] - 97)
<1>3. Unpuny(s) = [i \in 1 .. (Len(s) \div 4) |-> back(i)]
  BY Zenon DEF Unpuny
<1>4. ASSUME NEW i \in 1 .. n PROVE back(i) = u[i]
  <2>1. /\ 4 * i - 3 = 4 * (i - 1) + 1 /\ 4 * i - 2 = 4 * (i - 1) + 2
        /\ 4 * i - 1 = 4 * (i - 1) + 3 /\ 4 * i - 0 = 4 * (i - 1) + 4
    OBVIOUS
  <2>2. 1 \in 1 .. 4 /\ 2 \in 1 .. 4 /\ 3 \in 1 .. 4 /\ 4 \in 1 .. 4
    OBVIOUS
  <2>3. /\ s[4 * i - 3] = Coded(u[i])[1] /\ s[4 * i - 2] = Coded(u[i])[2]
        /\ s[4 * i - 1] = Coded(u[i])[3] /\ s[4 * i - 0] = Coded(u[i])[4]
    BY <1>1, <2>1, <2>2
  <2>4. (Coded(u[i])[1] - 97) * 4096 + (Coded(u[i])[2] - 97) * 256 + (Coded(u[i])[3] - 97) * 16 + (Coded(u[i])[4] - 97) = u[i]
    BY <1>1, CodedIs
  <2> QED
    BY <2>3, <2>4
<1>5. Unpuny(s) = [i \in 1 .. n |-> u[i]]
  <2> HIDE DEF back
  <2>1. Unpuny(s) = [i \in 1 .. n |-> back(i)]
    BY <1>2, <1>3, Zenon
  <2> QED
    BY <1>4, <2>1, Zenon
<1>6. u = [i \in 1 .. n |-> u[i]]
  BY <1>1
<1> QED
  BY <1>5, <1>6, Zenon DEF s

(* The label that decodes to u, but for the case of its prefix.            *)
LEMMA AceIs == Ace \in Seq(Byte) /\ Len(Ace) = 4 /\ LowerLabel(Ace) = Ace
<1>1. Ace \in Seq(Byte) /\ Len(Ace) = 4
  BY DEF Ace, Byte
<1>2. Ace[1] = 120 /\ Ace[2] = 110 /\ Ace[3] = 45 /\ Ace[4] = 45
  BY DEF Ace
<1>3. DOMAIN Ace = 1 .. 4 /\ Ace \in [1 .. 4 -> Byte]
  BY <1>1, LenProperties
<1>4. \A i \in 1 .. 4 : i = 1 \/ i = 2 \/ i = 3 \/ i = 4
  OBVIOUS
<1>5. \A i \in 1 .. 4 : (IF Ace[i] \in 65..90 THEN Ace[i] + 32 ELSE Ace[i]) = Ace[i]
  BY <1>2, <1>4
<1>6. LowerLabel(Ace) = [i \in 1 .. 4 |-> Ace[i]]
  BY <1>3, <1>5, Zenon DEF LowerLabel
<1>7. Ace = [i \in 1 .. 4 |-> Ace[i]]
  BY <1>3
<1> QED
  BY <1>1, <1>6, <1>7, Zenon

LEMMA IdnaSame ==
    ASSUME NEW x \in ByteLabels, IsIdna(x), NEW y \in ByteLabels, y = SubSeq(x, 5, Len(x))
    PROVE  /\ Len(y) = Len(x) - 4 /\ Ace \o y \in ByteLabels /\ Len(Ace \o y) = Len(x)
           /\ LowerLabel(Ace \o y) = LowerLabel(x)
<1>1. /\ x \in Seq(Byte) /\ Len(x) \in Nat /\ DOMAIN x = 1 .. Len(x) /\ Len(x) >= 4
      /\ LowerLabel(SubSeq(x, 1, 4)) = Ace
  BY LabelIs DEF IsIdna
<1>2. Len(y) = Len(x) - 4 /\ \A i \in 1 .. Len(x) - 4 : y[i] = x[4 + i]
  <2>1. \A i \in 5 .. Len(x) : x[i] \in Byte
    BY <1>1
  <2>2. /\ Len(y) = IF 5 <= Len(x) THEN Len(x) - 5 + 1 ELSE 0
        /\ \A i \in 1 .. Len(x) - 5 + 1 : y[i] = x[5 + i - 1]
    BY <1>1, <2>1, SubSeqProperties
  <2>3. Len(y) = Len(x) - 4
    BY <1>1, <2>2
  <2>4. \A i \in 1 .. Len(x) - 4 : i \in 1 .. Len(x) - 5 + 1 /\ 5 + i - 1 = 4 + i
    BY <1>1
  <2> QED
    BY <2>2, <2>3, <2>4
<1>3. y \in Seq(Byte)
  BY DEF ByteLabels
<1>4. /\ Ace \o y \in Seq(Byte) /\ Len(Ace \o y) = Len(x)
      /\ \A q \in 1 .. 4 : (Ace \o y)[q] = Ace[q]
      /\ \A q \in 1 .. Len(x) - 4 : (Ace \o y)[4 + q] = y[q]
  <2>1. /\ Ace \o y \in Seq(Byte) /\ Len(Ace \o y) = Len(Ace) + Len(y)
        /\ \A q \in 1 .. Len(Ace) : (Ace \o y)[q] = Ace[q]
        /\ \A q \in 1 .. Len(y) : (Ace \o y)[Len(Ace) + q] = y[q]
    <3>1. Ace \in Seq(Byte)
      BY AceIs
    <3> QED
      BY <1>3, <3>1, ConcatIs
  <2> QED
    BY <1>1, <1>2, <2>1, AceIs
<1> DEFINE low(c) == IF c \in 65..90 THEN c + 32 ELSE c
<1>5. /\ \A i \in 1 .. Len(x) : LowerLabel(x)[i] = low(x[i])
      /\ \A i \in 1 .. Len(x) : LowerLabel(Ace \o y)[i] = low((Ace \o y)[i])
      /\ \A i \in 1 .. 4 : LowerLabel(Ace)[i] = low(Ace[i])
      /\ \A i \in 1 .. 4 : LowerLabel(SubSeq(x, 1, 4))[i] = low(SubSeq(x, 1, 4)[i])
  <2>1. ASSUME NEW z \in Seq(Byte) PROVE \A i \in 1 .. Len(z) : LowerLabel(z)[i] = low(z[i])
    <3>1. DOMAIN z = 1 .. Len(z)
      BY LenProperties
    <3>2. LowerLabel(z) = [i \in 1 .. Len(z) |-> low(z[i])]
      BY <3>1, Zenon DEF LowerLabel
    <3> QED
      BY <3>2, Zenon
  <2>2. SubSeq(x, 1, 4) \in Seq(Byte) /\ Len(SubSeq(x, 1, 4)) = 4
    BY <1>1
  <2>3. x \in Seq(Byte) /\ Ace \o y \in Seq(Byte) /\ Len(Ace \o y) = Len(x) /\ Ace \in Seq(Byte) /\ Len(Ace) = 4
    BY <1>1, <1>4, AceIs, Zenon
  <2> HIDE DEF low
  <2>4. \A i \in 1 .. Len(x) : LowerLabel(x)[i] = low(x[i])
    BY <2>1, <2>3
  <2>5. \A i \in 1 .. Len(x) : LowerLabel(Ace \o y)[i] = low((Ace \o y)[i])
    BY <2>1, <2>3
  <2>6. \A i \in 1 .. 4 : LowerLabel(Ace)[i] = low(Ace[i])
    BY <2>1, <2>3
  <2>7. \A i \in 1 .. 4 : LowerLabel(SubSeq(x, 1, 4))[i] = low(SubSeq(x, 1, 4)[i])
    BY <2>1, <2>2
  <2> QED
    BY <2>4, <2>5, <2>6, <2>7, Zenon
<1>6. \A i \in 1 .. 4 : SubSeq(x, 1, 4)[i] = x[i]
  BY <1>1
<1> HIDE DEF low
<1>7. ASSUME NEW i \in 1 .. Len(x) PROVE LowerLabel(Ace \o y)[i] = LowerLabel(x)[i]
  <2>1. CASE i \in 1 .. 4
    <3>1. LowerLabel(x)[i] = low(x[i]) /\ x[i] = SubSeq(x, 1, 4)[i]
      BY <1>5, <1>6, <2>1, Zenon
    <3>2. low(SubSeq(x, 1, 4)[i]) = LowerLabel(SubSeq(x, 1, 4))[i]
      BY <1>5, <2>1, Zenon
    <3>3. LowerLabel(x)[i] = Ace[i]
      BY <1>1, <3>1, <3>2, Zenon
    <3>4. LowerLabel(Ace \o y)[i] = low((Ace \o y)[i]) /\ (Ace \o y)[i] = Ace[i]
      BY <1>4, <1>5, <2>1, Zenon
    <3>5. low(Ace[i]) = LowerLabel(Ace)[i] /\ LowerLabel(Ace) = Ace
      BY <1>5, <2>1, AceIs, Zenon
    <3> QED
      BY <3>3, <3>4, <3>5, Zenon
  <2>2. CASE i \notin 1 .. 4
    <3>1. i - 4 \in 1 .. Len(x) - 4 /\ 4 + (i - 4) = i
      BY <1>1, <2>2
    <3>2. (Ace \o y)[i] = x[i]
      BY <1>2, <1>4, <3>1
    <3> QED
      BY <1>5, <3>2, Zenon
  <2> QED
    BY <2>1, <2>2
<1>8. Ace \o y \in ByteLabels
  BY <1>4 DEF ByteLabels
<1>9. /\ LowerLabel(x) \in Seq(Byte) /\ Len(LowerLabel(x)) = Len(x)
      /\ LowerLabel(Ace \o y) \in Seq(Byte) /\ Len(LowerLabel(Ace \o y)) = Len(x)
  BY <1>4, <1>8, LowerIs DEF ByteLabels
<1>10. LowerLabel(Ace \o y) = LowerLabel(x)
  BY <1>7, <1>9, SeqEqual
<1> QED
  BY <1>2, <1>4, <1>8, <1>10

-----------------------------------------------------------------------------
(* The text in Unicode, and the way back.  What a label in punycode stands *)
(* for needs it, and holds no dot of another script.                       *)
Foreign(u) ==
    /\ u \in Seq(Wide) /\ \E i \in 1 .. Len(u) : u[i] > 127
    /\ \A i \in 1 .. Len(u) : u[i] \in Dots => u[i] = 46

LEMMA FirstIn ==
    ASSUME NEW S, NEW e \in Seq(S), Len(e) > 0
    PROVE  e[1] \in S
<1>1. Len(e) \in Nat /\ \A i \in 1 .. Len(e) : e[i] \in S
  BY LenProperties
<1>2. 1 \in 1 .. Len(e)
  BY <1>1
<1> QED
  BY <1>1, <1>2

LEMMA EscapifyStrReads ==
    ASSUME NEW u, Foreign(u)
    PROVE  /\ EscapifyStr(u) \in Seq(Wide) /\ Len(EscapifyStr(u)) > 0
           /\ EscapifyStr(u)[1] # 64 /\ EscapifyStr(u)[1] \notin Dots
           /\ \E k \in 1 .. Len(EscapifyStr(u)) : EscapifyStr(u)[k] > 127
           /\ \A L : Reads(L, <<>>, EscapifyStr(u), "unicode", L, u)
<1> DEFINE n == Len(u)   piece(c) == IF c > 126 THEN <<c>> ELSE EscapedByte(c)
           p == [i \in DOMAIN u |-> piece(u[i])]
<1>1. /\ n \in Nat /\ DOMAIN u = 1 .. n /\ u \in Seq(Wide) /\ u \in Seq(Nat)
      /\ \A i \in 1 .. n : u[i] \in Wide /\ u[i] \in Nat /\ (u[i] \in Dots => u[i] = 46)
  <2>1. u \in Seq(Wide) /\ \A i \in 1 .. Len(u) : u[i] \in Dots => u[i] = 46
    BY DEF Foreign
  <2>2. Wide \subseteq Nat
    BY DEF Wide
  <2>3. n \in Nat /\ DOMAIN u = 1 .. n /\ \A i \in 1 .. n : u[i] \in Wide
    BY <2>1, LenProperties
  <2>4. u \in Seq(Nat)
    BY <2>1, <2>2, SeqOfLess
  <2> HIDE DEF n
  <2> QED
    BY <2>1, <2>2, <2>3, <2>4 DEF n
<1>2. PICK j \in 1 .. n : u[j] > 127
  BY DEF Foreign
<1>3. EscapifyStr(u) = FlattenSeq(p)
  BY Zenon DEF EscapifyStr
<1>4. p = [i \in 1 .. n |-> piece(u[i])]
  BY <1>1, Zenon
<1>5. \A i \in 1 .. n : p[i] = piece(u[i])
  BY <1>4, Zenon
<1>f. ASSUME NEW c PROVE (c > 126 => piece(c) = <<c>>) /\ (~(c > 126) => piece(c) = EscapedByte(c))
  BY Zenon
<1> HIDE DEF p, n, piece
<1>6. ASSUME NEW c \in Wide, c \in Dots => c = 46
      PROVE  /\ piece(c) \in Seq(Wide) /\ Len(piece(c)) > 0
             /\ piece(c)[1] # 64 /\ piece(c)[1] \notin Dots
             /\ \A L, l : Reads(L, l, piece(c), "unicode", L, Append(l, c))
  <2>1. CASE c > 126
    <3>0. c \in Nat
      BY DEF Wide
    <3>1. piece(c) = <<c>> /\ c # 64 /\ c # 46 /\ c # 92
      BY <1>f, <2>1, <3>0
    <3>2. c \notin Dots /\ c \notin DotsOf("unicode")
      BY <1>6, <3>1, DotsAre
    <3>3. \A L, l : Reads(L, l, <<c>>, "unicode", L, Append(l, c))
      BY <3>1, <3>2, PlainRead
    <3>4. <<c>> \in Seq(Wide) /\ Len(<<c>>) > 0 /\ <<c>>[1] = c
      OBVIOUS
    <3> QED
      BY <3>1, <3>2, <3>3, <3>4, ZenonT(40)
  <2>2. CASE ~(c > 126)
    <3>1. piece(c) = EscapedByte(c)
      BY <1>f, <2>2, Zenon
    <3>0. c \in Nat
      BY DEF Wide
    <3>2. c \in Byte /\ 0 .. 126 \subseteq Wide
      BY <2>2, <3>0 DEF Byte, Wide
    <3>3. /\ EscapedByte(c) \in Seq(0 .. 126) /\ Len(EscapedByte(c)) > 0
          /\ EscapedByte(c)[1] \notin {46, 64}
          /\ \A L, l, form : Reads(L, l, EscapedByte(c), form, L, Append(l, c))
      BY <3>2, ByteReads
    <3>4. EscapedByte(c) \in Seq(Wide)
      BY <3>2, <3>3, SeqOfLess
    <3>5. EscapedByte(c)[1] \in 0 .. 126
      <4>1. PICK e : e = EscapedByte(c)
        OBVIOUS
      <4>2. e \in Seq(0 .. 126) /\ Len(e) > 0
        BY <3>3, <4>1, Zenon
      <4>3. e[1] \in 0 .. 126
        BY <4>2, FirstIn
      <4> QED
        BY <4>1, <4>3, Zenon
    <3>6. EscapedByte(c)[1] # 64 /\ EscapedByte(c)[1] \notin Dots
      <4>1. \A d \in 0 .. 126 : d \notin {46, 64} => d # 64 /\ d \notin Dots
        BY DEF Dots
      <4> QED
        BY <3>3, <3>5, <4>1, Zenon
    <3> QED
      BY <3>1, <3>3, <3>4, <3>6, Zenon
  <2> QED
    BY <2>1, <2>2
<1>7. \A i \in 1 .. n : p[i] \in Seq(Wide)
  BY <1>1, <1>5, <1>6
<1>8. p \in Seq(Seq(Wide)) /\ Len(p) = n /\ p \in Seq(Seq(Nat))
  <2>1. p \in [1 .. n -> Seq(Wide)]
    BY <1>4, <1>7
  <2>2. p \in Seq(Seq(Wide)) /\ Len(p) = n
    BY <1>1, <2>1
  <2>3. Wide \subseteq Nat
    BY DEF Wide
  <2>4. Seq(Wide) \subseteq Seq(Nat)
    BY <2>3, SeqOfLess
  <2>5. Seq(Seq(Wide)) \subseteq Seq(Seq(Nat))
    BY <2>4, SeqOfLess
  <2> QED
    BY <2>2, <2>5
<1>9. 1 \in 1 .. n /\ n > 0
  BY <1>1, <1>2
<1>10. Len(p[1]) > 0 /\ p[1][1] # 64 /\ p[1][1] \notin Dots
  BY <1>1, <1>5, <1>6, <1>9
<1>11. FlattenSeq(p) \in Seq(Wide) /\ Len(FlattenSeq(p)) > 0 /\ FlattenSeq(p)[1] = p[1][1]
  BY <1>8, <1>9, <1>10, FlattenFirst
<1>12. \E k \in 1 .. Len(FlattenSeq(p)) : FlattenSeq(p)[k] > 127
  <2>1. u[j] > 126
    BY <1>1, <1>2
  <2>2. p[j] = <<u[j]>>
    BY <1>5, <1>f, <2>1
  <2>3. p[j][1] = u[j] /\ 1 \in 1 .. Len(p[j]) /\ j \in 1 .. Len(p)
    BY <1>8, <2>2
  <2>4. PICK k \in 1 .. Len(FlattenSeq(p)) : FlattenSeq(p)[k] = p[j][1]
    BY <1>8, <2>3, FlattenHolds
  <2> QED
    BY <1>2, <2>3, <2>4
<1>13. \A L : Reads(L, <<>>, FlattenSeq(p), "unicode", L, u)
  <2> TAKE L
  <2>1. ASSUME NEW i \in 1 .. Len(u), NEW l PROVE Reads(L, l, p[i], "unicode", L, Append(l, u[i]))
    <3>1. u[i] \in Wide /\ (u[i] \in Dots => u[i] = 46) /\ p[i] = piece(u[i])
      BY <1>1, <1>5 DEF n
    <3> QED
      BY <1>6, <3>1
  <2>2. Len(p) = Len(u)
    BY <1>8 DEF n
  <2>3. u \in Seq(Nat) /\ p \in Seq(Seq(Nat)) /\ \A i \in 1 .. Len(u) : \A l : Reads(L, l, p[i], "unicode", L, Append(l, u[i]))
    BY <1>1, <1>8, <2>1
  <2> QED
    BY <2>2, <2>3, PiecesRead
<1> QED
  BY <1>3, <1>10, <1>11, <1>12, <1>13, Zenon

LEMMA ForeignBack ==
    ASSUME NEW x \in ByteLabels, IsIdna(x), ~(Len(x) > MaxLabel), NEW u, Foreign(u), SubSeq(x, 5, Len(x)) = Puny(u)
    PROVE  /\ TextOf(x, "unicode") = EscapifyStr(u) /\ u # <<>>
           /\ EncodeLabel(u, "unicode") = [err |-> "none", labels |-> <<Ace \o Puny(u)>>]
           /\ Ace \o Puny(u) \in ByteLabels /\ LowerLabel(Ace \o Puny(u)) = LowerLabel(x)
<1>1. u \in Seq(Wide) /\ Len(u) \in Nat /\ DOMAIN u = 1 .. Len(u)
  BY LenProperties DEF Foreign
<1>2. PICK j \in 1 .. Len(u) : u[j] > 127
  BY DEF Foreign
<1>3. u # <<>>
  <2>1. Len(u) # 0
    BY <1>1, <1>2
  <2> QED
    BY <1>1, <2>1, EmptySeq
<1>4. Puny(u) \in ByteLabels
  BY <1>1, PunyIs DEF ByteLabels
<1>5. /\ Ace \o Puny(u) \in ByteLabels /\ Len(Ace \o Puny(u)) = Len(x)
      /\ LowerLabel(Ace \o Puny(u)) = LowerLabel(x)
  BY <1>4, IdnaSame
<1>6. TextOf(x, "unicode") = EscapifyStr(u)
  BY <1>1, PunyBack, Zenon DEF TextOf, IdnaDecode
<1>7. ~(\A i \in DOMAIN u : u[i] < 128)
  <2>1. u[j] \in Nat
    BY <1>1 DEF Wide
  <2>2. ~(u[j] < 128)
    BY <1>2, <2>1
  <2> QED
    BY <1>1, <2>2, Zenon
<1>8. IdnaEncode(u) = Is(<<Ace \o Puny(u)>>)
  BY <1>5, <1>7, Zenon DEF IdnaEncode
<1>9. EncodeLabel(u, "unicode") = [err |-> "none", labels |-> <<Ace \o Puny(u)>>]
  BY <1>8, Zenon DEF EncodeLabel, Is
<1> QED
  BY <1>3, <1>5, <1>6, <1>9, Zenon

LEMMA AsciiBack ==
    ASSUME NEW x \in ByteLabels, ~IsIdna(x), ~(Len(x) > MaxLabel), \A i \in 1 .. Len(x) : ~(x[i] > 127)
    PROVE  /\ TextOf(x, "unicode") = Escapify(x)
           /\ EncodeLabel(x, "unicode") = [err |-> "none", labels |-> <<x>>]
<1>1. DOMAIN x = 1 .. Len(x) /\ \A i \in 1 .. Len(x) : x[i] \in Nat
  BY LabelIs
<1>2. \A i \in DOMAIN x : x[i] < 128
  BY <1>1
<1>3. IdnaEncode(x) = Is(<<x>>)
  BY <1>2, Zenon DEF IdnaEncode
<1> QED
  BY <1>3, Zenon DEF EncodeLabel, Is, TextOf, IdnaDecode

(* A label in punycode is one that the codec makes.                        *)
CodecMade(x) == IsIdna(x) => \E u : Foreign(u) /\ SubSeq(x, 5, Len(x)) = Puny(u)

LEMMA ForeignNamesBack ==
    ASSUME NEW a, IsName(a), a # <<>>, a # RootName, \A i \in DOMAIN a : CodecMade(a[i]),
           NEW j \in DOMAIN a, IsIdna(a[j]), ~Mixed(a)
    PROVE  \E b \in ByteNames : Alike(a, b) /\ NameFromText(Joined(a, "unicode"), {}) = MakeName(b)
<1> DEFINE n == Len(a)
           u == [i \in 1 .. n |-> CHOOSE y : Foreign(y) /\ SubSeq(a[i], 5, Len(a[i])) = Puny(y)]
           v == [i \in 1 .. n |-> IF IsIdna(a[i]) THEN u[i] ELSE a[i]]
           e == [i \in 1 .. n |-> IF IsIdna(a[i]) THEN Ace \o Puny(u[i]) ELSE a[i]]
           text == Joined(a, "unicode")
<1>1. /\ a \in ByteNames /\ n \in Nat /\ n > 0 /\ DOMAIN a = 1 .. n /\ a[1] # <<>>
      /\ \A i \in 1 .. n : a[i] \in ByteLabels /\ ~(Len(a[i]) > MaxLabel) /\ (a[i] = <<>> => i = n)
  BY NameFacts, NameIs
<1>2. \A i \in 1 .. n : IsIdna(a[i]) => Foreign(u[i]) /\ SubSeq(a[i], 5, Len(a[i])) = Puny(u[i])
  <2> TAKE i \in 1 .. n
  <2> SUFFICES ASSUME IsIdna(a[i]) PROVE Foreign(u[i]) /\ SubSeq(a[i], 5, Len(a[i])) = Puny(u[i])
    OBVIOUS
  <2>1. \E y : Foreign(y) /\ SubSeq(a[i], 5, Len(a[i])) = Puny(y)
    BY <1>1, Zenon DEF CodecMade
  <2>2. u[i] = CHOOSE y : Foreign(y) /\ SubSeq(a[i], 5, Len(a[i])) = Puny(y)
    BY Zenon
  <2> HIDE DEF u
  <2> QED
    BY <2>1, <2>2, Zenon
<1> HIDE DEF u
<1>3. ASSUME NEW i \in 1 .. n
      PROVE  /\ IsIdna(a[i]) => v[i] = u[i] /\ e[i] = Ace \o Puny(u[i])
             /\ ~IsIdna(a[i]) => v[i] = a[i] /\ e[i] = a[i]
  BY Zenon
<1>4. e = [i \in 1 .. n |-> e[i]]
  BY Zenon
<1> HIDE DEF v, e
<1>5. ASSUME NEW i \in 1 .. n, ~IsIdna(a[i]) PROVE \A k \in 1 .. Len(a[i]) : ~(a[i][k] > 127)
  <2>1. DOMAIN a[i] = 1 .. Len(a[i])
    BY <1>1, LabelIs
  <2> QED
    BY <1>1, <1>5, <2>1, ZenonT(40) DEF Mixed
<1>6. Byte \subseteq Wide /\ 0 .. 126 \subseteq Wide /\ Wide \subseteq Nat /\ 46 \in Wide
  BY DEF Byte, Wide
<1>7. ASSUME NEW i \in 1 .. n
      PROVE  /\ TextOf(a[i], "unicode") \in Seq(Wide)
             /\ \A L : Reads(L, <<>>, TextOf(a[i], "unicode"), "unicode", L, v[i])
             /\ v[i] # <<>> => EncodeLabel(v[i], "unicode") = [err |-> "none", labels |-> <<e[i]>>]
             /\ v[i] = <<>> => a[i] = <<>> /\ e[i] = <<>>
             /\ e[i] \in ByteLabels /\ LowerLabel(e[i]) = LowerLabel(a[i])
             /\ a[i] # <<>> => /\ Len(TextOf(a[i], "unicode")) > 0
                               /\ TextOf(a[i], "unicode")[1] # 64 /\ TextOf(a[i], "unicode")[1] \notin Dots
             /\ IsIdna(a[i]) => \E k \in 1 .. Len(TextOf(a[i], "unicode")) : TextOf(a[i], "unicode")[k] > 127
  <2>1. CASE IsIdna(a[i])
    <3>1. /\ v[i] = u[i] /\ e[i] = Ace \o Puny(u[i])
          /\ Foreign(u[i]) /\ SubSeq(a[i], 5, Len(a[i])) = Puny(u[i])
      BY <1>2, <1>3, <2>1
    <3>2. /\ TextOf(a[i], "unicode") = EscapifyStr(u[i]) /\ u[i] # <<>>
          /\ EncodeLabel(u[i], "unicode") = [err |-> "none", labels |-> <<Ace \o Puny(u[i])>>]
          /\ Ace \o Puny(u[i]) \in ByteLabels /\ LowerLabel(Ace \o Puny(u[i])) = LowerLabel(a[i])
      BY <1>1, <2>1, <3>1, ForeignBack
    <3>3. /\ EscapifyStr(u[i]) \in Seq(Wide) /\ Len(EscapifyStr(u[i])) > 0
          /\ EscapifyStr(u[i])[1] # 64 /\ EscapifyStr(u[i])[1] \notin Dots
          /\ \E k \in 1 .. Len(EscapifyStr(u[i])) : EscapifyStr(u[i])[k] > 127
          /\ \A L : Reads(L, <<>>, EscapifyStr(u[i]), "unicode", L, u[i])
      BY <3>1, EscapifyStrReads
    <3> QED
      BY <3>1, <3>2, <3>3, Zenon
  <2>2. CASE ~IsIdna(a[i])
    <3>1. v[i] = a[i] /\ e[i] = a[i] /\ a[i] \in ByteLabels
      BY <1>1, <1>3, <2>2
    <3>2. \A k \in 1 .. Len(a[i]) : ~(a[i][k] > 127)
      BY <1>5, <2>2, ZenonT(40)
    <3>3. /\ TextOf(a[i], "unicode") = Escapify(a[i])
          /\ EncodeLabel(a[i], "unicode") = [err |-> "none", labels |-> <<a[i]>>]
      BY <1>1, <2>2, <3>2, AsciiBack
    <3>4. /\ Escapify(a[i]) \in Seq(0 .. 126)
          /\ a[i] # <<>> => Len(Escapify(a[i])) > 0 /\ Escapify(a[i])[1] \notin {46, 64}
          /\ \A form, L : Reads(L, <<>>, Escapify(a[i]), form, L, a[i])
      BY <3>1, EscapifyReads
    <3>5. Escapify(a[i]) \in Seq(Wide)
      BY <1>6, <3>4, SeqOfLess
    <3>6. a[i] # <<>> => Escapify(a[i])[1] # 64 /\ Escapify(a[i])[1] \notin Dots
      <4>1. a[i] # <<>> => Escapify(a[i])[1] \in 0 .. 126
        BY <3>4, FirstIn
      <4>2. \A d \in 0 .. 126 : d \notin {46, 64} => d # 64 /\ d \notin Dots
        BY DEF Dots
      <4> QED
        BY <3>4, <4>1, <4>2, Zenon
    <3> QED
      BY <2>2, <3>1, <3>3, <3>4, <3>5, <3>6, ZenonT(40)
  <2> QED
    BY <2>1, <2>2
<1>8. e \in Seq(ByteLabels) /\ Len(e) = n
  <2>1. e \in [1 .. n -> ByteLabels]
    BY <1>4, <1>7, ZenonT(40)
  <2>2. n \in Nat
    BY <1>1
  <2> HIDE DEF n
  <2> QED
    BY <2>1, <2>2
<1>9. 1 \in 1 .. n /\ n \in 1 .. n /\ n \in Nat \ {0}
  <2> HIDE DEF n
  <2> QED
    BY <1>1
<1>10. Joins(a, n, "unicode", Wide, v, e)
  <2>1. \A i \in 1 .. n : i # n => v[i] # <<>>
    BY <1>1, <1>7
  <2>2. Len(TextOf(a[1], "unicode")) > 0
    BY <1>1, <1>7, <1>9, Zenon
  <2>3. \A i \in 1 .. n :
          /\ TextOf(a[i], "unicode") \in Seq(Wide)
          /\ \A L : Reads(L, <<>>, TextOf(a[i], "unicode"), "unicode", L, v[i])
          /\ i # n => v[i] # <<>> /\ EncodeLabel(v[i], "unicode") = [err |-> "none", labels |-> <<e[i]>>]
    BY <1>7, <2>1
  <2> HIDE DEF n
  <2> QED
    BY <1>1, <1>6, <1>8, <1>9, <2>2, <2>3, ZenonT(40) DEF Joins
<1> HIDE DEF n
<1>11. /\ Reads(<<>>, <<>>, text, "unicode", SubSeq(e, 1, n - 1), v[n])
       /\ text \in Seq(Wide) /\ Len(text) > 0 /\ text[1] = TextOf(a[1], "unicode")[1]
       /\ \A i \in 1 .. n : \A k \in 1 .. Len(TextOf(a[i], "unicode")) :
            \E q \in 1 .. Len(text) : text[q] = TextOf(a[i], "unicode")[k]
  <2>1. text = Joined(a, "unicode")
    OBVIOUS
  <2> HIDE DEF text
  <2>2. JoinedAs(Joined(a, "unicode"), a, n, "unicode", Wide, v, e)
    BY <1>10, JoinedReads, Zenon
  <2>3. JoinedAs(text, a, n, "unicode", Wide, v, e)
    BY <2>1, <2>2, Zenon
  <2> QED
    BY <2>3, Zenon DEF JoinedAs
<1> HIDE DEF text
<1>12. text \in Seq(Nat) /\ DOMAIN text = 1 .. Len(text)
  <2>1. text \in Seq(Nat)
    BY <1>6, <1>11, SeqOfLess
  <2> QED
    BY <2>1, LenProperties
<1>13. text # <<>> /\ text # <<64>> /\ text[1] \notin DotsOf("unicode")
  <2>1. text[1] # 64 /\ text[1] \notin Dots
    BY <1>1, <1>7, <1>9, <1>11
  <2>2. text # <<>>
    BY <1>11
  <2>3. <<64>>[1] = 64
    OBVIOUS
  <2> QED
    BY <2>1, <2>2, <2>3, DotsAre, Zenon
<1>14. ReadName(text, {}, "unicode") = MakeName(e)
  <2> DEFINE M == SubSeq(e, 1, n - 1)   m == v[n]   x == e[n]
  <2>1. m = <<>> => x = <<>>
    BY <1>7, <1>9
  <2>2. m # <<>> => EncodeLabel(m, "unicode") = [err |-> "none", labels |-> <<x>>]
    BY <1>7, <1>9
  <2>3. Reads(<<>>, <<>>, text, "unicode", M, m)
    BY <1>11, Zenon
  <2>4. M \o <<x>> = e
    <3>1. e \in ByteNames /\ Len(e) > 0 /\ Len(e) = n
      BY <1>1, <1>8 DEF ByteNames
    <3> QED
      BY <3>1, LastJoins, Zenon
  <2> HIDE DEF M, m, x
  <2>5. ReadName(text, {}, "unicode") = MakeName(Under(M \o <<x>>, {}))
    <3>1. PICK origin : origin = {}
      OBVIOUS
    <3>2. ReadName(text, origin, "unicode") = MakeName(Under(M \o <<x>>, origin))
      <4>1. ReadAs(text, "unicode", M, m, x)
        BY <1>12, <1>13, <2>1, <2>2, <2>3, Zenon DEF ReadAs
      <4> QED
        BY <4>1, ReadNameIs
    <3> QED
      BY <3>1, <3>2, Zenon
  <2>6. Under(e, {}) = e
    BY Zenon DEF Under
  <2> QED
    BY <2>4, <2>5, <2>6, Zenon
<1>15. \E i \in DOMAIN text : text[i] > 127
  <2>1. j \in 1 .. n /\ IsIdna(a[j])
    BY <1>1
  <2>2. PICK k \in 1 .. Len(TextOf(a[j], "unicode")) : TextOf(a[j], "unicode")[k] > 127
    BY <1>7, <2>1
  <2>3. PICK q \in 1 .. Len(text) : text[q] = TextOf(a[j], "unicode")[k]
    BY <1>11, <2>1
  <2> QED
    BY <1>12, <2>2, <2>3, Zenon
<1>16. NameFromText(text, {}) = MakeName(e)
  BY <1>14, <1>15, Zenon DEF NameFromText, FromUnicode
<1>17. Alike(a, e)
  <2>1. Len(a) = n /\ Len(e) = n
    BY <1>8 DEF n
  <2>2. \A k \in 0 .. n - 1 : FromEnd(a, k) = FromEnd(e, k)
    <3> TAKE k \in 0 .. n - 1
    <3>1. n - k \in 1 .. n
      BY <1>1
    <3>2. LowerLabel(e[n - k]) = LowerLabel(a[n - k])
      BY <1>7, <3>1
    <3> QED
      BY <2>1, <3>2, Zenon DEF FromEnd
  <2> QED
    BY <2>1, <2>2, Zenon DEF Alike
<1>18. e \in ByteNames
  BY <1>8 DEF ByteNames
<1> QED
  BY <1>16, <1>17, <1>18, Zenon DEF text

LEMMA SameIsAlike ==
    ASSUME NEW a \in ByteNames, NEW b \in ByteNames, Alike(a, b)
    PROVE  SameName(b, a)
<1>1. Alike(b, a)
  BY DEF Alike
<1>2. IsAbsolute(b) <=> IsAbsolute(a)
  BY AlikeFacts
<1> QED
  BY <1>1, <1>2, ComparedIs DEF SameName

LEMMA UnicodeComesBack ==
    ASSUME NEW a, IsName(a), \A i \in DOMAIN a : CodecMade(a[i]), ~Mixed(a)
    PROVE  LET back == NameFromText(UnicodeText(a, FALSE), {})
           IN  back.err = "none" /\ SameName(back.labels, a)
<1>1. a \in ByteNames /\ MakeName(a) = Is(a) /\ Alike(a, a)
  BY NameFacts DEF Alike
<1>2. Is(a).err = "none" /\ Is(a).labels = a /\ SameName(a, a) /\ MakeName(a).err = "none"
  <2>1. Is(a).err = "none" /\ Is(a).labels = a
    BY DEF Is
  <2> QED
    BY <1>1, <2>1, SameIsAlike, Zenon
<1>3. ASSUME UnicodeText(a, FALSE) = NameText(a, FALSE)
      PROVE  LET back == NameFromText(UnicodeText(a, FALSE), {})
             IN  back.err = "none" /\ SameName(back.labels, a)
  BY <1>2, <1>3, BytesComeBack, Zenon
<1>4. CASE a = <<>> \/ a = RootName
  <2>1. UnicodeText(a, FALSE) = NameText(a, FALSE)
    BY <1>4, Zenon DEF UnicodeText, NameText, Written
  <2> QED
    BY <1>3, <2>1
<1>5. CASE a # <<>> /\ a # RootName /\ ~\E i \in DOMAIN a : IsIdna(a[i])
  <2>1. UnicodeText(a, FALSE) = Joined(a, "unicode") /\ NameText(a, FALSE) = Joined(a, "bytes")
    BY <1>5, Zenon DEF UnicodeText, NameText, Written
  <2>2. \A i \in DOMAIN a : IdnaDecode(a[i]) = Escapify(a[i])
    BY <1>5, Zenon DEF IdnaDecode
  <2>3. "bytes" # "unicode"
    OBVIOUS
  <2>4. [i \in DOMAIN a |-> (IF i = 1 THEN <<>> ELSE <<46>>)
                            \o (IF "unicode" = "unicode" THEN IdnaDecode(a[i]) ELSE Escapify(a[i]))]
        = [i \in DOMAIN a |-> (IF i = 1 THEN <<>> ELSE <<46>>)
                              \o (IF "bytes" = "unicode" THEN IdnaDecode(a[i]) ELSE Escapify(a[i]))]
    BY <2>2, <2>3, Zenon
  <2>5. Joined(a, "unicode") = Joined(a, "bytes")
    BY <2>4, Zenon DEF Joined
  <2> QED
    BY <1>3, <2>1, <2>5, Zenon
<1>6. CASE a # <<>> /\ a # RootName /\ \E i \in DOMAIN a : IsIdna(a[i])
  <2>1. PICK b \in ByteNames : Alike(a, b) /\ NameFromText(Joined(a, "unicode"), {}) = MakeName(b)
    BY <1>6, ForeignNamesBack
  <2>2. UnicodeText(a, FALSE) = Joined(a, "unicode")
    BY <1>6, Zenon DEF UnicodeText, Written
  <2>3. MakeName(b) = [err |-> "none", labels |-> b]
    BY <1>1, <1>2, <2>1, MadeAlike
  <2>4. SameName(b, a)
    BY <1>1, <2>1, SameIsAlike
  <2>5. NameFromText(UnicodeText(a, FALSE), {}) = [err |-> "none", labels |-> b]
    BY <2>1, <2>2, <2>3, Zenon
  <2>6. [err |-> "none", labels |-> b].err = "none" /\ [err |-> "none", labels |-> b].labels = b
    OBVIOUS
  <2> QED
    BY <2>4, <2>5, <2>6, Zenon
<1> QED
  BY <1>4, <1>5, <1>6

-----------------------------------------------------------------------------
(* A name is given, whose labels in punycode the codec could have made.    *)
SurvivesInit == given.kind = "name" => IsName(given.value) /\ \A i \in DOMAIN given.value : CodecMade(given.value[i])
SurvivesSpec == SurvivesInit /\ [][UNCHANGED given]_given

(* Name.to_text and dns.name.from_text, and to_unicode and from_unicode,   *)
(* undo each other for every name, whatever bytes its labels are made of:  *)
(* escapes, dots and quotes in labels, relative names, the root, a final   *)
(* dot left out and an origin given instead.                               *)
THEOREM NamesComeBack == SurvivesSpec => []NamesSurvive
<1>1. SurvivesInit => NamesSurvive
  BY BytesComeBack, UnicodeComesBack, Zenon DEF SurvivesInit, NamesSurvive, NameSurvives
<1>2. SurvivesInit /\ [UNCHANGED given]_given => SurvivesInit'
  BY DEF SurvivesInit
<1> QED
  BY <1>1, <1>2, PTL DEF SurvivesSpec

=============================================================================
