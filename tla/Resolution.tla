------------------------------ MODULE Resolution ------------------------------
(***************************************************************************)
(* dns.asyncresolver.Resolver.resolve, as the proxy calls it: the loop     *)
(* over nameservers of dns.resolver._Resolution, over the UDP and TCP      *)
(* exchanges of dns/asyncquery.py and the asyncio backend.  The A and the  *)
(* AAAA lookup of a name run at the same time and share only the list of   *)
(* nameservers, which nobody changes any more, and the clock.              *)
(*                                                                         *)
(* Time passes in ticks.  Code takes no time, except that the event loop   *)
(* may be held up by other code, MaxStalls ticks in all: then a deadline   *)
(* can pass before anybody waits for it.                                   *)
(***************************************************************************)
EXTENDS Integers, Sequences, SequencesExt

CONSTANTS
    Name,           \* the names that occur in answers
    QName,          \* the name asked for
    MaxChain,       \* MAX_CHAIN: the CNAMEs resolve_chaining follows
    Lookup,         \* the lookups of one connection: "v4" for A, "v6" for AAAA
    Nameserver,     \* addresses, and URLs of DNS over HTTPS
    Family,         \* Family[n]: "v4", "v6" or "url"
    Replies,        \* the replies a nameserver may send
    Timeout,        \* resolver.timeout: ticks for one exchange
    Lifetime,       \* resolver.lifetime: ticks for a lookup
    Backoff,        \* ticks before the second round over the nameservers
    MaxBackoff,     \* ticks the doubled backoff is capped at
    MaxStalls,      \* ticks the event loop is held up
    MaxClock        \* where the model's clock stops

ASSUME AnswersAssumption ==
    /\ QName \in Name /\ {"address", "nothing"} \cap Name = {}
    /\ MaxChain \in Nat \ {0}

ASSUME ResolutionAssumption ==
    /\ Family \in [Nameserver -> {"v4", "v6", "url"}]
    /\ Timeout \in Nat \ {0} /\ Lifetime \in Nat \ {0}
    /\ Backoff \in Nat \ {0} /\ MaxBackoff \in Nat /\ Backoff <= MaxBackoff
    /\ MaxStalls \in Nat /\ MaxClock \in Nat

VARIABLES
    nameservers,    \* resolver.nameservers, set up once
    clock,
    stalls,         \* ticks the event loop has been held up
    at,             \* where each lookup is
    start,          \* when it began
    listed,         \* _Resolution.nameservers: those still in the mix
    current,        \* current_nameservers: those left in this round
    server,         \* nameserver
    tcp,            \* tcp_attempt
    tcpNext,        \* retry_with_tcp
    backoff,
    expiration,     \* of the exchange
    until,          \* when the wait in progress times out, or Never
    result          \* what the lookup returned or raised

lookupvars == <<at, start, listed, current, server, tcp, tcpNext, backoff, expiration, until, result>>
resolutionvars == <<nameservers, clock, stalls, lookupvars>>

Never == -1
None == "none"

Asking == {"start", "socket", "udp", "connect", "length", "body"}
Waiting == {"sleep", "udp", "connect", "length", "body"}
Result == {"answer", "NoAnswer", "NXDOMAIN", "YXDOMAIN", "NoNameservers", "LifetimeTimeout"}

Min2(a, b) == IF a <= b THEN a ELSE b

-----------------------------------------------------------------------------
(* What dnspython makes of one message a nameserver sends: the parser of   *)
(* dns/message.py, the check that the message answers the query, the walk  *)
(* along the CNAME chain, and what dns/resolver.py concludes.              *)
(*                                                                         *)
(* A reply is a record: who sent it, how much of it can be parsed, whether *)
(* its header answers ours (QR set, same id and opcode), its question, its *)
(* TC flag, its rcode, and what its answer section has for every name: an  *)
(* address of the type asked for, the target of a CNAME, or nothing.       *)

Rcode == {"NOERROR", "NXDOMAIN", "YXDOMAIN", "SERVFAIL", "REFUSED", "FORMERR", "NOTIMP"}

Reply ==
    [from : {"nameserver", "elsewhere"}, form : {"short", "broken", "signed", "whole"},
     header : BOOLEAN, question : {"ours", "none", "other"}, tc : BOOLEAN,
     rcode : Rcode, answer : [Name -> Name \cup {"address", "nothing"}]]

(* Message.is_response: some errors may come without a question.           *)
IsResponse(r) ==
    /\ r.header
    /\ \/ r.question = "ours"
       \/ r.question = "none" /\ r.rcode \in {"FORMERR", "SERVFAIL", "NOTIMP", "REFUSED"}

(* The name resolve_chaining looks at after i CNAMEs.                      *)
Link(answer) ==
    LET link[i \in 0 .. MaxChain] ==
            IF i = 0 THEN QName
            ELSE IF answer[link[i - 1]] \in Name THEN answer[link[i - 1]] ELSE link[i - 1]
    IN  link

(* Message.resolve_chaining.                                               *)
Chain(answer) ==
    LET last == answer[Link(answer)[MaxChain - 1]]
    IN  IF last \in Name THEN "too long" ELSE last

(* receive_udp takes only what comes from the address it asked; a stream   *)
(* has one other end.                                                      *)
Stray(r, stream) == ~stream /\ r.from = "elsewhere"

(* from_wire with raise_on_truncation, which only udp() asks for: TC comes *)
(* before a FormError, but not before a header that is too short.          *)
Truncated(r, stream) == ~stream /\ r.tc /\ r.form \in {"broken", "whole"}

(* ShortHeader, TrailingJunk and their like, and BadResponse: FormErrors.  *)
FormError(r) == r.form \in {"short", "broken"} \/ ~IsResponse(r)

(* query_result for a response: "unusable" takes the nameserver out of the *)
(* mix, "useless" keeps it for another round.                              *)
Judge(rcode, chain) ==
    CASE rcode = "NOERROR" /\ chain = "address"   -> "answer"
      [] rcode = "NOERROR" /\ chain = "nothing"   -> "NoAnswer"
      [] rcode = "NXDOMAIN" /\ chain = "nothing"  -> "NXDOMAIN"
      [] rcode = "YXDOMAIN"                       -> "YXDOMAIN"
      [] OTHER                                    -> "unusable"

(* udp() and tcp(), with what query_result makes of their exceptions.  A   *)
(* signature nobody has a key for is no FormError.                         *)
Verdict(r, stream) ==
    IF Stray(r, stream) \/ r.form = "signed" THEN "useless"
    ELSE IF Truncated(r, stream) THEN "Truncated"
    ELSE IF FormError(r) THEN "unusable"
    ELSE Judge(r.rcode, Chain(r.answer))

-----------------------------------------------------------------------------

ResolutionInit ==
    /\ clock = 0 /\ stalls = 0
    /\ at = [l \in Lookup |-> "idle"]
    /\ start = [l \in Lookup |-> 0]
    /\ listed = [l \in Lookup |-> <<>>]
    /\ current = [l \in Lookup |-> <<>>]
    /\ server = [l \in Lookup |-> None]
    /\ tcp = [l \in Lookup |-> FALSE]
    /\ tcpNext = [l \in Lookup |-> FALSE]
    /\ backoff = [l \in Lookup |-> 0]
    /\ expiration = [l \in Lookup |-> 0]
    /\ until = [l \in Lookup |-> Never]
    /\ result = [l \in Lookup |-> None]

Finish(l, res) ==
    /\ at' = [at EXCEPT ![l] = "done"]
    /\ result' = [result EXCEPT ![l] = res]

(* resolve() begins: _Resolution and its first next_request.  The name the *)
(* proxy asks for has no search list, so there is one request.             *)
Request(l) ==
    /\ at[l] = "idle"
    /\ at' = [at EXCEPT ![l] = "next"]
    /\ start' = [start EXCEPT ![l] = clock]
    /\ listed' = [listed EXCEPT ![l] = nameservers]
    /\ current' = [current EXCEPT ![l] = nameservers]
    /\ backoff' = [backoff EXCEPT ![l] = Backoff]
    /\ UNCHANGED <<nameservers, clock, stalls, server, tcp, tcpNext, expiration, until, result>>

(* next_nameserver, retry_with_tcp set: the same nameserver again.         *)
RetryWithTcp(l) ==
    /\ at[l] = "next" /\ tcpNext[l]
    /\ tcp' = [tcp EXCEPT ![l] = TRUE]
    /\ tcpNext' = [tcpNext EXCEPT ![l] = FALSE]
    /\ at' = [at EXCEPT ![l] = "start"]
    /\ UNCHANGED <<nameservers, clock, stalls, start, listed, current, server, backoff, expiration, until, result>>

(* The next nameserver of this round.                                      *)
TakeNext(l) ==
    /\ at[l] = "next" /\ ~tcpNext[l] /\ current[l] # <<>>
    /\ server' = [server EXCEPT ![l] = Head(current[l])]
    /\ current' = [current EXCEPT ![l] = Tail(@)]
    /\ tcp' = [tcp EXCEPT ![l] = FALSE]
    /\ at' = [at EXCEPT ![l] = "start"]
    /\ UNCHANGED <<nameservers, clock, stalls, start, listed, tcpNext, backoff, expiration, until, result>>

(* Mutant of NextRound: every nameserver is in the round again.            *)
ForgetsMixMutant(l) ==
    /\ at[l] = "next" /\ ~tcpNext[l] /\ current[l] = <<>> /\ listed[l] # <<>>
    /\ server' = [server EXCEPT ![l] = Head(nameservers)]
    /\ current' = [current EXCEPT ![l] = Tail(nameservers)]
    /\ tcp' = [tcp EXCEPT ![l] = FALSE]
    /\ until' = [until EXCEPT ![l] = clock + backoff[l]]
    /\ backoff' = [backoff EXCEPT ![l] = Min2(2 * @, MaxBackoff)]
    /\ at' = [at EXCEPT ![l] = "sleep"]
    /\ UNCHANGED <<nameservers, clock, stalls, start, listed, tcpNext, expiration, result>>

(* A new round, after a sleep that doubles every time.                     *)
NextRound(l) ==
    /\ at[l] = "next" /\ ~tcpNext[l] /\ current[l] = <<>> /\ listed[l] # <<>>
    /\ server' = [server EXCEPT ![l] = Head(listed[l])]
    /\ current' = [current EXCEPT ![l] = Tail(listed[l])]
    /\ tcp' = [tcp EXCEPT ![l] = FALSE]
    /\ until' = [until EXCEPT ![l] = clock + backoff[l]]
    /\ backoff' = [backoff EXCEPT ![l] = Min2(2 * @, MaxBackoff)]
    /\ at' = [at EXCEPT ![l] = "sleep"]
    /\ UNCHANGED <<nameservers, clock, stalls, start, listed, tcpNext, expiration, result>>

OutOfNameservers(l) ==
    /\ at[l] = "next" /\ ~tcpNext[l] /\ current[l] = <<>> /\ listed[l] = <<>>
    /\ Finish(l, "NoNameservers")
    /\ UNCHANGED <<nameservers, clock, stalls, start, listed, current, server, tcp, tcpNext, backoff, expiration, until>>

WakeUp(l) ==
    /\ at[l] = "sleep" /\ clock >= until[l]
    /\ at' = [at EXCEPT ![l] = "start"]
    /\ until' = [until EXCEPT ![l] = Never]
    /\ UNCHANGED <<nameservers, clock, stalls, start, listed, current, server, tcp, tcpNext, backoff, expiration, result>>

(* _compute_timeout: the lifetime counts from the start of the lookup.     *)
LifetimeOver(l) ==
    /\ at[l] = "start" /\ clock - start[l] >= Lifetime
    /\ Finish(l, "LifetimeTimeout")
    /\ UNCHANGED <<nameservers, clock, stalls, start, listed, current, server, tcp, tcpNext, backoff, expiration, until>>

(* The exchange with a nameserver that is an address begins: udp() makes   *)
(* its socket, tcp() connects, within the timeout.                         *)
Ask(l) ==
    LET limit == clock + Min2(Lifetime - (clock - start[l]), Timeout)
    IN  /\ at[l] = "start" /\ clock - start[l] < Lifetime
        /\ Family[server[l]] # "url"
        /\ expiration' = [expiration EXCEPT ![l] = limit]
        /\ at' = [at EXCEPT ![l] = IF tcp[l] THEN "connect" ELSE "socket"]
        /\ until' = [until EXCEPT ![l] = IF tcp[l] THEN limit ELSE Never]
        /\ UNCHANGED <<nameservers, clock, stalls, start, listed, current, server, tcp, tcpNext, backoff, result>>

(* _timeout(expiration) and _maybe_wait_for.  What is left of the time is  *)
(* never less than 0, and a timeout of 0 is taken for none.                *)
Deadline(l) == IF expiration[l] > clock THEN expiration[l] ELSE Never

(* query_result(None, ex) or query_result(response, None): the exchange is *)
(* over, its socket closed.                                                *)
QueryResult(l, verdict) ==
    /\ until' = [until EXCEPT ![l] = Never]
    /\ IF verdict \in Result
       THEN Finish(l, verdict)
       ELSE at' = [at EXCEPT ![l] = "next"] /\ UNCHANGED result
    /\ listed' = [listed EXCEPT ![l] = IF verdict = "unusable" THEN RemoveFirst(@, server[l]) ELSE @]
    /\ tcpNext' = [tcpNext EXCEPT ![l] = verdict = "Truncated"]
    /\ UNCHANGED <<nameservers, clock, stalls, start, current, server, tcp, backoff, expiration>>

(* https() without httpx raises NoDOH, which keeps the nameserver.         *)
NoHttps(l) ==
    /\ at[l] = "start" /\ clock - start[l] < Lifetime
    /\ Family[server[l]] = "url"
    /\ QueryResult(l, "useless")

(* sendto never blocks, and an error it reports finds nobody waiting: it   *)
(* is as if the datagram were lost.                                        *)
SendUdp(l) ==
    /\ at[l] = "socket"
    /\ at' = [at EXCEPT ![l] = "udp"]
    /\ until' = [until EXCEPT ![l] = Deadline(l)]
    /\ UNCHANGED <<nameservers, clock, stalls, start, listed, current, server, tcp, tcpNext, backoff, expiration, result>>

(* The source address is gone, or the connection is refused or reset, or   *)
(* ends early: OSError and EOFError.                                       *)
Broken(l) ==
    /\ at[l] \in {"socket", "udp", "connect", "length", "body"}
    /\ QueryResult(l, "unusable")

(* What arrives while the loop runs freely arrives before the timeout; a   *)
(* loop held up finds both.                                                *)
InTime(l) == until[l] = Never \/ clock < until[l] \/ stalls > 0

ReceiveUdp(l) ==
    /\ at[l] = "udp" /\ InTime(l)
    /\ \E r \in Replies : QueryResult(l, Verdict(r, FALSE))

(* Mutant of Stream: the reads have no timeout.                            *)
NoReadTimeoutMutant(l, from, to) ==
    /\ at[l] = from /\ InTime(l)
    /\ at' = [at EXCEPT ![l] = to]
    /\ until' = [until EXCEPT ![l] = Never]
    /\ UNCHANGED <<nameservers, clock, stalls, start, listed, current, server, tcp, tcpNext, backoff, expiration, result>>

(* tcp(): connected, the query sent; then two bytes of length, and as many *)
(* bytes as they say, each read with what is left of the time.  The query  *)
(* is small: drain() returns at once.                                      *)
Stream(l, from, to) ==
    /\ at[l] = from /\ InTime(l)
    /\ at' = [at EXCEPT ![l] = to]
    /\ until' = [until EXCEPT ![l] = Deadline(l)]
    /\ UNCHANGED <<nameservers, clock, stalls, start, listed, current, server, tcp, tcpNext, backoff, expiration, result>>

Connected(l) == Stream(l, "connect", "length")
LengthRead(l) == Stream(l, "length", "body")
PartRead(l) == Stream(l, "length", "length") \/ Stream(l, "body", "body")

ReceiveTcp(l) ==
    /\ at[l] = "body" /\ InTime(l)
    /\ \E r \in Replies : QueryResult(l, Verdict(r, TRUE))

(* dns.exception.Timeout.                                                  *)
TimedOut(l) ==
    /\ at[l] \in Waiting \ {"sleep"}
    /\ until[l] # Never /\ clock >= until[l]
    /\ QueryResult(l, "useless")

-----------------------------------------------------------------------------

(* What the code does by itself, and what the network may do.              *)
LookupRuns(l) ==
    \/ RetryWithTcp(l) \/ TakeNext(l) \/ NextRound(l) \/ OutOfNameservers(l)
    \/ WakeUp(l) \/ LifetimeOver(l) \/ Ask(l) \/ NoHttps(l) \/ SendUdp(l) \/ TimedOut(l)

NetworkActs(l) ==
    Broken(l) \/ ReceiveUdp(l) \/ Connected(l) \/ LengthRead(l) \/ PartRead(l) \/ ReceiveTcp(l)

(* A lookup lets time pass while it waits and its timeout is not due.      *)
Patient(l) ==
    \/ at[l] \in {"idle", "done"}
    \/ at[l] \in Waiting /\ (until[l] = Never \/ clock < until[l])

Tick ==
    /\ clock < MaxClock
    /\ \A l \in Lookup : Patient(l)
    /\ clock' = clock + 1
    /\ UNCHANGED <<nameservers, stalls, lookupvars>>

(* Held up while everybody waits and nothing is due, the loop misses       *)
(* nothing: that is a Tick.                                                *)
Stall ==
    /\ clock < MaxClock /\ stalls < MaxStalls
    /\ \E l \in Lookup : ~Patient(l)
    /\ clock' = clock + 1
    /\ stalls' = stalls + 1
    /\ UNCHANGED <<nameservers, lookupvars>>

=============================================================================
