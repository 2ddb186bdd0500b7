------------------------------- MODULE Connect -------------------------------
(***************************************************************************)
(* AsyncProxyServer.tcp_connect of lib/proxy_server.py: how a request for  *)
(* a host becomes a connection, through the two lookups of Resolution and  *)
(* a race of connections, with the server bound to the addresses of one    *)
(* interface when connect_host_ipv4 or connect_host_ipv6 is given.         *)
(***************************************************************************)
EXTENDS Resolution, ProxyServer

CONSTANTS
    Configured,     \* the lists of nameservers a server may be given
    ConnectTimeout, \* CONNECT_TIMEOUT
    Delay           \* HAPPY_EYEBALLS_DELAY

ASSUME ConnectAssumption ==
    /\ Lookup = {"v4", "v6"}
    /\ Configured \subseteq Seq(Nameserver)
    /\ \A list \in Configured : IsInjective(list)
    /\ ConnectTimeout \in Nat \ {0} /\ Delay \in Nat

VARIABLES
    source,     \* the family of resolver_source, or None
    kind,       \* the address type asked for: a domain, or an address
    stage,      \* where tcp_connect is
    address,    \* the families an address is known of: resolved
    attempt,    \* ipv4_connect and ipv6_connect
    due,        \* when each attempt times out
    turn        \* when staggered_race starts the next attempt

connectvars == <<hosts, source, kind, stage, address, attempt, due, turn>>
tcpvars == <<resolutionvars, connectvars>>

(* __init__: the resolver asks from the connect_host of one family, v4 if  *)
(* it can, and only the nameservers of that family stay.  af_for_address   *)
(* has no family for a URL and raises, as __init__ does when no nameserver *)
(* suits: the server does not start.                                       *)
Source(list, hs) ==
    LET usable == {f \in hs : \E i \in DOMAIN list : Family[list[i]] = f}
    IN  IF hs = {} THEN None ELSE IF "v4" \in usable THEN "v4" ELSE "v6"

Starts(list, hs) ==
    hs # {} => /\ \A i \in DOMAIN list : Family[list[i]] # "url"
               /\ \E i \in DOMAIN list : Family[list[i]] \in hs

Suitable(list, src) ==
    IF src = None THEN list ELSE SelectSeq(list, LAMBDA n : Family[n] = src)

(* What is left of a list of different nameservers is one.                 *)
ASSUME SuitableAssumption ==
    \A list \in Configured, src \in Fam :
        Suitable(list, src) \in Seq(Nameserver) /\ IsInjective(Suitable(list, src))

ConnectInit ==
    /\ ResolutionInit
    /\ \E list \in Configured, hs \in SUBSET Fam :
          /\ Starts(list, hs)
          /\ hosts = hs
          /\ source = Source(list, hs)
          /\ nameservers = Suitable(list, Source(list, hs))
    /\ kind \in {"domain", "v4", "v6"}
    /\ stage = "begin"
    /\ address = {}
    /\ attempt = [f \in Fam |-> "idle"]
    /\ due = [f \in Fam |-> Never]
    /\ turn = Never

(* resolve_address for an address, and for a domain that is one.           *)
ResolveAddress ==
    /\ stage = "begin" /\ kind # "domain"
    /\ address' = {kind} \cap Usable
    /\ stage' = "resolved"
    /\ UNCHANGED <<resolutionvars, hosts, source, kind, attempt, due, turn>>

(* _resolve_domain gathers the lookups; for a family without a             *)
(* connect_host it has dummy_resolve, which raises at once.                *)
ResolveDomain ==
    /\ stage = "begin" /\ kind = "domain"
    /\ stage' = "resolving"
    /\ UNCHANGED <<resolutionvars, hosts, source, kind, address, attempt, due, turn>>

Gathered ==
    /\ stage = "resolving"
    /\ \A f \in Usable : at[f] = "done"
    /\ address' = {f \in Usable : result[f] = "answer"}
    /\ stage' = "resolved"
    /\ UNCHANGED <<resolutionvars, hosts, source, kind, attempt, due, turn>>

(* Both connects are bound to their connect_host and limited in time.      *)
Attempt(f) ==
    /\ attempt' = [attempt EXCEPT ![f] = "connecting"]
    /\ due' = [due EXCEPT ![f] = clock + ConnectTimeout]

Unresolved ==
    /\ stage = "resolved" /\ address = {}
    /\ stage' = "failed"
    /\ UNCHANGED <<resolutionvars, hosts, source, kind, address, attempt, due, turn>>

(* One address: its connect alone.  Two: staggered_race begins with IPv6.  *)
StartConnecting ==
    /\ stage = "resolved" /\ address # {}
    /\ stage' = "connecting"
    /\ Attempt(IF "v6" \in address THEN "v6" ELSE "v4")
    /\ turn' = IF address = Fam THEN clock + Delay ELSE Never
    /\ UNCHANGED <<resolutionvars, hosts, source, kind, address>>

(* After the delay, or when the first attempt fails, comes the second.     *)
SecondAttempt ==
    /\ stage = "connecting" /\ turn # Never
    /\ (clock >= turn \/ attempt["v6"] = "failed")
    /\ Attempt("v4")
    /\ turn' = Never
    /\ UNCHANGED <<resolutionvars, hosts, source, kind, stage, address>>

(* Mutant of ConnectionMade: the other attempt goes on.                    *)
NoCancelMutant(f) ==
    /\ attempt[f] = "connecting" /\ clock < due[f]
    /\ attempt' = [attempt EXCEPT ![f] = "connected"]
    /\ stage' = "connected"
    /\ turn' = Never
    /\ UNCHANGED <<resolutionvars, hosts, source, kind, address, due>>

(* The first to connect wins; the race cancels the other.                  *)
ConnectionMade(f) ==
    /\ attempt[f] = "connecting" /\ clock < due[f]
    /\ attempt' = [g \in Fam |-> IF g = f THEN "connected"
                                 ELSE IF attempt[g] = "connecting" THEN "cancelled" ELSE attempt[g]]
    /\ stage' = "connected"
    /\ turn' = Never
    /\ UNCHANGED <<resolutionvars, hosts, source, kind, address, due>>

AttemptFails(f) ==
    /\ attempt' = [attempt EXCEPT ![f] = "failed"]
    /\ UNCHANGED <<resolutionvars, hosts, source, kind, stage, address, due, turn>>

ConnectionFails(f) == attempt[f] = "connecting" /\ AttemptFails(f)
ConnectTimedOut(f) == attempt[f] = "connecting" /\ clock >= due[f] /\ AttemptFails(f)

(* staggered_race without a winner, or the only connect: the error.        *)
AllFailed ==
    /\ stage = "connecting" /\ turn = Never
    /\ \A f \in address : attempt[f] = "failed"
    /\ stage' = "failed"
    /\ UNCHANGED <<resolutionvars, hosts, source, kind, address, attempt, due, turn>>

-----------------------------------------------------------------------------

(* The lookups run once the domain is resolved, those that are no dummies. *)
Resolving(l) == stage = "resolving" /\ l \in Usable /\ UNCHANGED connectvars

CodeActs ==
    \/ \E l \in Lookup : (Request(l) \/ LookupRuns(l)) /\ Resolving(l)
    \/ ResolveAddress \/ ResolveDomain \/ Gathered \/ Unresolved \/ StartConnecting
    \/ SecondAttempt \/ AllFailed \/ (\E f \in Fam : ConnectTimedOut(f))

(* Whatever can be done at once is done before time passes.                *)
Ready ==
    \/ stage \in {"begin", "resolved"}
    \/ stage = "resolving" /\ (\E f \in Usable : at[f] = "idle")
    \/ stage = "resolving" /\ (\A f \in Usable : at[f] = "done")
    \/ /\ stage = "connecting"
       /\ \/ turn # Never /\ (clock >= turn \/ attempt["v6"] = "failed")
          \/ turn = Never /\ (\A f \in address : attempt[f] = "failed")
          \/ \E f \in Fam : attempt[f] = "connecting" /\ clock >= due[f]

TimePasses == ((Tick /\ ~Ready) \/ Stall) /\ UNCHANGED connectvars

Done ==
    /\ (stage \in {"connected", "failed"} \/ clock = MaxClock)
    /\ UNCHANGED tcpvars

ConnectNext ==
    \/ CodeActs
    \/ \E l \in Lookup : NetworkActs(l) /\ Resolving(l)
    \/ \E f \in Fam : ConnectionMade(f) \/ ConnectionFails(f)
    \/ TimePasses
    \/ Done

ConnectSpec == ConnectInit /\ [][ConnectNext]_tcpvars

-----------------------------------------------------------------------------

(* A nameserver that is asked has not been taken out of the mix: the      *)
(* list.remove of query_result always finds it and never raises.           *)
RemovesListed ==
    \A l \in Lookup : at[l] \in Asking => \E i \in DOMAIN listed[l] : listed[l][i] = server[l]

(* The race leaves one connection or none: never two that are open, none   *)
(* when the request failed, and no attempt still under way when it is over.*)
OneConnection ==
    /\ Cardinality({f \in Fam : attempt[f] = "connected"}) = (IF stage = "connected" THEN 1 ELSE 0)
    /\ stage \in {"connected", "failed"} => \A f \in Fam : attempt[f] # "connecting"

=============================================================================
