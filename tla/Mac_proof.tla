------------------------------ MODULE Mac_proof ------------------------------
(***************************************************************************)
(* Proofs about the Mac's programs: what the last stop leaves in the       *)
(* settings, for any setups and any number of commands, reboots and        *)
(* monitors (Mac); and what the client gets of an answer, for any number   *)
(* of connections, any amounts and any buffer (Helper).                    *)
(***************************************************************************)
EXTENDS Mac, Helper, TLAPS

StartSteps ==
    {"start", "socks", "http", "https", "backup", "dns", "setdns", "undo", "monitor", "active"}

(* The variables the proofs are about keep their types.                    *)
MacTypes ==
    /\ setup \in Setup
    /\ script \in {None} \cup StartSteps \cup StopSteps
    /\ proxies \in [Proxy -> {"off", "own", "camofox"}]
    /\ found \in {"auto", "own", "local", "fallback"} /\ dns \in {"auto", "own", "local", "fallback"}
    /\ dnsBackup \in {None, found}
    /\ spent \in BOOLEAN /\ torn \in BOOLEAN

Off(some) == \A p \in some : proxies[p] = "off"

(* What a stop has turned off before each of its steps, unless it is torn. *)
DisabledSoFar ==
    ~torn =>
        /\ script = "offhttp" => Off({"socks"})
        /\ script = "offhttps" => Off({"socks", "http"})
        /\ script = "offauto" => Off({"socks", "http", "https"})
        /\ script \in {"helper", "restore", "files"} => Off(Proxy)
        /\ script = None /\ last = "stopped" => Off(Proxy)

ProxyInv == MacTypes /\ DisabledSoFar

(* While a start may have changed the DNS servers the backup of what it    *)
(* found is there; and without that, they are what the last start found.   *)
PutBack == script = "files" \/ (script = None /\ last \in {"stopped", "undone"})

BackupHolds ==
    /\ script \in {"dns", "setdns", "undo", "monitor", "active"} => dnsBackup = found /\ ~spent
    /\ ~spent => dnsBackup = found \/ dns = found
    /\ ~spent /\ PutBack => dns = found

DnsInv == MacTypes /\ BackupHolds

-----------------------------------------------------------------------------

(* A monitor writes its own files and nothing else.                        *)
LEMMA MonitorsReport ==
    ASSUME NEW m \in monitors, MonitorRuns(m.pid)
    PROVE  UNCHANGED <<setup, settings, dnsBackup, active, script, last, found, spent, torn>>
BY Zenon DEF MonitorRuns, Probe, Engage, counts, settings, helpers

LEMMA TypesHold == MacInit => MacTypes
<1> SUFFICES ASSUME MacInit PROVE MacTypes
  OBVIOUS
<1>1. setup.proxy \in {"off", "own"} /\ setup.dns \in {"auto", "own"}
  BY MacAssumption DEF MacInit
<1> QED
  BY <1>1 DEF MacInit, MacTypes, None, StartSteps, StopSteps, Disables

LEMMA TypesKept == MacTypes /\ [MacNext]_macvars => MacTypes'
<1> SUFFICES ASSUME MacTypes, [MacNext]_macvars PROVE MacTypes'
  OBVIOUS
<1> USE DEF MacTypes, None, Onward, Exit, settings, helpers, reports, counts, StartSteps, StopSteps, Disables
<1>1. ASSUME Give("start") \/ Give("stop") PROVE MacTypes'
  BY <1>1 DEF Give
<1>2. CASE Discover
  BY <1>2 DEF Discover
<1>3. CASE EnableProxy
  BY <1>3 DEF EnableProxy, AfterProxy, Proxy
<1>4. CASE BackupDns
  BY <1>4 DEF BackupDns
<1>5. CASE StartDoh \/ FallbackDns \/ StartForwarder \/ LeaveDns \/ SetDns
  BY <1>5 DEF StartDoh, FallbackDns, StartForwarder, LeaveDns, SetDns
<1>6. CASE UndoDns \/ StopRestores
  BY <1>6 DEF UndoDns, StopRestores, RestoreDns
<1>7. CASE StartMonitor \/ WriteActive \/ StopMonitor \/ StopHelpers \/ RemoveFiles
  BY <1>7 DEF StartMonitor, WriteActive, StopMonitor, StopHelpers, RemoveFiles
<1>8. CASE DisableProxy
  <2>1. script \in {"offsocks", "offhttp", "offhttps", "offauto"}
    BY <1>8 DEF DisableProxy
  <2>2. Disables[script] \in Proxy /\ AfterOff[script] \in {"offhttp", "offhttps", "offauto", "helper"}
    BY <2>1 DEF AfterOff, Proxy
  <2> QED
    BY <1>8, <2>1, <2>2 DEF DisableProxy
<1>9. CASE \E m \in monitors : MonitorRuns(m.pid)
  BY <1>9, MonitorsReport
<1>10. CASE PhoneToggles
  BY <1>10 DEF PhoneToggles
<1>11. CASE CtrlC
  BY <1>11 DEF CtrlC, Cut
<1>12. CASE Reboot
  BY <1>12 DEF Reboot, Cut
<1>13. CASE UNCHANGED macvars
  BY <1>13 DEF macvars
<1> QED
  BY <1>1, <1>2, <1>3, <1>4, <1>5, <1>6, <1>7, <1>8, <1>9, <1>10, <1>11, <1>12, <1>13 DEF MacNext, ScriptRuns

-----------------------------------------------------------------------------

LEMMA DisabledKept == ProxyInv /\ [MacNext]_macvars => DisabledSoFar'
<1> SUFFICES ASSUME ProxyInv, [MacNext]_macvars PROVE DisabledSoFar'
  OBVIOUS
<1> USE DEF ProxyInv, MacTypes, DisabledSoFar, Off, None, Onward, Exit, settings, helpers, reports, counts
<1>1. CASE Give("start") \/ Give("stop")
  BY <1>1 DEF Give
<1>2. CASE Discover
  BY <1>2 DEF Discover
<1>3. CASE EnableProxy
  BY <1>3 DEF EnableProxy, AfterProxy
<1>4. CASE BackupDns
  BY <1>4 DEF BackupDns
<1>5. CASE StartDoh \/ FallbackDns \/ StartForwarder \/ LeaveDns \/ SetDns
  BY <1>5 DEF StartDoh, FallbackDns, StartForwarder, LeaveDns, SetDns
<1>6. CASE UndoDns \/ StopRestores
  BY <1>6 DEF UndoDns, StopRestores
<1>7. CASE StartMonitor \/ WriteActive \/ StopMonitor \/ StopHelpers \/ RemoveFiles
  BY <1>7 DEF StartMonitor, WriteActive, StopMonitor, StopHelpers, RemoveFiles
<1>8. CASE DisableProxy
  BY <1>8 DEF DisableProxy, AfterOff, Disables, Proxy
<1>9. CASE \E m \in monitors : MonitorRuns(m.pid)
  BY <1>9, MonitorsReport
<1>10. CASE PhoneToggles
  BY <1>10 DEF PhoneToggles
<1>11. CASE CtrlC
  BY <1>11 DEF CtrlC, Cut
<1>12. CASE Reboot
  BY <1>12 DEF Reboot, Cut
<1>13. CASE UNCHANGED macvars
  BY <1>13 DEF macvars
<1> QED
  BY <1>1, <1>2, <1>3, <1>4, <1>5, <1>6, <1>7, <1>8, <1>9, <1>10, <1>11, <1>12, <1>13 DEF MacNext, ScriptRuns

(* A stop that ended has turned every proxy off (restore_proxy_settings),  *)
(* whatever came before it.                                                *)
THEOREM NoProxyStays == MacSpec => []NoProxyLeft
<1>1. MacInit => ProxyInv
  BY TypesHold DEF ProxyInv, DisabledSoFar, MacInit, None
<1>2. ProxyInv /\ [MacNext]_macvars => ProxyInv'
  BY TypesKept, DisabledKept DEF ProxyInv
<1>3. ProxyInv => NoProxyLeft
  BY DEF ProxyInv, DisabledSoFar, Off, NoProxyLeft
<1> QED
  BY <1>1, <1>2, <1>3, PTL DEF MacSpec

-----------------------------------------------------------------------------

LEMMA BackupKept == DnsInv /\ [MacNext]_macvars => BackupHolds'
<1> SUFFICES ASSUME DnsInv, [MacNext]_macvars PROVE BackupHolds'
  OBVIOUS
<1>0. found # None /\ dns # None
  BY DEF DnsInv, MacTypes, None
<1> USE <1>0 DEF DnsInv, MacTypes, BackupHolds, PutBack, Onward, Exit, settings, helpers, reports, counts
<1>1. CASE Give("start") \/ Give("stop")
  BY <1>1 DEF Give, None
<1>2. CASE Discover
  BY <1>2 DEF Discover, None
<1>3. CASE EnableProxy
  BY <1>3 DEF EnableProxy, AfterProxy, None
<1>4. CASE BackupDns
  BY <1>4 DEF BackupDns, None
<1>5. CASE StartDoh \/ FallbackDns \/ StartForwarder \/ LeaveDns \/ SetDns
  BY <1>5 DEF StartDoh, FallbackDns, StartForwarder, LeaveDns, SetDns, None
<1>6. CASE UndoDns
  BY <1>6 DEF UndoDns, RestoreDns, None
<1>7. CASE StopRestores
  BY <1>7 DEF StopRestores, RestoreDns, None
<1>8. CASE StartMonitor \/ WriteActive \/ StopMonitor \/ StopHelpers \/ RemoveFiles
  BY <1>8 DEF StartMonitor, WriteActive, StopMonitor, StopHelpers, RemoveFiles, None
<1>9. CASE DisableProxy
  BY <1>9 DEF DisableProxy, AfterOff, Disables, None
<1>10. CASE \E m \in monitors : MonitorRuns(m.pid)
  BY <1>10, MonitorsReport
<1>11. CASE PhoneToggles
  BY <1>11 DEF PhoneToggles
<1>12. CASE CtrlC
  BY <1>12 DEF CtrlC, Cut, None
<1>13. CASE Reboot
  BY <1>13 DEF Reboot, Cut, None
<1>14. CASE UNCHANGED macvars
  BY <1>14 DEF macvars
<1> QED
  BY <1>1, <1>2, <1>3, <1>4, <1>5, <1>6, <1>7, <1>8, <1>9, <1>10, <1>11, <1>12, <1>13, <1>14
     DEF MacNext, ScriptRuns

(* A stop, and a start that fails, put back what the last start found      *)
(* (backup_dns, restore_dns), whatever came between, a second start too.   *)
THEOREM DnsComesBack == MacSpec => []PutsBackFound
<1>1. MacInit => DnsInv
  BY TypesHold DEF DnsInv, BackupHolds, PutBack, MacInit, None
<1>2. DnsInv /\ [MacNext]_macvars => DnsInv'
  BY TypesKept, BackupKept DEF DnsInv
<1>3. DnsInv => PutsBackFound
  BY DEF DnsInv, BackupHolds, PutBack, PutsBackFound, None
<1> QED
  BY <1>1, <1>2, <1>3, PTL DEF MacSpec

-----------------------------------------------------------------------------
(* The helper.                                                             *)

Early == {"none", "queued", "found", "connecting", "greeting", "asked", "address"}

(* The variables of Helper keep their types.                               *)
HelperTypes ==
    /\ phase \in [Connections -> Early \cup {"piping", "done"}]
    /\ pipe \in [Connections -> [Directions -> {"none", "read", "drain", "closed"}]]
    /\ socket \in [Connections -> [Sockets -> {"none", "open", "closing", "lost"}]]
    /\ given \in [Connections -> [Directions -> Nat]]
    /\ read \in [Connections -> [Directions -> Nat]]
    /\ buffer \in [Connections -> [Directions -> Nat]]
    /\ received \in [Connections -> [Directions -> Nat]]
    /\ finished \in [Connections -> SUBSET Sockets]
    /\ broken \in [Connections -> SUBSET Sockets]

(* Nothing has happened to the data of a connection before its pipes run,  *)
(* and its client is there.                                                *)
Fresh(c) ==
    phase[c] \in Early =>
        /\ finished[c] = {} /\ broken[c] = {}
        /\ given[c]["in"] = 0 /\ read[c]["in"] = 0 /\ buffer[c]["in"] = 0 /\ received[c]["in"] = 0
        /\ pipe[c]["in"] = "none"
        /\ phase[c] # "none" => socket[c]["client"] = "open"

(* What is read of the answer is received or buffered; the client is there *)
(* as long as its pipe runs, and when that ends no more is sent.           *)
Answered(c) ==
    /\ phase[c] = "piping" => pipe[c]["in"] # "none"
    /\ phase[c] = "done" => pipe[c]["in"] = "closed" \/ finished[c] = {}
    /\ broken[c] = {} =>
        /\ received[c]["in"] + buffer[c]["in"] = read[c]["in"]
        /\ pipe[c]["in"] \in {"read", "drain"} => socket[c]["client"] = "open"
        /\ pipe[c]["in"] = "closed" =>
               /\ read[c]["in"] = given[c]["in"]
               /\ "proxy" \in finished[c] \/ socket[c]["proxy"] # "open"
        /\ socket[c]["client"] = "lost" => buffer[c]["in"] = 0

HelperInv == HelperTypes /\ \A c \in Connections : Fresh(c) /\ Answered(c)

-----------------------------------------------------------------------------

LEMMA HelperStarts == HelperInit => HelperInv
BY DEF HelperInit, HelperInv, HelperTypes, Fresh, Answered, Early, Directions, Sockets

Socketed == [Connections -> [Sockets -> {"none", "open", "closing", "lost"}]]

LEMMA HandlerKeeps ==
    ASSUME HelperInv, NEW c \in Connections,
           Accept(c) \/ Handle(c) \/ NoDestination(c) \/ Destination(c) \/ BothEnded(c)
    PROVE  HelperInv'
<1> USE DEF HelperInv, HelperTypes, Fresh, Answered, Enters, flow
<1>1. CASE Accept(c)
  BY <1>1 DEF Accept, Early, Sockets
<1>2. CASE Handle(c)
  BY <1>2 DEF Handle, Early
<1>3. CASE NoDestination(c)
  <2>1. socket' \in Socketed /\ \A b \in Connections : b # c => socket'[b] = socket[b]
    BY <1>3 DEF NoDestination, Closed, Socketed, Sockets
  <2>2. pipe[c]["in"] = "none" /\ socket'[c]["client"] = "closing"
    BY <1>3 DEF NoDestination, Closed, Early, Sockets
  <2> QED
    BY <1>3, <2>1, <2>2 DEF NoDestination, Leaves, Early, Socketed
<1>4. CASE Destination(c)
  BY <1>4 DEF Destination, Early
<1>5. CASE BothEnded(c)
  <2>1. socket' \in Socketed /\ \A b \in Connections : b # c => socket'[b] = socket[b]
    BY <1>5 DEF BothEnded, Closed, Socketed, Sockets
  <2>2. /\ pipe[c]["in"] = "closed"
        /\ socket'[c]["client"] = "lost" => socket[c]["client"] = "lost"
        /\ socket'[c]["proxy"] = socket[c]["proxy"]
    BY <1>5 DEF BothEnded, Closed, Sockets, Directions
  <2> QED
    BY <1>5, <2>1, <2>2 DEF BothEnded, Leaves, Early, Socketed
<1> QED
  BY <1>1, <1>2, <1>3, <1>4, <1>5

LEMMA Socks5Keeps ==
    ASSUME HelperInv, NEW c \in Connections, Proceeds(c) \/ Refused(c) \/ NoAnswer(c)
    PROVE  HelperInv'
<1> USE DEF HelperInv, HelperTypes, Fresh, Answered, Enters, flow
<1>1. CASE Proceeds(c)
  <2>1. /\ socket' \in Socketed
        /\ pipe' \in [Connections -> [Directions -> {"none", "read", "drain", "closed"}]]
    <3>1. CASE phase[c] = "connecting"
      BY <1>1, <3>1 DEF Proceeds, Socketed, Sockets, Directions
    <3>2. CASE phase[c] = "address"
      <4>1. /\ socket' = socket /\ pipe' = [pipe EXCEPT ![c] = [d \in Directions |-> "read"]]
        BY <1>1, <3>2 DEF Proceeds
      <4> QED
        BY <4>1 DEF Socketed
    <3>3. CASE phase[c] \notin {"connecting", "address"}
      BY <1>1, <3>3 DEF Proceeds, Socketed, Sockets, Directions
    <3> QED
      BY <3>1, <3>2, <3>3
  <2>2. \A b \in Connections : b # c => socket'[b] = socket[b] /\ pipe'[b] = pipe[b] /\ phase'[b] = phase[b]
    BY <1>1 DEF Proceeds
  <2>3. /\ socket'[c]["client"] = "open" /\ phase'[c] = Following(phase[c])
        /\ pipe'[c]["in"] = IF phase[c] = "address" THEN "read" ELSE "none"
    BY <1>1 DEF Proceeds, Early, Sockets, Directions
  <2>4. phase' \in [Connections -> Early \cup {"piping", "done"}]
    BY <1>1 DEF Proceeds, Following, Early
  <2>5. HelperTypes'
    BY <1>1, <2>1, <2>4 DEF Proceeds, Socketed
  <2>6. ASSUME NEW b \in Connections, b # c PROVE Fresh(b)' /\ Answered(b)'
    BY <1>1, <2>2, <2>6 DEF Proceeds
  <2>7. phase[c] \in Early /\ Fresh(c) /\ phase'[c] \in Early \cup {"piping"} /\ phase'[c] # "none"
    BY <1>1, <2>3 DEF Proceeds, Following, Early
  <2>8. phase'[c] = "piping" <=> phase[c] = "address"
    BY <1>1, <2>3 DEF Proceeds, Following
  <2>9. Fresh(c)'
    BY <1>1, <2>3, <2>7, <2>8 DEF Proceeds, Early
  <2>10. Answered(c)'
    BY <1>1, <2>3, <2>7, <2>8 DEF Proceeds, Early
  <2> QED
    BY <2>5, <2>6, <2>9, <2>10
<1>2. CASE Refused(c)
  <2>1. socket' \in Socketed /\ (\A b \in Connections : b # c => socket'[b] = socket[b])
    BY <1>2 DEF Refused, Closed, Socketed, Sockets
  <2>2. socket'[c]["client"] = "closing"
    BY <1>2 DEF Refused, Closed, Early, Sockets
  <2> QED
    BY <1>2, <2>1, <2>2 DEF Refused, Leaves, Early, Socketed
<1>3. CASE NoAnswer(c)
  <2>1. socket' \in Socketed /\ (\A b \in Connections : b # c => socket'[b] = socket[b])
    BY <1>3 DEF NoAnswer, Closed, Socketed, Sockets
  <2>2. socket'[c]["client"] = "closing"
    BY <1>3 DEF NoAnswer, Closed, Early, Sockets
  <2>3. Fresh(c) /\ phase[c] \in Early /\ phase[c] # "none" /\ phase'[c] = "done"
    BY <1>3 DEF NoAnswer, Leaves, Early
  <2>4. HelperTypes'
    BY <1>3, <2>1 DEF NoAnswer, Leaves, Socketed
  <2>5. ASSUME NEW b \in Connections, b # c PROVE Fresh(b)' /\ Answered(b)'
    BY <1>3, <2>1, <2>5 DEF NoAnswer, Leaves
  <2>6. Fresh(c)' /\ Answered(c)'
    BY <1>3, <2>2, <2>3 DEF NoAnswer, Leaves, Early
  <2> QED
    BY <2>4, <2>5, <2>6
<1> QED
  BY <1>1, <1>2, <1>3

LEMMA PipeKeeps ==
    ASSUME HelperInv, NEW c \in Connections, NEW d \in Directions,
           PipeReads(c, d) \/ PipeDrains(c, d) \/ PipeEnds(c, d)
    PROVE  HelperInv'
<1> USE DEF HelperInv, HelperTypes, Fresh, Answered, PipeGoes, From, To, Directions, Sockets
<1>1. CASE PipeReads(c, d)
  BY <1>1 DEF PipeReads, Waiting
<1>2. CASE PipeDrains(c, d)
  BY <1>2 DEF PipeDrains, flow
<1>3. CASE PipeEnds(c, d)
  <2>1. socket' \in Socketed /\ (\A b \in Connections : b # c => socket'[b] = socket[b])
    <3>1. CASE socket[c][To(d)] = "open"
      <4>1. socket' = [socket EXCEPT ![c][To(d)] = "closing"]
        BY <1>3, <3>1 DEF PipeEnds, Closed
      <4> QED
        BY <4>1 DEF Socketed
    <3>2. CASE socket[c][To(d)] # "open"
      BY <1>3, <3>2 DEF PipeEnds, Closed, Socketed
    <3> QED
      BY <3>1, <3>2
  <2>2. /\ socket'[c]["client"] = "lost" => socket[c]["client"] = "lost"
        /\ socket'[c]["proxy"] = "open" => socket[c]["proxy"] = "open"
        /\ d = "out" => socket'[c]["client"] = socket[c]["client"]
    BY <1>3 DEF PipeEnds, Closed
  <2>3. \A b \in Connections, x \in Directions :
            pipe'[b][x] = IF b = c /\ x = d THEN "closed" ELSE pipe[b][x]
    BY <1>3 DEF PipeEnds
  <2>4. d = "in" /\ broken[c] = {} =>
            read[c]["in"] = given[c]["in"] /\ ("proxy" \in finished[c] \/ socket[c]["proxy"] # "open")
    <3> SUFFICES ASSUME d = "in", broken[c] = {}
                 PROVE  read[c]["in"] = given[c]["in"] /\ ("proxy" \in finished[c] \/ socket[c]["proxy"] # "open")
      OBVIOUS
    <3>1. From(d) = "proxy" /\ To(d) = "client"
      OBVIOUS
    <3>2. pipe[c]["in"] # "drain" \/ socket[c]["client"] # "lost"
      OBVIOUS
    <3>3. NoMore(c, "in") /\ pipe[c]["in"] = "read"
      <4>1. /\ broken[c] = {} /\ d = "in" /\ To(d) = "client"
        BY <3>1
      <4> QED
        BY <1>3, <3>2, <4>1 DEF PipeEnds
    <3>4. given[c]["in"] \in Nat /\ read[c]["in"] \in Nat
      OBVIOUS
    <3>5. Waiting(c, "in") = 0 /\ ("proxy" \in finished[c] \/ socket[c]["proxy"] = "lost")
      BY <3>1, <3>3 DEF NoMore
    <3>6. given[c]["in"] - read[c]["in"] = 0
      BY <3>5 DEF Waiting
    <3>7. read[c]["in"] = given[c]["in"]
      BY ONLY <3>4, <3>6
    <3> QED
      BY <3>5, <3>7
  <2>5. pipe' \in [Connections -> [Directions -> {"none", "read", "drain", "closed"}]]
    BY <1>3 DEF PipeEnds
  <2>6. HelperTypes'
    BY <1>3, <2>1, <2>5 DEF PipeEnds, Socketed, flow
  <2>7. ASSUME NEW b \in Connections, b # c PROVE Fresh(b)' /\ Answered(b)'
    BY <1>3, <2>1, <2>3, <2>7 DEF PipeEnds, flow
  <2>8. Fresh(c) /\ Answered(c) /\ pipe[c][d] \in {"read", "drain"} /\ phase' = phase
    BY <1>3 DEF PipeEnds
  <2>9. Fresh(c)' /\ Answered(c)'
    <3>1. CASE d = "in"
      <4>1. pipe'[c]["in"] = "closed"
        BY <2>3, <3>1
      <4>2. phase'[c] \notin Early /\ phase[c] \notin Early
        BY <2>8, <3>1
      <4> QED
        BY <1>3, <2>2, <2>4, <2>8, <3>1, <4>1, <4>2 DEF PipeEnds, flow
    <3>2. CASE d = "out"
      <4>1. pipe'[c]["in"] = pipe[c]["in"]
        BY <2>3, <3>2
      <4> QED
        BY <1>3, <2>2, <2>8, <3>2, <4>1 DEF PipeEnds, flow
    <3> QED
      BY <3>1, <3>2
  <2> QED
    BY <2>6, <2>7, <2>9
<1> QED
  BY <1>1, <1>2, <1>3

LEMMA PeersKeep ==
    ASSUME HelperInv, NEW c \in Connections, NEW d \in Directions, NEW s \in Sockets,
           PeerSends(c, d) \/ PeerEnds(c, s) \/ PeerReceives(c, d) \/ Resets(c, s) \/ Flushed(c, d)
    PROVE  HelperInv'
<1> USE DEF HelperInv, HelperTypes, Fresh, Answered, From, To, Directions, Sockets
<1>1. CASE PeerSends(c, d)
  BY <1>1 DEF PeerSends, Early
<1>2. CASE PeerEnds(c, s)
  BY <1>2 DEF PeerEnds, Early
<1>3. CASE PeerReceives(c, d)
  <2>1. /\ buffer[c][d] \in Nat /\ received[c][d] \in Nat
        /\ buffer' = [buffer EXCEPT ![c][d] = @ - 1] /\ received' = [received EXCEPT ![c][d] = @ + 1]
        /\ buffer[c][d] > 0 /\ UNCHANGED <<phase, pipe, socket, given, read, finished, broken>>
    BY <1>3 DEF PeerReceives
  <2>2. buffer[c][d] - 1 \in Nat /\ received[c][d] + 1 \in Nat
    BY <2>1
  <2>3. HelperTypes'
    BY <2>1, <2>2
  <2>4. \A b \in Connections : b # c => buffer'[b] = buffer[b] /\ received'[b] = received[b]
    BY <2>1
  <2>5. /\ buffer'[c]["in"] + received'[c]["in"] = buffer[c]["in"] + received[c]["in"]
        /\ buffer[c]["in"] = 0 => buffer'[c]["in"] = 0 /\ received'[c]["in"] = received[c]["in"]
    <3>1. buffer[c]["in"] \in Nat /\ received[c]["in"] \in Nat
      OBVIOUS
    <3>2. CASE d = "in"
      <4>1. buffer'[c]["in"] = buffer[c]["in"] - 1 /\ received'[c]["in"] = received[c]["in"] + 1
        BY <2>1, <3>2
      <4> QED
        BY ONLY <2>1, <3>1, <3>2, <4>1
    <3>3. CASE d = "out"
      BY <2>1, <3>1, <3>3
    <3> QED
      BY <3>2, <3>3
  <2>6. ASSUME NEW b \in Connections PROVE Fresh(b)' /\ Answered(b)'
    BY <2>1, <2>3, <2>4, <2>5, <2>6
  <2> QED
    BY <2>3, <2>6
<1>4. CASE Resets(c, s)
  BY <1>4 DEF Resets, Early
<1>5. CASE Flushed(c, d)
  BY <1>5 DEF Flushed, flow
<1> QED
  BY <1>1, <1>2, <1>3, <1>4, <1>5

(* A pipe that ends closes only the writer it fed: the client has the      *)
(* whole answer when the proxy, and nobody else, has ended (handle_pipe).  *)
THEOREM AnswersComplete == HelperSpec => []AnswerComplete
<1>1. HelperInv /\ [HelperNext]_helperVars => HelperInv'
  <2> SUFFICES ASSUME HelperInv, [HelperNext]_helperVars PROVE HelperInv'
    OBVIOUS
  <2>1. CASE UNCHANGED helperVars
    BY <2>1 DEF helperVars, flow, HelperInv, HelperTypes, Fresh, Answered
  <2>2. CASE HelperNext
    <3>1. PICK c \in Connections :
             \/ Accept(c) \/ Code(c) \/ Outside(c)
             \/ \E d \in Directions : PeerSends(c, d)
             \/ \E s \in Sockets : PeerEnds(c, s) \/ Resets(c, s)
      BY <2>2 DEF HelperNext
    <3>2. "in" \in Directions /\ "client" \in Sockets
      BY DEF Directions, Sockets
    <3> QED
      BY <3>1, <3>2, HandlerKeeps, Socks5Keeps, PipeKeeps, PeersKeep DEF Code, Outside
  <2> QED
    BY <2>1, <2>2
<1>2. HelperInv => AnswerComplete
  <2> SUFFICES ASSUME HelperInv, NEW c \in Connections, phase[c] = "done",
                      socket[c].client = "lost", broken[c] = {}, finished[c] = {"proxy"}
               PROVE  received[c]["in"] = given[c]["in"]
    BY DEF AnswerComplete
  <2>1. Answered(c) /\ finished[c] # {} /\ socket[c]["client"] = "lost"
    BY DEF HelperInv
  <2>2. received[c]["in"] + buffer[c]["in"] = read[c]["in"] /\ read[c]["in"] = given[c]["in"]
    BY <2>1 DEF Answered
  <2>3. buffer[c]["in"] = 0
    BY <2>1 DEF Answered
  <2>4. received[c]["in"] \in Nat
    BY DEF HelperInv, HelperTypes, Directions
  <2> QED
    BY <2>2, <2>3, <2>4
<1> QED
  BY <1>1, <1>2, HelperStarts, PTL DEF HelperSpec

=============================================================================
