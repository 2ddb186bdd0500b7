------------------------------ MODULE Netfilter ------------------------------
(***************************************************************************)
(* The part of the kernel's packet filter that CamoFox's firewall.rules    *)
(* script programs: an ordered list of rules per chain, the chains the     *)
(* script itself creates, and the meaning of one iptables command.         *)
(*                                                                         *)
(* Netfilter and iptables are not part of the repository; this module      *)
(* models what the script relies on.  One iptables command is atomic (the  *)
(* kernel swaps the whole table), a script of several commands is not.     *)
(* Rules of other programs (fw3) are left out: CamoFox never touches them. *)
(***************************************************************************)
EXTENDS Naturals, Sequences

CONSTANTS
    Lan,      \* names of LAN interfaces (option lan_iface)
    ProxyIP,  \* addresses the iPhone proxy may have (option proxy_ip)
    Ttl       \* TTL values (option ttl_value)

BuiltIn   == {"PREROUTING", "POSTROUTING", "INPUT", "FORWARD"}
UserChain == {"REDSOCKS", "CAMOFOX_KILLSW"}
Chain     == BuiltIn \cup UserChain

AnyIface == "any-iface"
Match    == {"any", "tcp", "private", "udp53", "tcp53", "established"}
                \cup ProxyIP \cup Ttl
Target   == {"none", "RETURN", "REDIRECT", "TTL", "ACCEPT", "DROP"} \cup UserChain

Rule == [in : Lan \cup {AnyIface}, match : Match, to : Target]

\* One command: -N, -F, -X, -A, -I .. 1, the `while iptables -D` loop, and the
\* idiom `-N chain || -F chain`.
Op  == {"N", "F", "X", "A", "I", "D*", "N|F"}

VARIABLES
    rules,   \* rules[c]: the rules of chain c, in order; empty when c is absent
    chains   \* the user chains that exist

nfvars == <<rules, chains>>

NetfilterTypeOK ==
    /\ rules \in [Chain -> Seq(Rule)]
    /\ chains \in SUBSET UserChain
    /\ \A c \in UserChain \ chains : rules[c] = <<>>

Exists(c)     == c \in BuiltIn \cup chains
Referenced(c) == \E d \in Chain : \E i \in 1..Len(rules[d]) : rules[d][i].to = c
\* A rule can be added to an existing chain when its target exists too.
CanAdd(c, r)  == Exists(c) /\ (r.to \in UserChain => r.to \in chains)
FirstAt(c, r, i) == rules[c][i] = r /\ \A j \in 1..(i - 1) : rules[c][j] # r
Holds(c, r)   == \E i \in 1..Len(rules[c]) : rules[c][i] = r

-----------------------------------------------------------------------------
(* One iteration of `while iptables -D chain rule; do :; done` that finds a  *)
(* rule: the first one equal to it goes.                                     *)
DeleteFirst(c, r) ==
    /\ \E i \in 1..Len(rules[c]) :
         /\ FirstAt(c, r, i)
         /\ rules' = [rules EXCEPT ![c] = SubSeq(@, 1, i - 1) \o SubSeq(@, i + 1, Len(@))]
    /\ UNCHANGED chains

(* Every other command, and the last iteration of the loop.                  *)
Flush(c)  == rules' = [rules EXCEPT ![c] = <<>>]
Create(c) == chains' = chains \cup {c}

CanDelete(c) == rules[c] = <<>> /\ ~Referenced(c)

(* A command that fails changes nothing, and the script goes on: it runs     *)
(* without `set -e`.                                                         *)
Fails(cmd) ==
    \/ cmd.op = "X" /\ ~CanDelete(cmd.chain)
    \/ cmd.op \in {"A", "I"} /\ ~CanAdd(cmd.chain, cmd.rule)
    \/ cmd.op = "D*"

Execute(cmd) ==
    \/ cmd.op = "F" /\ Flush(cmd.chain) /\ UNCHANGED chains
    \/ cmd.op = "N|F" /\ Flush(cmd.chain) /\ Create(cmd.chain)
    \/ cmd.op = "N" /\ Create(cmd.chain) /\ UNCHANGED rules
    \/ /\ cmd.op = "X" /\ CanDelete(cmd.chain)
       /\ chains' = chains \ {cmd.chain}
       /\ UNCHANGED rules
    \/ /\ cmd.op = "A" /\ CanAdd(cmd.chain, cmd.rule)
       /\ rules' = [rules EXCEPT ![cmd.chain] = Append(@, cmd.rule)]
       /\ UNCHANGED chains
    \/ /\ cmd.op = "I" /\ CanAdd(cmd.chain, cmd.rule)
       /\ rules' = [rules EXCEPT ![cmd.chain] = <<cmd.rule>> \o @]
       /\ UNCHANGED chains
    \/ Fails(cmd) /\ UNCHANGED nfvars

-----------------------------------------------------------------------------
(* What happens to a packet that enters from a LAN interface for the         *)
(* internet.  "tcp" is the first packet of a connection, "tcp-est" one of a  *)
(* connection the tracker knows, "udp" any datagram but DNS.                 *)
PacketKind == {"tcp", "tcp-est", "udp", "dns"}

Matches(r, lan, kind) ==
    /\ r.in \in {lan, AnyIface}
    /\ \/ r.match = "any"
       \/ r.match = "tcp" /\ kind \in {"tcp", "tcp-est"}
       \/ r.match = "established" /\ kind = "tcp-est"
       \/ r.match = "udp53" /\ kind = "dns"

\* nat PREROUTING sends a new connection to the local redsocks.
Redirected(lan) ==
    /\ \E i \in 1..Len(rules["PREROUTING"]) :
          /\ Matches(rules["PREROUTING"][i], lan, "tcp")
          /\ rules["PREROUTING"][i].to = "REDSOCKS"
    /\ \E i \in 1..Len(rules["REDSOCKS"]) : rules["REDSOCKS"][i].to = "REDIRECT"

\* Every rule of the kill-switch chain matches every packet: the first decides.
KillChainDrops ==
    /\ Len(rules["CAMOFOX_KILLSW"]) > 0
    /\ rules["CAMOFOX_KILLSW"][1].to = "DROP"

Drops(r)   == r.to = "DROP" \/ (r.to = "CAMOFOX_KILLSW" /\ KillChainDrops)
Decides(r) == r.to = "ACCEPT" \/ Drops(r)

\* The filter FORWARD chain drops the packet: the first rule that decides drops.
Dropped(lan, kind) ==
    \E i \in 1..Len(rules["FORWARD"]) :
       /\ Matches(rules["FORWARD"][i], lan, kind) /\ Drops(rules["FORWARD"][i])
       /\ \A j \in 1..(i - 1) :
             ~(Matches(rules["FORWARD"][j], lan, kind) /\ Decides(rules["FORWARD"][j]))

\* Nothing a LAN device sends leaves the router by the FORWARD chain.
AllBlocked(lan) == \A kind \in PacketKind : Dropped(lan, kind)
=============================================================================
