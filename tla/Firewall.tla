------------------------------ MODULE Firewall ------------------------------
(***************************************************************************)
(* /etc/camofox/firewall.rules: the four state-changing subcommands        *)
(* (apply, remove, kill_on, kill_off) as lists of iptables commands that a *)
(* shell process works through one by one.                                 *)
(*                                                                         *)
(* A process first loads the UCI configuration (load_config) and then      *)
(* uses that snapshot for every command, whatever happens to UCI meanwhile.*)
(* Several processes may be in the script at once: it takes no lock.       *)
(***************************************************************************)
EXTENDS Netfilter, FiniteSets

CONSTANTS
    Proc,    \* the processes that may run the script, one at a time each
    Config   \* the configurations /etc/config/camofox may hold

ConfigType ==
    [enabled : BOOLEAN, ip : ProxyIP, ttl : Ttl, ttl_enabled : BOOLEAN,
     kill_switch : BOOLEAN, doh : BOOLEAN, lan : Lan]

ASSUME ConfigAssumption == Config \subseteq ConfigType
\* "any-iface" stands for a rule without `-i`; it is not the name of a LAN.
ASSUME LanAssumption == AnyIface \notin Lan

VARIABLES
    uci,   \* the committed content of /etc/config/camofox
    job    \* job[p]: what process p runs

ScriptName == {"apply", "remove", "kill_on", "kill_off"}

(* at = 0: the configuration is not loaded yet; at = k > 0: command k is     *)
(* next; after the last command the process has exited.  "none": no process   *)
(* was ever started.                                                         *)
Job == [name : ScriptName \cup {"none"}, cfg : Config, at : Nat]

fwvars == <<rules, chains, uci, job>>

-----------------------------------------------------------------------------
(* The rules the script adds and removes.                                    *)
Rl(in, match, to) == [in |-> in, match |-> match, to |-> to]
NoRule == Rl(AnyIface, "any", "none")

RedsocksJump(c) == Rl(c.lan, "tcp", "REDSOCKS")
PrivateReturn   == Rl(AnyIface, "private", "RETURN")   \* the nine reserved ranges
ProxyReturn(c)  == Rl(AnyIface, c.ip, "RETURN")
Redirect        == Rl(AnyIface, "tcp", "REDIRECT")
TtlRule(c)      == Rl(AnyIface, c.ttl, "TTL")          \* and its ip6tables twin
DnsUdpAccept(c) == Rl(c.lan, "udp53", "ACCEPT")
DnsTcpAccept(c) == Rl(c.lan, "tcp53", "ACCEPT")
DnsDrop(c)      == Rl(c.lan, "udp53", "DROP")
EstAccept(c)    == Rl(c.lan, "established", "ACCEPT")
KillJump(c)     == Rl(c.lan, "any", "CAMOFOX_KILLSW")
KillDrop        == Rl(AnyIface, "any", "DROP")
KillReturn      == Rl(AnyIface, "any", "RETURN")

Cm(op, chain, rule) == [op |-> op, chain |-> chain, rule |-> rule]

KeepsKillChainMutant(c) ==   \* remove_rules forgets the kill switch
    << Cm("D*", "PREROUTING", RedsocksJump(c)),
       Cm("F", "REDSOCKS", NoRule),
       Cm("X", "REDSOCKS", NoRule) >>

(* remove_rules *)
RemoveRules(c) ==
    << Cm("D*", "PREROUTING", RedsocksJump(c)),
       Cm("F", "REDSOCKS", NoRule),
       Cm("X", "REDSOCKS", NoRule),
       Cm("D*", "POSTROUTING", TtlRule(c)),
       Cm("D*", "FORWARD", DnsDrop(c)),
       Cm("D*", "INPUT", DnsUdpAccept(c)),
       Cm("D*", "INPUT", DnsTcpAccept(c)),
       Cm("D*", "FORWARD", EstAccept(c)),
       Cm("D*", "FORWARD", KillJump(c)),
       Cm("F", "CAMOFOX_KILLSW", NoRule),
       Cm("X", "CAMOFOX_KILLSW", NoRule) >>

RedsocksContent(c) == <<PrivateReturn, ProxyReturn(c), Redirect>>

When(cond, seq) == IF cond THEN seq ELSE <<>>

LateReturnMutant(c) ==       \* the proxy is excluded after the redirect
    << Cm("N", "REDSOCKS", NoRule),
       Cm("A", "REDSOCKS", PrivateReturn),
       Cm("A", "REDSOCKS", Redirect),
       Cm("A", "REDSOCKS", ProxyReturn(c)),
       Cm("A", "PREROUTING", RedsocksJump(c)) >>

NoRemoveMutant(c) ==         \* apply_rules does not remove first
    << Cm("N|F", "REDSOCKS", NoRule),
       Cm("A", "REDSOCKS", PrivateReturn),
       Cm("A", "REDSOCKS", ProxyReturn(c)),
       Cm("A", "REDSOCKS", Redirect),
       Cm("A", "PREROUTING", RedsocksJump(c)) >>
    \o When(c.ttl_enabled, << Cm("A", "POSTROUTING", TtlRule(c)) >>)

(* apply_rules: remove_rules first, then the four parts *)
ApplyRules(c) ==
    RemoveRules(c)
    \o << Cm("N", "REDSOCKS", NoRule),
          Cm("A", "REDSOCKS", PrivateReturn),
          Cm("A", "REDSOCKS", ProxyReturn(c)),
          Cm("A", "REDSOCKS", Redirect),
          Cm("A", "PREROUTING", RedsocksJump(c)) >>
    \o When(c.ttl_enabled, << Cm("A", "POSTROUTING", TtlRule(c)) >>)
    \o When(c.doh, << Cm("I", "INPUT", DnsUdpAccept(c)),
                      Cm("I", "INPUT", DnsTcpAccept(c)),
                      Cm("A", "FORWARD", DnsDrop(c)) >>)
    \o When(c.kill_switch, << Cm("N|F", "CAMOFOX_KILLSW", NoRule),
                              Cm("A", "CAMOFOX_KILLSW", KillReturn),
                              Cm("I", "FORWARD", EstAccept(c)) >>)

AppendJumpMutant(c) ==       \* the jump goes behind the ACCEPT of established ones
    << Cm("F", "CAMOFOX_KILLSW", NoRule),
       Cm("A", "CAMOFOX_KILLSW", KillDrop),
       Cm("D*", "FORWARD", KillJump(c)),
       Cm("A", "FORWARD", KillJump(c)) >>

(* activate_kill_switch *)
ActivateKillSwitch(c) ==
    << Cm("F", "CAMOFOX_KILLSW", NoRule),
       Cm("A", "CAMOFOX_KILLSW", KillDrop),
       Cm("D*", "FORWARD", KillJump(c)),
       Cm("I", "FORWARD", KillJump(c)) >>

(* deactivate_kill_switch: the jump stays, the chain returns *)
DeactivateKillSwitch(c) ==
    << Cm("F", "CAMOFOX_KILLSW", NoRule),
       Cm("A", "CAMOFOX_KILLSW", KillReturn) >>

Script(name, c) ==
    CASE name = "apply"    -> ApplyRules(c)
      [] name = "remove"   -> RemoveRules(c)
      [] name = "kill_on"  -> ActivateKillSwitch(c)
      [] name = "kill_off" -> DeactivateKillSwitch(c)
      [] OTHER -> <<>>

Commands(p)   == Script(job[p].name, job[p].cfg)
Finished(p)   == job[p].at > Len(Commands(p))
Ran(p, name)  == job[p].name = name /\ Finished(p)

-----------------------------------------------------------------------------
FirewallInit ==
    /\ rules = [c \in Chain |-> <<>>]
    /\ chains = {}
    /\ uci \in Config
    /\ job = [p \in Proc |-> [name |-> "none", cfg |-> uci, at |-> 1]]

(* A caller starts `firewall.rules name` as process p. *)
Call(p, name) ==
    /\ Finished(p)
    /\ job' = [job EXCEPT ![p] = [name |-> name, cfg |-> uci, at |-> 0]]
    /\ UNCHANGED <<rules, chains, uci>>

(* load_config: the snapshot is taken when the new process gets to it. *)
LoadConfig(p) ==
    /\ ~Finished(p) /\ job[p].at = 0
    /\ job' = [job EXCEPT ![p].cfg = uci, ![p].at = 1]
    /\ UNCHANGED <<rules, chains, uci>>

(* One iptables command of the script. *)
Command(p) ==
    /\ ~Finished(p) /\ job[p].at > 0
    /\ LET cmd == Commands(p)[job[p].at] IN
         \/ /\ cmd.op = "D*" /\ Holds(cmd.chain, cmd.rule)
            /\ DeleteFirst(cmd.chain, cmd.rule)
            /\ UNCHANGED job
         \/ /\ ~(cmd.op = "D*" /\ Holds(cmd.chain, cmd.rule))
            /\ Execute(cmd)
            /\ job' = [job EXCEPT ![p].at = @ + 1]
    /\ UNCHANGED uci

(* uci set ...; uci commit camofox *)
Commit(c) ==
    /\ uci' = c
    /\ UNCHANGED <<rules, chains, job>>

FirewallNext ==
    \/ \E p \in Proc : (\E name \in ScriptName : Call(p, name)) \/ LoadConfig(p) \/ Command(p)
    \/ \E c \in Config : Commit(c)

FirewallSpec == FirewallInit /\ [][FirewallNext]_fwvars

-----------------------------------------------------------------------------
(* Properties.                                                               *)

(* Types of the packet filter and of the processes in the script, and no     *)
(* process runs past its script (firewall.rules:205-229).                    *)
FirewallTypeOK ==
    /\ NetfilterTypeOK
    /\ uci \in Config
    /\ job \in [Proc -> Job]
    /\ \A p \in Proc : job[p].at <= Len(Commands(p)) + 1

(* At every instant, also half-way through apply or remove and after any     *)
(* change of lan_iface or proxy_ip, traffic is redirected to redsocks only   *)
(* behind the exclusions of the private ranges and of a proxy address: what  *)
(* apply_rules means by "must not loop" (firewall.rules:95-97).              *)
RedirectGuarded ==
    \A i \in 1..Len(rules["REDSOCKS"]) :
        rules["REDSOCKS"][i] = Redirect =>
            /\ \E j \in 1..(i - 1) : rules["REDSOCKS"][j] = PrivateReturn
            /\ \E j \in 1..(i - 1) : rules["REDSOCKS"][j].match \in ProxyIP

Count(c, r) == Cardinality({i \in 1..Len(rules[c]) : rules[c][i] = r})

(* Idempotence of apply (firewall.rules:6): whatever was applied before and  *)
(* under whatever configuration, after an apply each of its rules is there   *)
(* exactly once, the REDSOCKS chain is exactly the new one, and the last TTL *)
(* rule, the one whose value a packet leaves with, is the configured one.    *)
AppliedExactlyOnce ==
    \A p \in Proc : Ran(p, "apply") =>
        LET c == job[p].cfg IN
        /\ Count("PREROUTING", RedsocksJump(c)) = 1
        /\ rules["REDSOCKS"] = RedsocksContent(c)
        /\ c.ttl_enabled =>
              rules["POSTROUTING"][Len(rules["POSTROUTING"])] = TtlRule(c)
        /\ Count("FORWARD", DnsDrop(c)) = (IF c.doh THEN 1 ELSE 0)
        /\ Count("INPUT", DnsUdpAccept(c)) = (IF c.doh THEN 1 ELSE 0)
        /\ c.kill_switch => /\ Count("FORWARD", EstAccept(c)) = 1
                            /\ rules["CAMOFOX_KILLSW"] = <<KillReturn>>

(* kill_on really blocks: when it ends and the chain is there, no packet of  *)
(* the LAN is forwarded, not even one of an established connection, wherever *)
(* the jump and the ACCEPT rule stood before (firewall.rules:164-167).       *)
KillOnBlocksAll ==
    \A p \in Proc :
        Ran(p, "kill_on") /\ "CAMOFOX_KILLSW" \in chains => AllBlocked(job[p].cfg.lan)

=============================================================================
