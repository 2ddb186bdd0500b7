---------------------------- MODULE SingleMonitor ----------------------------
(***************************************************************************)
(* One health monitor on a firewall that firewall.rules has applied, with  *)
(* nobody else about: the setting health_check.sh is written for.  It      *)
(* implements the abstract KillSwitch.                                     *)
(***************************************************************************)
EXTENDS HealthMonitor

CONSTANT TheMonitor

ASSUME SingleMonitorAssumption == Monitor = {TheMonitor}

-----------------------------------------------------------------------------
(* What apply leaves in chain d of an empty packet filter.                   *)
AppliedChain(d, c) ==
    CASE d = "PREROUTING"     -> <<RedsocksJump(c)>>
      [] d = "REDSOCKS"       -> RedsocksContent(c)
      [] d = "POSTROUTING"    -> When(c.ttl_enabled, <<TtlRule(c)>>)
      [] d = "INPUT"          -> When(c.doh, <<DnsTcpAccept(c), DnsUdpAccept(c)>>)
      [] d = "FORWARD"        -> When(c.kill_switch, <<EstAccept(c)>>)
                                     \o When(c.doh, <<DnsDrop(c)>>)
      [] d = "CAMOFOX_KILLSW" -> When(c.kill_switch, <<KillReturn>>)

(* One monitor, just started by the init script on a firewall it applied.    *)
Init ==
    /\ uci \in Config
    /\ chains = {"REDSOCKS"} \cup (IF uci.kill_switch THEN {"CAMOFOX_KILLSW"} ELSE {})
    /\ rules = [d \in Chain |-> AppliedChain(d, uci)]
    /\ job = [p \in Proc |-> [name |-> "none", cfg |-> uci, at |-> 1]]
    /\ pc = [m \in Monitor |-> "load"]
    /\ fail = [m \in Monitor |-> 0]
    /\ mcfg = [m \in Monitor |-> uci]
    /\ stateFile = "unknown"
    /\ pidFile = NoPid
    /\ listening \in SUBSET ProxyIP

Next == MonitorStep(TheMonitor) \/ ScriptStep(TheMonitor) \/ ProxyChanges

(* The kernel runs every shell process that can run; a sleep ends; a probe   *)
(* times out (nc -w 3, wget --timeout=3).  Nothing is assumed of the proxy.  *)
Fairness == WF_vars(MonitorStep(TheMonitor)) /\ WF_vars(ScriptStep(TheMonitor))

SafeSpec == Init /\ [][Next]_vars
Spec     == SafeSpec /\ Fairness

-----------------------------------------------------------------------------
(* Properties.                                                               *)

(* The state file never lies about the packet filter while the monitor       *)
(* sleeps, with the switch armed: "down" exactly when everything from the    *)
(* LAN is dropped, anything else when nothing but DNS is; and an unarmed     *)
(* switch never blocks (health_check.sh:142-174, firewall.rules:160-177).    *)
StateFileTellsTruth ==
    pc[TheMonitor] = "check" =>
        IF uci.kill_switch /\ stateFile = "down"
        THEN AllBlocked(uci.lan)
        ELSE \A kind \in PacketKind \ {"dns"} : ~Dropped(uci.lan, kind)

(* The detailed monitor implements the abstract kill switch.  The switch     *)
(* counts as engaged from the end of kill_on to the start of kill_off; the   *)
(* count is back to zero as soon as a probe has succeeded.                   *)
MonitorMisses ==
    IF pc[TheMonitor] \in {"ok", "restore", "kill_off", "set_up"}
    THEN 0 ELSE fail[TheMonitor]

SwitchEngaged ==
    /\ Len(rules["FORWARD"]) > 0 /\ rules["FORWARD"][1] = KillJump(uci)
    /\ rules["CAMOFOX_KILLSW"] = <<KillDrop>>
    /\ Finished(TheMonitor)

KS == INSTANCE KillSwitch WITH
        Threshold <- FailThreshold, armed <- uci.kill_switch,
        misses <- MonitorMisses, blocked <- SwitchEngaged

ImplementsKillSwitch == KS!Spec

-----------------------------------------------------------------------------
(* The inductive invariant behind the safety properties.                     *)

\* FORWARD holds nothing but the script's own rules, under one configuration.
ForwardRule == {EstAccept(uci), DnsDrop(uci), KillJump(uci)}

OneConfiguration ==
    /\ mcfg[TheMonitor] = uci /\ job[TheMonitor].cfg = uci
    /\ rules["FORWARD"] \in Seq(ForwardRule)

\* A script runs only while the monitor waits for it.
ChildHasParent ==
    /\ job[TheMonitor].name \in {"none", "kill_on", "kill_off"}
    /\ pc[TheMonitor] \in {"kill_on", "kill_off"} => job[TheMonitor].name = pc[TheMonitor]
    /\ pc[TheMonitor] \notin {"kill_on", "kill_off"} => Finished(TheMonitor)

CountFits ==
    /\ pc[TheMonitor] \in {"bad", "kill_on", "set_down"} => fail[TheMonitor] = FailThreshold
    /\ pc[TheMonitor] \in {"load", "write_pid", "starting"} => fail[TheMonitor] = 0

Open    == rules["CAMOFOX_KILLSW"] = <<KillReturn>>
Closed  == rules["CAMOFOX_KILLSW"] = <<KillDrop>>
Empty   == rules["CAMOFOX_KILLSW"] = <<>>
JumpFirst == Len(rules["FORWARD"]) > 0 /\ rules["FORWARD"][1] = KillJump(uci)

\* What the kill chain holds at every step of the two scripts and between them.
SwitchPosition ==
    LET k == job[TheMonitor].at IN
    IF pc[TheMonitor] = "kill_on" THEN
        /\ stateFile # "down"
        /\ k \in {0, 1} => Open
        /\ k = 2 => Empty
        /\ k \in {3, 4} => Closed
        /\ k = 5 => Closed /\ JumpFirst
    ELSE IF pc[TheMonitor] = "kill_off" THEN
        /\ k \in {0, 1} => Closed
        /\ k = 2 => Empty
        /\ k = 3 => Open
    ELSE IF pc[TheMonitor] = "set_up" THEN Open
    ELSE IF pc[TheMonitor] = "set_down" \/ stateFile = "down" THEN Closed /\ JumpFirst
    ELSE Open

SwitchAgrees ==
    IF uci.kill_switch
    THEN "CAMOFOX_KILLSW" \in chains /\ SwitchPosition
    ELSE Empty /\ job[TheMonitor].name = "none"

StartsUnknown == pc[TheMonitor] \in {"load", "write_pid", "starting"} => stateFile = "unknown"

IInv ==
    /\ HealthTypeOK /\ OneConfiguration /\ ChildHasParent /\ CountFits /\ SwitchAgrees
    /\ StartsUnknown
=============================================================================
