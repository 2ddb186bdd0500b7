------------------------------- MODULE Router -------------------------------
(***************************************************************************)
(* The router plugin as a whole: the init script, the camofox command, the *)
(* interface hotplug script and the health monitors, around one packet     *)
(* filter, one UCI configuration, one state file and one PID file.         *)
(*                                                                         *)
(* The init script runs as one process at a time: rc.common takes procd's  *)
(* lock (external) for as long as the process lives.  The monitors it      *)
(* starts with `&` and their kill_on and kill_off children run beside it,  *)
(* and outlive it.                                                         *)
(***************************************************************************)
EXTENDS HealthMonitor

CONSTANTS
    InitProc,   \* the process in which the init script runs firewall.rules
    MaxCalls,   \* bound: commands the user gives
    MaxIfups,   \* bound: times the phone's interface comes up
    Allowed     \* what the environment of a run does beyond the ordinary

(* "proxy fails": the proxy application on the phone stops and starts.       *)
(* "start overlaps": `camofox start` is given while the service runs.        *)
(* "setup while running": `camofox setup` is used on a running service.      *)
(* "slow boot": a monitor started with `&` may not have written its PID file *)
(*   when the next operation begins.                                         *)
(* "slow script": a kill_on or kill_off whose monitor was killed may still   *)
(*   run when the init script starts its own firewall.rules.                 *)
Circumstance ==
    {"proxy fails", "start overlaps", "setup while running", "slow boot", "slow script"}

ASSUME AllowedAssumption == Allowed \subseteq Circumstance
ASSUME InitProcAssumption == InitProc \in Proc \ Monitor

Caller == {"user", "hotplug"}   \* who may run the init script
NoIP   == "no-ip"

ASSUME NoIPAssumption == NoIP \notin ProxyIP

VARIABLES
    todo,      \* todo[c]: init operations caller c still has to run, one process each
    holder,    \* the caller that holds the lock, or "nobody"
    ipc,       \* where the init script is
    icfg,      \* the configuration start_service loaded
    ipid,      \* $pid of stop_monitor
    conf,      \* proxy address in /tmp/camofox_redsocks.conf, NoIP when absent
    redsocks,  \* proxy address of the running redsocks, NoIP when it is not running
    dnsmasq,   \* where dnsmasq sends queries: "upstream" or "doh"
    gateway,   \* the address of the phone on its interface
    ifup,      \* an ifup event waits for hotplug
    hpc,       \* where the hotplug script is
    hip,       \* the proxy_ip hotplug loaded at its start
    calls, ifups,  \* used up of MaxCalls, MaxIfups
    alone      \* history, read by no guard: when the last stop came to remove the rules, no
               \* monitor lived and no script of one ran

initvars == <<holder, ipc, icfg, ipid, conf, redsocks, dnsmasq, alone>>
hotvars  == <<gateway, ifup, hpc, hip, ifups>>
rvars    == <<vars, todo, initvars, hotvars, calls>>

IPC == {"idle", "load", "applying", "doh", "read_pid", "kill", "rm_pid", "spawn", "procd_set", "procd_empty",
        "belt_kill", "belt_rm", "rm_state", "removing", "rm_conf", "procd_kill"}

RouterTypeOK ==
    /\ HealthTypeOK
    /\ todo \in [Caller -> Seq({"start", "stop", "restart"})]
    /\ holder \in Caller \cup {"nobody"}
    /\ (holder = "nobody") = (ipc = "idle")
    /\ ipc \in IPC /\ icfg \in Config /\ ipid \in Monitor \cup {NoPid}
    /\ conf \in ProxyIP \cup {NoIP} /\ redsocks \in ProxyIP \cup {NoIP}
    /\ dnsmasq \in {"upstream", "doh"}
    /\ gateway \in ProxyIP /\ ifup \in BOOLEAN
    /\ hpc \in {"idle", "sleeping", "restarting"} /\ hip \in ProxyIP
    /\ calls \in 0..MaxCalls /\ ifups \in 0..MaxIfups /\ alone \in BOOLEAN

RouterInit ==
    /\ FirewallInit
    /\ pc = [m \in Monitor |-> "dead"]
    /\ fail = [m \in Monitor |-> 0]
    /\ mcfg = [m \in Monitor |-> uci]
    /\ stateFile = "unknown" /\ pidFile = NoPid
    /\ todo = [c \in Caller |-> IF c = "user" THEN <<"start">> ELSE <<>>]   \* boot
    /\ holder = "nobody" /\ ipc = "idle" /\ icfg = uci /\ ipid = NoPid
    /\ conf = NoIP /\ redsocks = NoIP /\ dnsmasq = "upstream"
    /\ gateway = uci.ip /\ listening = {uci.ip}
    /\ ifup = FALSE /\ hpc = "idle" /\ hip = uci.ip
    /\ calls = 0 /\ ifups = 0 /\ alone = TRUE

-----------------------------------------------------------------------------
(* The init script.                                                          *)
InGoto(from, to) == ipc = from /\ ipc' = to
CurrentOp == Head(todo[holder])
Busy == ipc # "idle"

(* rc.common takes the lock and enters start_service or stop_service. *)
Acquire(c) ==
    /\ todo[c] # <<>> /\ holder = "nobody"
    /\ "slow boot" \in Allowed \/ \A m \in Monitor : pc[m] \notin {"load", "write_pid"}
    /\ holder' = c
    /\ InGoto("idle", IF Head(todo[c]) = "start" THEN "load" ELSE "read_pid")
    /\ UNCHANGED <<vars, todo, icfg, ipid, conf, redsocks, dnsmasq, alone, hotvars, calls>>

\* The children of monitors that were killed have ended.
OrphansDone ==
    "slow script" \in Allowed \/ \A m \in Monitor : pc[m] = "dead" => Finished(m)

LoadCamofoxConfig    == icfg' = uci
GenerateRedsocksConf == conf' = uci.ip   \* of the template only the address matters

(* start_service: load_camofox_config, the enabled test, step 1 *)
StartLoad ==
    /\ \/ ~uci.enabled /\ InGoto("load", "procd_empty") /\ UNCHANGED <<fwvars, icfg, conf>>
       \/ /\ uci.enabled /\ InGoto("load", "applying")
          /\ LoadCamofoxConfig /\ GenerateRedsocksConf
          /\ OrphansDone /\ Call(InitProc, "apply")
    /\ UNCHANGED <<monvars, stateFile, pidFile, listening, todo, holder, ipid, redsocks, dnsmasq,
                   alone, hotvars, calls>>

(* step 4 has ended *)
Applied ==
    /\ Finished(InitProc)
    /\ InGoto("applying", "doh")
    /\ UNCHANGED <<vars, todo, holder, icfg, ipid, conf, redsocks, dnsmasq, alone, hotvars, calls>>

(* step 5: configure_doh; https-dns-proxy may not be installed *)
ConfigureDoh ==
    /\ InGoto("doh", "read_pid")
    /\ dnsmasq' \in {dnsmasq} \cup (IF icfg.doh THEN {"doh"} ELSE {})
    /\ UNCHANGED <<vars, todo, holder, icfg, ipid, conf, redsocks, alone, hotvars, calls>>

\* "restart" is "stop" followed by "start" in one process.
AfterHealthStop == IF CurrentOp = "start" THEN "spawn" ELSE "belt_kill"

KillMonitor(m) ==
    pc' = [n \in Monitor |-> IF n = m THEN "dead" ELSE pc[n]]

(* "$HEALTH_SCRIPT" stop, from both services: read the PID file, *)
ReadPid ==
    /\ \/ pidFile = NoPid /\ InGoto("read_pid", AfterHealthStop)
       \/ pidFile # NoPid /\ InGoto("read_pid", "kill")
    /\ ipid' = pidFile
    /\ UNCHANGED <<vars, todo, holder, icfg, conf, redsocks, dnsmasq, alone, hotvars, calls>>

NoKillMutant ==   \* the PID file goes, the monitor stays
    /\ InGoto("kill", "rm_pid")
    /\ UNCHANGED <<vars, todo, holder, icfg, ipid, conf, redsocks, dnsmasq, alone, hotvars, calls>>

(* kill the process it names if there is one, *)
KillByPid ==
    /\ InGoto("kill", "rm_pid")
    /\ KillMonitor(ipid)
    /\ UNCHANGED <<fwvars, fail, mcfg, stateFile, pidFile, listening, todo, holder, icfg, ipid,
                   conf, redsocks, dnsmasq, alone, hotvars, calls>>

(* rm -f "$PIDFILE" "$STATEFILE" *)
RemovePid ==
    /\ InGoto("rm_pid", AfterHealthStop)
    /\ pidFile' = NoPid /\ stateFile' = "unknown"
    /\ UNCHANGED <<fwvars, monvars, listening, todo, holder, icfg, ipid, conf, redsocks, dnsmasq,
                   alone, hotvars, calls>>

(* "$HEALTH_SCRIPT" start & *)
SpawnMonitor(m) ==
    /\ pc[m] = "dead" /\ Finished(m) /\ pidFile # m
    /\ InGoto("spawn", "procd_set")
    /\ pc' = [pc EXCEPT ![m] = "load"]
    /\ fail' = [fail EXCEPT ![m] = 0]
    /\ UNCHANGED <<fwvars, mcfg, stateFile, pidFile, listening, todo, holder, icfg, ipid,
                   conf, redsocks, dnsmasq, alone, hotvars, calls>>

Release(c) ==
    /\ holder' = "nobody"
    /\ todo' = [todo EXCEPT ![c] = Tail(@)]

(* procd_close_service after start_service: procd (external) starts redsocks, *)
(* or leaves it alone when it runs: its command line has not changed.         *)
ProcdSet ==
    /\ InGoto("procd_set", "idle") /\ Release(holder)
    /\ redsocks' = IF redsocks = NoIP THEN conf ELSE redsocks
    /\ UNCHANGED <<vars, icfg, ipid, conf, dnsmasq, alone, hotvars, calls>>

(* the same when no instance was declared: procd stops the one that runs *)
ProcdEmpty ==
    /\ InGoto("procd_empty", "idle") /\ Release(holder)
    /\ redsocks' = NoIP
    /\ UNCHANGED <<vars, icfg, ipid, conf, dnsmasq, alone, hotvars, calls>>

(* stop_health_monitor: kill "$(cat $HEALTH_PIDFILE)" if it is still there, *)
BeltKill ==
    /\ \/ pidFile = NoPid /\ InGoto("belt_kill", "rm_state") /\ UNCHANGED pc
       \/ pidFile # NoPid /\ InGoto("belt_kill", "belt_rm") /\ KillMonitor(pidFile)
    /\ UNCHANGED <<fwvars, fail, mcfg, stateFile, pidFile, listening, todo, holder, icfg, ipid,
                   conf, redsocks, dnsmasq, alone, hotvars, calls>>

BeltRemove ==
    /\ InGoto("belt_rm", "rm_state")
    /\ pidFile' = NoPid
    /\ UNCHANGED <<fwvars, monvars, stateFile, listening, todo, holder, icfg, ipid, conf, redsocks,
                   dnsmasq, alone, hotvars, calls>>

NoRemoveRulesMutant ==   \* stop leaves the firewall as it is
    /\ InGoto("rm_state", "removing")
    /\ stateFile' = "unknown"
    /\ alone' = \A p \in Proc : Finished(p) /\ (p \in Monitor => pc[p] = "dead")
    /\ UNCHANGED <<fwvars, monvars, pidFile, listening, todo, holder, icfg, ipid, conf, redsocks,
                   dnsmasq, hotvars, calls>>

(* rm -f the state file, then firewall.rules remove *)
RemoveState ==
    /\ InGoto("rm_state", "removing")
    /\ stateFile' = "unknown"
    /\ OrphansDone /\ Call(InitProc, "remove")
    /\ alone' = \A p \in Proc : Finished(p) /\ (p \in Monitor => pc[p] = "dead")
    /\ UNCHANGED <<monvars, pidFile, listening, todo, holder, icfg, ipid, conf, redsocks, dnsmasq,
                   hotvars, calls>>

(* the rules are removed; rm -f "$REDSOCKS_CONF" *)
Removed ==
    /\ Finished(InitProc)
    /\ InGoto("removing", "procd_kill")
    /\ conf' = NoIP
    /\ UNCHANGED <<vars, todo, holder, icfg, ipid, redsocks, dnsmasq, alone, hotvars, calls>>

(* procd (external) kills redsocks after stop_service; a restart goes on. *)
ProcdKill ==
    /\ \/ InGoto("procd_kill", "idle") /\ CurrentOp = "stop" /\ Release(holder)
       \/ /\ InGoto("procd_kill", "load") /\ CurrentOp = "restart"
          /\ todo' = [todo EXCEPT ![holder] = <<"start">> \o Tail(@)]
          /\ UNCHANGED holder
    /\ redsocks' = NoIP
    /\ UNCHANGED <<vars, icfg, ipid, conf, dnsmasq, alone, hotvars, calls>>

InitStep ==
    \/ \E c \in Caller : Acquire(c)
    \/ StartLoad \/ Applied \/ ConfigureDoh \/ ReadPid \/ KillByPid \/ RemovePid
    \/ \E m \in Monitor : SpawnMonitor(m)
    \/ ProcdSet \/ ProcdEmpty \/ BeltKill \/ BeltRemove \/ RemoveState \/ Removed \/ ProcdKill

-----------------------------------------------------------------------------
(* The user: one command at a time.                                          *)
UserFree    == todo["user"] = <<>> /\ calls < MaxCalls
HotplugIdle == todo["hotplug"] = <<>> /\ hpc = "idle"

Submit(ops) ==
    /\ todo' = [todo EXCEPT !["user"] = ops]
    /\ calls' = calls + 1
    /\ UNCHANGED <<rules, chains, job, monvars, stateFile, pidFile, listening, initvars, hotvars>>

(* camofox start *)
CmdStart ==
    /\ UserFree /\ uci.enabled /\ Submit(<<"start">>)
    /\ "start overlaps" \in Allowed \/ redsocks = NoIP
    /\ UNCHANGED uci

(* camofox stop *)
CmdStop == UserFree /\ Submit(<<"stop">>) /\ UNCHANGED uci

(* camofox restart *)
CmdRestart == UserFree /\ Submit(<<"stop", "start">>) /\ UNCHANGED uci

(* uci set; uci commit; then `camofox restart`, or the init script's reload *)
Reconfigure ==
    /\ UserFree
    /\ \E ops \in {<<"stop", "start">>, <<"restart">>} : Submit(ops)
    /\ uci' \in {c \in Config : c # uci /\ c.enabled = uci.enabled}

(* camofox setup: the wizard enables the service, commits, and starts it *)
Setup ==
    /\ UserFree /\ Submit(<<"start">>)
    /\ "setup while running" \in Allowed \/ (redsocks = NoIP /\ HotplugIdle)
    /\ uci' \in {c \in Config : c.enabled}

(* camofox enable, camofox disable *)
CmdEnable ==
    /\ UserFree /\ Submit(<<>>)
    /\ uci' = [uci EXCEPT !.enabled = ~@]

UserStep == CmdStart \/ CmdStop \/ CmdRestart \/ Reconfigure \/ Setup \/ CmdEnable

-----------------------------------------------------------------------------
(* The phone and the hotplug script.                                         *)

(* The phone's interface comes up, perhaps with another address.             *)
PhoneConnects ==
    /\ ifups < MaxIfups /\ ifups' = ifups + 1
    /\ \E ip \in ProxyIP :
          /\ gateway' = ip
          /\ listening' \in {{ip}} \cup (IF "proxy fails" \in Allowed THEN {{}} ELSE {})
    /\ ifup' = TRUE
    /\ UNCHANGED <<fwvars, monvars, stateFile, pidFile, todo, initvars, hpc, hip, calls>>

(* The proxy application on the phone starts or stops. *)
ProxyToggles ==
    /\ "proxy fails" \in Allowed
    /\ listening' = IF listening = {} THEN {gateway} ELSE {}
    /\ UNCHANGED <<fwvars, monvars, stateFile, pidFile, todo, initvars, hotvars, calls>>

(* Hotplug runs one script at a time.  config_load and the tests; proxy_ip   *)
(* is read from this snapshot later, after the sleep.                        *)
HotplugStart ==
    /\ ifup /\ ifup' = FALSE
    /\ hpc = "idle" /\ hpc' = IF uci.enabled THEN "sleeping" ELSE "idle"
    /\ hip' = uci.ip
    /\ UNCHANGED <<vars, todo, initvars, gateway, ifups, calls>>

StartOnlyMutant ==   \* hotplug starts the service without stopping it
    /\ hpc = "sleeping" /\ hpc' = "restarting"
    /\ uci' = IF gateway = hip THEN uci ELSE [uci EXCEPT !.ip = gateway]
    /\ todo' = [todo EXCEPT !["hotplug"] = <<"start">>]
    /\ UNCHANGED <<rules, chains, job, monvars, stateFile, pidFile, listening, initvars, gateway,
                   ifup, hip, ifups, calls>>

(* detect_iphone_ip; uci set and commit if it differs; restart.              *)
HotplugDetect ==
    /\ hpc = "sleeping" /\ hpc' = "restarting"
    /\ uci' = IF gateway = hip THEN uci ELSE [uci EXCEPT !.ip = gateway]
    /\ todo' = [todo EXCEPT !["hotplug"] = <<"restart">>]
    /\ UNCHANGED <<rules, chains, job, monvars, stateFile, pidFile, listening, initvars, gateway,
                   ifup, hip, ifups, calls>>

HotplugDone ==
    /\ hpc = "restarting" /\ todo["hotplug"] = <<>> /\ hpc' = "idle"
    /\ UNCHANGED <<vars, todo, initvars, gateway, ifup, hip, ifups, calls>>

HotplugStep == HotplugStart \/ HotplugDetect \/ HotplugDone

-----------------------------------------------------------------------------
Background ==
    /\ \/ \E m \in Monitor : MonitorStep(m)
       \/ \E p \in Proc : ScriptStep(p)
    /\ UNCHANGED <<todo, initvars, hotvars, calls>>

RouterNext ==
    InitStep \/ UserStep \/ HotplugStep \/ PhoneConnects \/ ProxyToggles \/ Background

(* Every process that can run is run; nothing is assumed of the user and     *)
(* the phone.                                                                *)
RouterFairness ==
    /\ WF_rvars(InitStep) /\ WF_rvars(HotplugStep)
    /\ \A m \in Monitor : WF_rvars(MonitorStep(m) /\ UNCHANGED <<todo, initvars, hotvars, calls>>)
    /\ \A p \in Proc : WF_rvars(ScriptStep(p) /\ UNCHANGED <<todo, initvars, hotvars, calls>>)

RouterSafeSpec == RouterInit /\ [][RouterNext]_rvars
RouterSpec     == RouterSafeSpec /\ RouterFairness

-----------------------------------------------------------------------------
(* Properties.                                                               *)
Quiet == ~Busy /\ (\A c \in Caller : todo[c] = <<>>) /\ hpc = "idle" /\ ~ifup

(* No black hole: once every operation has ended and redsocks is not         *)
(* running, no LAN interface, configured now or earlier, has its TCP         *)
(* connections redirected to the port nobody listens on; whatever mix of     *)
(* start, stop, restart, enable, disable, reconfiguration and ifup led there *)
(* (init.d/camofox:165-226, usr/bin/camofox:79-183).                         *)
NoBlackHole ==
    Quiet /\ redsocks = NoIP => \A lan \in Lan : ~Redirected(lan)

(* Every part of a running service works with the committed configuration    *)
(* once all operations have ended, though each loads its own snapshot at its *)
(* own time: redsocks, the redirect and its exclusion, DNS and a monitor     *)
(* (init.d/camofox:25, firewall.rules:15, health_check.sh:19, 99-camofox).   *)
ConfigAdopted ==
    Quiet /\ redsocks # NoIP =>
        /\ redsocks = uci.ip
        /\ Redirected(uci.lan) /\ Holds("REDSOCKS", ProxyReturn(uci))
        /\ Holds("FORWARD", DnsDrop(uci)) = uci.doh
        /\ \E m \in Monitor : pc[m] # "dead" /\ (pc[m] = "load" \/ mcfg[m].ip = uci.ip)

(* "Stop any existing monitor first" (init.d/camofox:140).                   *)
AtMostOneMonitor ==
    \A m, n \in Monitor : pc[m] # "dead" /\ pc[n] # "dead" => m = n

(* A stop undoes whatever the starts and the kill switch did before it, in  *)
(* whatever order and under whatever configurations: when it came to remove  *)
(* the rules with no monitor alive and no script of one running, nothing of  *)
(* any LAN is dropped afterwards, and of the LAN it knew not DNS either      *)
(* (init.d/camofox:207-226, firewall.rules:32-79).                           *)
LoneStopOpens ==
    Quiet /\ redsocks = NoIP /\ alone =>
        /\ \A lan \in Lan : \A kind \in PacketKind \ {"dns"} : ~Dropped(lan, kind)
        /\ job[InitProc].name = "remove" => ~Dropped(job[InitProc].cfg.lan, "dns")

(* "All traffic now flows normally (unproxied)" (usr/bin/camofox:165): once  *)
(* the service is stopped and nothing of it runs any more.                   *)
StoppedIsOpen ==
    /\ Quiet /\ redsocks = NoIP
    /\ \A m \in Monitor : pc[m] = "dead"
    /\ \A p \in Proc : Finished(p)
    => \A lan \in Lan : \A kind \in PacketKind : ~Dropped(lan, kind)

(* "When proxy returns, kill switch deactivates automatically"               *)
(* (camofox-router/README.md:225, health_check.sh:5).                        *)
RouterRestores ==
    <>[](Quiet /\ redsocks = uci.ip /\ uci.ip \in listening) => <>[](~Dropped(uci.lan, "udp"))

=============================================================================
