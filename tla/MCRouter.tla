------------------------------ MODULE MCRouter ------------------------------
EXTENDS Router, TLC

Cfg(enabled, lan, ip, ks) ==
    [enabled |-> enabled, ip |-> ip, ttl |-> "65", ttl_enabled |-> FALSE,
     kill_switch |-> ks, doh |-> ~ks, lan |-> lan]

CONSTANT KillSwitchOption   \* values of option kill_switch

MCConfig == {Cfg(e, lan, ip, ks) : e \in BOOLEAN, lan \in Lan, ip \in ProxyIP, ks \in KillSwitchOption}

(* Partial-order reduction.  Only the init script's own process uses the      *)
(* chains other than FORWARD and CAMOFOX_KILLSW, and only it uses these two   *)
(* when no monitor has the switch armed: such a command commutes with every   *)
(* step of everybody else, and is given priority.                             *)
LocalCommand ==
    /\ ~Finished(InitProc) /\ job[InitProc].at > 0
    /\ \/ Commands(InitProc)[job[InitProc].at].chain \notin {"FORWARD", "CAMOFOX_KILLSW"}
       \/ KillSwitchOption = {FALSE}

(* With no switch armed a monitor between two probes changes only the state   *)
(* file, which only monitors read: that goes first, too.                      *)
LocalMonitor(m) ==
    /\ KillSwitchOption = {FALSE}
    /\ pc[m] \in {"ok", "restore", "set_up", "bad", "set_down"}

Rest == UNCHANGED <<todo, initvars, hotvars, calls>>

PrioritisedNext ==
    \/ LocalCommand /\ ScriptStep(InitProc) /\ Rest
    \/ /\ ~LocalCommand
       /\ \E m \in Monitor : LocalMonitor(m) /\ MonitorStep(m) /\ Rest
    \/ ~LocalCommand /\ ~(\E m \in Monitor : LocalMonitor(m)) /\ RouterNext

(* Values nobody reads again do not tell states apart; dnsmasq is only       *)
(* written.  With no switch armed the count and the state file lead every    *)
(* monitor through its local steps to the next probe, whatever they are.     *)
View ==
    << rules, chains, uci, pc, pidFile, listening, todo, holder, ipc, conf,
       redsocks, gateway, ifup, hpc, calls, ifups,
       IF KillSwitchOption = {FALSE} THEN "unset" ELSE <<fail, stateFile>>,
       [p \in Proc |-> IF Finished(p) THEN "finished" ELSE job[p]],
       [m \in Monitor |-> IF pc[m] \in {"dead", "load"} THEN "unset" ELSE mcfg[m]],
       IF ipc \in {"applying", "doh"} THEN icfg ELSE "unset",
       IF ipc = "kill" THEN ipid ELSE "unset",
       IF hpc = "sleeping" THEN hip ELSE "unset" >>

Symmetry == Permutations(Lan) \cup Permutations(ProxyIP) \cup Permutations(Monitor)

MCRouterSafeSpec == RouterInit /\ [][PrioritisedNext]_rvars
MCRouterSpec     == MCRouterSafeSpec /\ RouterFairness
=============================================================================
