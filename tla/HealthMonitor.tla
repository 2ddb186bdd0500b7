---------------------------- MODULE HealthMonitor ----------------------------
(***************************************************************************)
(* /etc/camofox/health_check.sh: monitor processes that probe the proxy,   *)
(* share one state file and one PID file, and run firewall.rules kill_on / *)
(* kill_off as a child process they wait for.                              *)
(*                                                                         *)
(* One step per command that reads or writes something shared.  The        *)
(* actions are written for any monitor m: the router can, against its      *)
(* intention, have several.  Module SingleMonitor is one monitor left      *)
(* alone, module Router composes monitors with the init script.            *)
(***************************************************************************)
EXTENDS Firewall

CONSTANTS
    Monitor,        \* the monitor processes; each is its own kill_on/kill_off caller
    FailThreshold   \* option health_fail_threshold

ASSUME MonitorAssumption   == Monitor \subseteq Proc
ASSUME ThresholdAssumption == FailThreshold \in Nat \ {0}

VARIABLES
    pc,          \* pc[m]: where monitor m is in run_monitor
    fail,        \* fail[m]: $fail_count, counted up to FailThreshold
    mcfg,        \* mcfg[m]: the configuration m loaded when it started
    stateFile,   \* /tmp/camofox_proxy_state, "unknown" when absent
    pidFile,     \* /var/run/camofox_health.pid: the monitor named, or NoPid
    listening    \* the addresses at which a proxy answers

NoPid == "no-pid"

ASSUME NoPidAssumption == NoPid \notin Monitor

monvars == <<pc, fail, mcfg>>
vars    == <<rules, chains, uci, job, pc, fail, mcfg, stateFile, pidFile, listening>>

PC == {"dead", "load", "write_pid", "starting", "check", "ok", "restore",
       "kill_off", "set_up", "bad", "kill_on", "set_down"}

HealthTypeOK ==
    /\ FirewallTypeOK
    /\ pc \in [Monitor -> PC]
    /\ fail \in [Monitor -> 0..FailThreshold]
    /\ mcfg \in [Monitor -> Config]
    /\ stateFile \in {"unknown", "starting", "up", "down"}
    /\ pidFile \in Monitor \cup {NoPid}
    /\ listening \in SUBSET ProxyIP

Goto(m, from, to) == pc[m] = from /\ pc' = [pc EXCEPT ![m] = to]

-----------------------------------------------------------------------------
(* load_config, at the top of the script *)
Load(m) ==
    /\ Goto(m, "load", "write_pid")
    /\ mcfg' = [mcfg EXCEPT ![m] = uci]
    /\ UNCHANGED <<fwvars, fail, stateFile, pidFile, listening>>

(* echo $$ > "$PIDFILE" *)
WritePid(m) ==
    /\ Goto(m, "write_pid", "starting")
    /\ pidFile' = m
    /\ UNCHANGED <<fwvars, fail, mcfg, stateFile, listening>>

(* fail_count=0; set_state "starting" *)
Starting(m) ==
    /\ Goto(m, "starting", "check")
    /\ fail' = [fail EXCEPT ![m] = 0]
    /\ stateFile' = "starting"
    /\ UNCHANGED <<fwvars, mcfg, pidFile, listening>>

EarlyMutant(m) ==   \* one failed probe too few
    /\ \/ /\ mcfg[m].ip \in listening
          /\ Goto(m, "check", "ok")
          /\ UNCHANGED fail
       \/ /\ mcfg[m].ip \notin listening
          /\ Goto(m, "check", IF fail[m] + 1 >= FailThreshold - 1 THEN "bad" ELSE "check")
          /\ fail' = [fail EXCEPT ![m] = @ + 1]
    /\ UNCHANGED <<fwvars, mcfg, stateFile, pidFile, listening>>

(* sleep "$HEALTH_INTERVAL", in which m stays at "check"; then check_proxy,  *)
(* and the counting of a failure                                             *)
Probe(m) ==
    /\ \/ /\ mcfg[m].ip \in listening
          /\ Goto(m, "check", "ok")
          /\ UNCHANGED fail
       \/ /\ mcfg[m].ip \notin listening
          /\ fail[m] + 1 >= FailThreshold
          /\ Goto(m, "check", "bad")
          /\ fail' = [fail EXCEPT ![m] = FailThreshold]
       \/ /\ mcfg[m].ip \notin listening
          /\ fail[m] + 1 < FailThreshold
          /\ Goto(m, "check", "check")
          /\ fail' = [fail EXCEPT ![m] = @ + 1]
    /\ UNCHANGED <<fwvars, mcfg, stateFile, pidFile, listening>>

(* The proxy answered: [ fail_count -gt 0 ] || [ get_state != up ] *)
ProxyOk(m) ==
    /\ \/ /\ fail[m] > 0 \/ stateFile # "up"
          /\ Goto(m, "ok", "restore")
       \/ /\ fail[m] = 0 /\ stateFile = "up"
          /\ Goto(m, "ok", "check")
    /\ UNCHANGED <<fwvars, fail, mcfg, stateFile, pidFile, listening>>

NoRestoreMutant(m) ==   \* the wrong state is tested before kill_off
    /\ \/ /\ stateFile = "up" /\ mcfg[m].kill_switch
          /\ Goto(m, "restore", "kill_off")
          /\ Call(m, "kill_off")
       \/ /\ ~(stateFile = "up" /\ mcfg[m].kill_switch)
          /\ Goto(m, "restore", "set_up")
          /\ UNCHANGED fwvars
    /\ UNCHANGED <<fail, mcfg, stateFile, pidFile, listening>>

(* [ get_state = down ] && [ KILL_SWITCH = 1 ]: a second read of the file *)
Restore(m) ==
    /\ \/ /\ stateFile = "down" /\ mcfg[m].kill_switch
          /\ Goto(m, "restore", "kill_off")
          /\ Call(m, "kill_off")
       \/ /\ ~(stateFile = "down" /\ mcfg[m].kill_switch)
          /\ Goto(m, "restore", "set_up")
          /\ UNCHANGED fwvars
    /\ UNCHANGED <<fail, mcfg, stateFile, pidFile, listening>>

(* The child has exited. *)
ChildDone(m) ==
    /\ Finished(m)
    /\ Goto(m, "kill_off", "set_up") \/ Goto(m, "kill_on", "set_down")
    /\ UNCHANGED <<fwvars, fail, mcfg, stateFile, pidFile, listening>>

NoResetMutant(m) ==   \* fail_count keeps its value
    /\ Goto(m, "set_up", "check")
    /\ stateFile' = "up"
    /\ UNCHANGED <<fwvars, fail, mcfg, pidFile, listening>>

(* set_state "up"; fail_count=0 *)
SetUp(m) ==
    /\ Goto(m, "set_up", "check")
    /\ stateFile' = "up"
    /\ fail' = [fail EXCEPT ![m] = 0]
    /\ UNCHANGED <<fwvars, mcfg, pidFile, listening>>

(* fail_count has reached the threshold: [ get_state != down ] *)
ProxyBad(m) ==
    /\ \/ /\ stateFile # "down" /\ mcfg[m].kill_switch
          /\ Goto(m, "bad", "kill_on")
          /\ Call(m, "kill_on")
       \/ /\ stateFile # "down" /\ ~mcfg[m].kill_switch
          /\ Goto(m, "bad", "set_down")
          /\ UNCHANGED fwvars
       \/ /\ stateFile = "down"
          /\ Goto(m, "bad", "check")
          /\ UNCHANGED fwvars
    /\ UNCHANGED <<fail, mcfg, stateFile, pidFile, listening>>

(* set_state "down" *)
SetDown(m) ==
    /\ Goto(m, "set_down", "check")
    /\ stateFile' = "down"
    /\ UNCHANGED <<fwvars, fail, mcfg, pidFile, listening>>

MonitorStep(m) ==
    \/ Load(m) \/ WritePid(m) \/ Starting(m) \/ Probe(m) \/ ProxyOk(m) \/ Restore(m)
    \/ ChildDone(m) \/ SetUp(m) \/ ProxyBad(m) \/ SetDown(m)

(* A step of the script's child process, orphaned or not. *)
ScriptStep(p) ==
    /\ LoadConfig(p) \/ Command(p)
    /\ UNCHANGED <<monvars, stateFile, pidFile, listening>>

(* The proxy on the phone starts, stops, or moves. *)
ProxyChanges ==
    /\ listening' \in {{}} \cup {{ip} : ip \in ProxyIP}
    /\ listening' # listening
    /\ UNCHANGED <<fwvars, monvars, stateFile, pidFile>>

-----------------------------------------------------------------------------
(* Traffic becomes blocked only by a kill_on started on behalf of a monitor  *)
(* whose last FailThreshold probes all failed (health_check.sh:160-166).     *)
BlocksOnlyAfterThreshold ==
    [][\A lan \in Lan : ~Dropped(lan, "udp") /\ Dropped(lan, "udp")' =>
          \E m \in Monitor : /\ job[m].name = "kill_on" /\ ~Finished(m)
                             /\ fail[m] = FailThreshold]_vars
=============================================================================
