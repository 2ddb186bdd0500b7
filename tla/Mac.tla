--------------------------------- MODULE Mac ---------------------------------
(***************************************************************************)
(* camofox-mac.sh start and stop, with dns-setup.sh and the background     *)
(* health monitor: scripts under "set -e" that change the network settings *)
(* of macOS and keep what they need to undo it in files.  A command can be *)
(* interrupted between any two steps and the Mac can restart; files and    *)
(* settings survive that, processes do not.                                *)
(***************************************************************************)
EXTENDS Naturals

CONSTANTS
    Setup,          \* how the Mac may be set up and CamoFox configured
    MaxCommands,    \* commands given
    MaxReboots,
    MaxCuts,        \* times Ctrl+C is typed
    MaxFails        \* max_fails of the monitor: 3

(* root: the tool runs under sudo.  tool: dnscrypt-proxy or cloudflared is *)
(* installed.  running: it runs already.  proxy, dns: the user's settings. *)
ASSUME MacAssumption ==
    /\ Setup \subseteq [root : BOOLEAN, mode : {"doh", "proxy", "system"}, tool : BOOLEAN,
                        running : BOOLEAN, proxy : {"off", "own"}, dns : {"auto", "own"}]
    /\ MaxCommands \in Nat /\ MaxReboots \in Nat /\ MaxCuts \in Nat
    /\ MaxFails \in Nat \ {0}

VARIABLES
    setup,          \* this Mac's setup
    proxyUp,        \* the phone's proxy answers
    proxies,        \* networksetup: the proxy settings
    dns,            \* networksetup: the DNS servers
    dnsBackup,      \* dns_backup
    helper,         \* who runs a DNS server on port 53
    helperPid,      \* dns_helper.pid names the helper CamoFox started
    monitors,       \* the health monitors that run, with their fail_count
    healthPid,      \* health_monitor.pid
    proxyState,     \* proxy_state
    active,         \* camofox_state says "active"
    script,         \* the command that runs, and where it is
    commands,       \* commands given so far
    reboots, cuts,  \* counted up to their bounds
    last,           \* history: how the last command ended
    found,          \* history: the DNS servers the last start found and backed up
    spent,          \* history: since then a restore failed or had no backup
    torn            \* history: the last stop was cut short or could not turn a
                    \* proxy off, and no start ended since

settings == <<proxies, dns>>
helpers == <<dnsBackup, helper, helperPid>>
reports == <<monitors, healthPid, proxyState>>
counts == <<setup, commands, reboots, cuts>>
macvars == <<counts, proxyUp, settings, helpers, reports, active, script, last, found, spent, torn>>

None == "none"
NoPid == <<None, 0>>
Proxy == {"socks", "http", "https", "auto"}

MacInit ==
    /\ setup \in Setup
    /\ proxyUp \in BOOLEAN
    /\ proxies = [p \in Proxy |-> setup.proxy]
    /\ dns = setup.dns
    /\ dnsBackup = None
    /\ helper = IF setup.running THEN "own" ELSE None
    /\ helperPid = FALSE
    /\ monitors = {} /\ healthPid = NoPid /\ proxyState = None
    /\ active = FALSE
    /\ script = None
    /\ commands = 0 /\ reboots = 0 /\ cuts = 0
    /\ last = None /\ found = setup.dns /\ spent = FALSE /\ torn = FALSE

-----------------------------------------------------------------------------

Onward(step) == script' = step /\ UNCHANGED last

(* The command ends: "done", or with an error under set -e.                *)
Exit(how) == script' = None /\ last' = how

Give(cmd) ==
    /\ script = None /\ commands < MaxCommands
    /\ commands' = commands + 1
    /\ script' = cmd
    /\ UNCHANGED <<setup, reboots, cuts, proxyUp, settings, helpers, reports, active, last, found, spent, torn>>

(* cmd_start: without the phone's proxy nothing is changed.                *)
Discover ==
    /\ script = "start"
    /\ IF proxyUp THEN Onward("socks") ELSE Exit("refused")
    /\ UNCHANGED <<counts, proxyUp, settings, helpers, reports, active, found, spent, torn>>

(* enable_simple_mode: a networksetup that fails ends the command.         *)
AfterProxy == [socks |-> "http", http |-> "https", https |-> "backup"]

EnableProxy ==
    /\ script \in DOMAIN AfterProxy
    /\ \/ proxies' = [proxies EXCEPT ![script] = "camofox"] /\ Onward(AfterProxy[script])
       \/ UNCHANGED proxies /\ Exit("failed")
    /\ UNCHANGED <<counts, proxyUp, dns, helpers, reports, active, found, spent, torn>>

(* dns-setup.sh start: backup_dns, whatever the DNS servers are by now.    *)
BackupDns ==
    /\ script = "backup"
    /\ dnsBackup' = dns
    /\ found' = dns /\ spent' = FALSE
    /\ Onward("dns")
    /\ UNCHANGED <<counts, proxyUp, settings, helper, helperPid, reports, active, torn>>

(* start_doh with a tool: one that runs is used, or one is started, and    *)
(* seen to run or not.                                                     *)
StartDoh ==
    /\ script = "dns" /\ setup.mode = "doh" /\ setup.tool
    /\ \/ helper # None /\ UNCHANGED <<helper, helperPid>> /\ Onward("setdns")
       \/ helper = None /\ helper' = "camofox" /\ helperPid' = TRUE /\ Onward("setdns")
       \/ helper = None /\ helperPid' = TRUE /\ UNCHANGED helper /\ Onward("undo")
    /\ UNCHANGED <<counts, proxyUp, settings, dnsBackup, reports, active, found, spent, torn>>

(* start_doh without a tool: plain DNS with other servers.                 *)
FallbackDns ==
    /\ script = "dns" /\ setup.mode = "doh" /\ ~setup.tool
    /\ dns' \in {"fallback", dns}
    /\ Onward("monitor")
    /\ UNCHANGED <<counts, proxyUp, proxies, helpers, reports, active, found, spent, torn>>

(* kill by the PID in dns_helper.pid, which is that of sudo when the tool  *)
(* itself does not run as root, and then out of its reach.                 *)
Killed == setup.root /\ helperPid /\ helper = "camofox"

(* start_proxy_dns: the old forwarder is killed, a new one started on port *)
(* 53, and probed with kill -0, which needs the same rights.               *)
StartForwarder ==
    LET busy == helper # None /\ ~Killed
    IN  /\ script = "dns" /\ setup.mode = "proxy"
        /\ \/ ~busy /\ helper' = "camofox" /\ Onward(IF setup.root THEN "setdns" ELSE "undo")
           \/ helper' = (IF busy THEN helper ELSE None) /\ Onward("undo")
        /\ helperPid' = TRUE
        /\ UNCHANGED <<counts, proxyUp, settings, dnsBackup, reports, active, found, spent, torn>>

LeaveDns ==
    /\ script = "dns" /\ setup.mode = "system"
    /\ Onward("monitor")
    /\ UNCHANGED <<counts, proxyUp, settings, helpers, reports, active, found, spent, torn>>

(* A networksetup that fails is no error inside "if ! start_doh".           *)
SetDns ==
    /\ script = "setdns"
    /\ dns' \in {"local", dns}
    /\ Onward("monitor")
    /\ UNCHANGED <<counts, proxyUp, proxies, helpers, reports, active, found, spent, torn>>

(* Restores the servers of DHCP, whatever they were.                       *)
AlwaysAutoMutant ==
    /\ \E ok \in BOOLEAN :
        /\ dns' = IF ok THEN "auto" ELSE dns
        /\ spent' = (spent \/ ~ok \/ dnsBackup = None)
    /\ dnsBackup' = None
    /\ UNCHANGED found

(* restore_dns: without a backup the servers are those of DHCP.  The       *)
(* backup is removed though networksetup failed.                           *)
RestoreDns ==
    /\ \E ok \in BOOLEAN :
        /\ dns' = IF ~ok THEN dns ELSE IF dnsBackup = None THEN "auto" ELSE dnsBackup
        /\ spent' = (spent \/ ~ok \/ dnsBackup = None)
    /\ dnsBackup' = None
    /\ UNCHANGED found

UndoDns ==
    /\ script = "undo"
    /\ RestoreDns
    /\ Exit("undone")
    /\ UNCHANGED <<counts, proxyUp, proxies, helper, helperPid, reports, active, torn>>

(* The processes with the PID health_monitor.pid names.                    *)
Without(pid) == {m \in monitors : m.pid # pid}

(* $$ in the subshell of the monitor is the PID of the command.            *)
ShellPid == <<"command", commands>>

(* start_health_monitor.                                                   *)
StartMonitor ==
    /\ script = "monitor"
    /\ monitors' = Without(healthPid) \cup
                       {[pid |-> <<"monitor", commands>>, fails |-> 0, at |-> "sleep"]}
    /\ healthPid' = ShellPid
    /\ Onward("active")
    /\ UNCHANGED <<counts, proxyUp, settings, helpers, proxyState, active, found, spent, torn>>

WriteActive ==
    /\ script = "active"
    /\ active' = TRUE /\ torn' = FALSE
    /\ Exit("started")
    /\ UNCHANGED <<counts, proxyUp, settings, helpers, reports, found, spent>>

-----------------------------------------------------------------------------

(* cmd_stop.                                                               *)
StopMonitor ==
    /\ script = "stop"
    /\ monitors' = Without(healthPid)
    /\ healthPid' = NoPid /\ proxyState' = None
    /\ torn' = FALSE
    /\ Onward("offsocks")
    /\ UNCHANGED <<counts, proxyUp, settings, helpers, active, found, spent>>

(* restore_proxy_settings restores nothing: it turns proxies off, and      *)
(* ignores a networksetup that fails.                                      *)
Disables == [offsocks |-> "socks", offhttp |-> "http", offhttps |-> "https", offauto |-> "auto"]
AfterOff == [offsocks |-> "offhttp", offhttp |-> "offhttps", offhttps |-> "offauto", offauto |-> "helper"]

(* Forgets that HTTPS has a proxy of its own.                              *)
KeepsHttpsMutant ==
    /\ script \in DOMAIN Disables
    /\ proxies' = IF script = "offhttps" THEN proxies
                                         ELSE [proxies EXCEPT ![Disables[script]] = "off"]
    /\ Onward(AfterOff[script])
    /\ UNCHANGED <<counts, proxyUp, dns, helpers, reports, active, found, spent, torn>>

DisableProxy ==
    /\ script \in DOMAIN Disables
    /\ \/ proxies' = [proxies EXCEPT ![Disables[script]] = "off"] /\ UNCHANGED torn
       \/ torn' = TRUE /\ UNCHANGED proxies
    /\ Onward(AfterOff[script])
    /\ UNCHANGED <<counts, proxyUp, dns, helpers, reports, active, found, spent>>

StopHelpers ==
    /\ script = "helper"
    /\ helper' = IF Killed THEN None ELSE helper
    /\ helperPid' = FALSE
    /\ Onward("restore")
    /\ UNCHANGED <<counts, proxyUp, settings, dnsBackup, reports, active, found, spent, torn>>

StopRestores ==
    /\ script = "restore"
    /\ RestoreDns
    /\ Onward("files")
    /\ UNCHANGED <<counts, proxyUp, proxies, helper, helperPid, reports, active, torn>>

RemoveFiles ==
    /\ script = "files"
    /\ active' = FALSE /\ proxyState' = None
    /\ Exit("stopped")
    /\ UNCHANGED <<counts, proxyUp, settings, helpers, monitors, healthPid, found, spent, torn>>

-----------------------------------------------------------------------------

(* One turn of a monitor's loop writes proxy_state once, or twice.         *)
Probe(m) ==
    LET n == IF proxyUp THEN 0 ELSE IF m.fails < MaxFails THEN m.fails + 1 ELSE m.fails
    IN  /\ m.at = "sleep"
        /\ proxyState' = IF proxyUp THEN "up" ELSE "down"
        /\ monitors' = (monitors \ {m}) \cup
               {[m EXCEPT !.fails = n, !.at = IF n >= MaxFails THEN "kill" ELSE "sleep"]}
        /\ UNCHANGED <<counts, proxyUp, settings, helpers, healthPid, active, script, last, found, spent, torn>>

(* KILL_SWITCH: a word in a file.                                          *)
Engage(m) ==
    /\ m.at = "kill"
    /\ proxyState' = "killed"
    /\ monitors' = (monitors \ {m}) \cup {[m EXCEPT !.at = "sleep"]}
    /\ UNCHANGED <<counts, proxyUp, settings, helpers, healthPid, active, script, last, found, spent, torn>>

PhoneToggles ==
    /\ proxyUp' = ~proxyUp
    /\ UNCHANGED <<counts, settings, helpers, reports, active, script, last, found, spent, torn>>

StopSteps == {"stop", "helper", "restore", "files"} \cup DOMAIN Disables

Cut ==
    /\ script' = None /\ last' = "cut"
    /\ UNCHANGED <<found, spent>>
    /\ torn' = (torn \/ script \in StopSteps)

(* Ctrl+C: the monitors and helpers in the background stay.                *)
CtrlC ==
    /\ script # None /\ cuts < MaxCuts
    /\ cuts' = cuts + 1
    /\ Cut
    /\ UNCHANGED <<setup, commands, reboots, proxyUp, settings, helpers, reports, active>>

Reboot ==
    /\ reboots < MaxReboots
    /\ reboots' = reboots + 1
    /\ helper' = IF setup.running THEN "own" ELSE None
    /\ monitors' = {}
    /\ Cut
    /\ UNCHANGED <<setup, commands, cuts, proxyUp, settings, dnsBackup, helperPid, healthPid, proxyState, active>>

ScriptRuns ==
    \/ Discover \/ EnableProxy \/ BackupDns \/ StartDoh \/ FallbackDns \/ StartForwarder
    \/ LeaveDns \/ SetDns \/ UndoDns \/ StartMonitor \/ WriteActive
    \/ StopMonitor \/ DisableProxy \/ StopHelpers \/ StopRestores \/ RemoveFiles

MonitorRuns(pid) == \E m \in monitors : m.pid = pid /\ (Probe(m) \/ Engage(m))

MacNext ==
    \/ Give("start") \/ Give("stop") \/ ScriptRuns
    \/ \E m \in monitors : MonitorRuns(m.pid)
    \/ PhoneToggles \/ CtrlC \/ Reboot

MacSpec == MacInit /\ [][MacNext]_macvars

-----------------------------------------------------------------------------

(* A stop that ran to its end, every networksetup obeyed, leaves no proxy  *)
(* of CamoFox in the settings, whatever commands failed, were cut short or *)
(* repeated before it (restore_proxy_settings).                            *)
NoProxyLeft == last = "stopped" /\ script = None /\ ~torn =>
    \A p \in Proxy : proxies[p] # "camofox"

(* What a stop, or a start that failed, puts back are the DNS servers the  *)
(* last start found, whatever was cut short, rebooted or given since, if   *)
(* that start's backup was there and networksetup obeyed.  A second start  *)
(* finds those of the first (backup_dns, restore_dns).                     *)
PutsBackFound == last \in {"stopped", "undone"} /\ script = None /\ ~spent => dns = found

(* A stop that had the backup of a start, and all it asked of networksetup *)
(* done.                                                                   *)
Undone == last = "stopped" /\ script = None /\ ~torn /\ ~spent

(* "System proxy settings restored" (camofox-mac.sh:95): after such a stop *)
(* the proxies are as the user had them.                                   *)
ProxiesRestored == Undone => \A p \in Proxy : proxies[p] = setup.proxy

(* "All settings restored to original values" (camofox-mac.sh:263): after  *)
(* such a stop the DNS servers are the user's.                             *)
DnsRestored == Undone => dns = setup.dns

=============================================================================
