------------------------------- MODULE MCHosts -------------------------------
(***************************************************************************)
(* What programs take of their host and give back, each by itself: a       *)
(* behaviour is one of firewall.rules, run by one shell process with UCI   *)
(* changing between and during its subcommands; of a keepalive manager     *)
(* that any client starts and stops; or of CamoFoxProxy.run with its own   *)
(* manager, as part says.  The variables of the others stay as they began. *)
(***************************************************************************)
EXTENDS Firewall, Supervisor

CONSTANTS t1, t2, t3

Cfg(lan, ip, ttl, te, ks, doh) ==
    [enabled |-> TRUE, ip |-> ip, ttl |-> ttl, ttl_enabled |-> te,
     kill_switch |-> ks, doh |-> doh, lan |-> lan]

(* The shipped defaults, a second LAN and proxy address, a second TTL, and *)
(* the optional parts switched off.                                        *)
MCConfig ==
    { Cfg("br-lan", "ip1", "65", TRUE, TRUE, TRUE),
      Cfg("br-guest", "ip2", "65", TRUE, TRUE, TRUE),
      Cfg("br-lan", "ip1", "64", TRUE, TRUE, FALSE),
      Cfg("br-lan", "ip2", "65", FALSE, FALSE, TRUE) }

MCOrder == <<"network", "file">>

-----------------------------------------------------------------------------
VARIABLE part

OneFilter == FirewallInit /\ uci = CHOOSE c \in MCConfig : TRUE
OneRun == SInit /\ entry = "library" /\ config = [auto_restart |-> FALSE, keepalive |-> FALSE]

HostsInit ==
    \/ part = "firewall" /\ FirewallInit /\ OneRun /\ ~heartbeat
    \/ part = "manager" /\ OneFilter /\ OneRun
    \/ part = "run" /\ OneFilter /\ SInit

(* run() starts its manager once, so one slot is enough.                   *)
OneSlot == \A l \in Loop, s \in Slot \ {t1} : thread'[l][s] = "ended"

HostsNext ==
    /\ UNCHANGED part
    /\ \/ part = "firewall" /\ FirewallNext /\ UNCHANGED svars
       \/ part = "manager" /\ KNext /\ UNCHANGED <<fwvars, supvars>>
       \/ part = "run" /\ SNext /\ OneSlot /\ UNCHANGED fwvars

hvars == <<fwvars, svars, part>>
others == <<fwvars, supvars, part>>

(* The fairness of the manager and of all loops (KFairness, and the loops' *)
(* in SFairness); what is checked of the rest needs none.                  *)
HostsSpec ==
    /\ HostsInit /\ [][HostsNext]_hvars
    /\ WF_hvars(part = "manager" /\ ManagerStep /\ UNCHANGED others)
    /\ \A l \in Loop, s \in Slot : WF_hvars(LoopStep(l, s) /\ UNCHANGED others)

=============================================================================
