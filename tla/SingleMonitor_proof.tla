------------------------ MODULE SingleMonitor_proof ------------------------
(***************************************************************************)
(* For every configuration and every threshold: the invariant of a single  *)
(* health monitor, what follows from it, and that the monitor implements   *)
(* the abstract kill switch.                                               *)
(***************************************************************************)
EXTENDS SingleMonitor, TLAPS

-----------------------------------------------------------------------------
(* Sequences and scripts.                                                    *)

(* Deleting one rule of a chain leaves a chain of the same rules.            *)
LEMMA RemovedInSeq ==
    ASSUME NEW S, NEW s \in Seq(S), NEW i \in 1..Len(s)
    PROVE  SubSeq(s, 1, i - 1) \o SubSeq(s, i + 1, Len(s)) \in Seq(S)
<1>1. SubSeq(s, 1, i - 1) \in Seq(S)
  OBVIOUS
<1>2. SubSeq(s, i + 1, Len(s)) \in Seq(S)
  OBVIOUS
<1> QED
  BY <1>1, <1>2

(* Inserting at the top of a chain.                                          *)
LEMMA Prepended ==
    ASSUME NEW S, NEW s \in Seq(S), NEW r \in S
    PROVE  /\ <<r>> \o s \in Seq(S)
           /\ Len(<<r>> \o s) > 0
           /\ (<<r>> \o s)[1] = r
OBVIOUS

(* Replacing the rules of one chain.                                         *)
LEMMA ChainReplaced ==
    ASSUME rules \in [Chain -> Seq(Rule)], NEW c \in Chain, NEW s \in Seq(Rule),
           rules' = [rules EXCEPT ![c] = s]
    PROVE  /\ rules' \in [Chain -> Seq(Rule)]
           /\ rules'[c] = s
           /\ \A d \in Chain \ {c} : rules'[d] = rules[d]
OBVIOUS

(* The commands of the two scripts a monitor calls, one by one.              *)
LEMMA KillOnScript ==
    ASSUME NEW c
    PROVE  LET s == Script("kill_on", c) IN
           /\ Len(s) = 4
           /\ s[1] = Cm("F", "CAMOFOX_KILLSW", NoRule)
           /\ s[2] = Cm("A", "CAMOFOX_KILLSW", KillDrop)
           /\ s[3] = Cm("D*", "FORWARD", KillJump(c))
           /\ s[4] = Cm("I", "FORWARD", KillJump(c))
BY DEF Script, ActivateKillSwitch

(* The same for kill_off. *)
LEMMA KillOffScript ==
    ASSUME NEW c
    PROVE  LET s == Script("kill_off", c) IN
           /\ Len(s) = 2
           /\ s[1] = Cm("F", "CAMOFOX_KILLSW", NoRule)
           /\ s[2] = Cm("A", "CAMOFOX_KILLSW", KillReturn)
BY DEF Script, DeactivateKillSwitch

(* A process that was never started has no commands. *)
LEMMA NoScript == ASSUME NEW c PROVE Len(Script("none", c)) = 0
BY DEF Script

(* The rules the script builds from a configuration are rules. *)
LEMMA RuleTypes ==
    ASSUME NEW c \in Config
    PROVE  /\ {EstAccept(c), DnsDrop(c), KillJump(c), KillDrop, KillReturn} \subseteq Rule
           /\ {RedsocksJump(c), PrivateReturn, ProxyReturn(c), Redirect, TtlRule(c),
               DnsUdpAccept(c), DnsTcpAccept(c)} \subseteq Rule
BY ConfigAssumption
   DEF ConfigType, Rule, Target, UserChain, Match, Rl, EstAccept, DnsDrop, KillJump, KillDrop,
       KillReturn, RedsocksJump, PrivateReturn, ProxyReturn, Redirect, TtlRule, DnsUdpAccept,
       DnsTcpAccept

USE SingleMonitorAssumption, MonitorAssumption

-----------------------------------------------------------------------------
(* The invariant.                                                            *)

(* It holds of the firewall that apply leaves behind.                        *)
LEMMA InitIInv == Init => IInv
<1> SUFFICES ASSUME Init PROVE IInv
  OBVIOUS
<1> DEFINE c == uci
<1>0. c \in Config
  BY DEF Init
<1>1. {EstAccept(c), DnsDrop(c), KillReturn, RedsocksJump(c), PrivateReturn, ProxyReturn(c),
       Redirect, TtlRule(c), DnsUdpAccept(c), DnsTcpAccept(c)} \subseteq Rule
  BY <1>0, RuleTypes
<1>2. /\ rules = [d \in Chain |-> AppliedChain(d, c)]
      /\ "FORWARD" \in Chain /\ "CAMOFOX_KILLSW" \in Chain
  BY DEF Init, Chain, BuiltIn, UserChain
<1>3. /\ rules["FORWARD"] \in Seq(ForwardRule)
      /\ rules["CAMOFOX_KILLSW"] = IF c.kill_switch THEN <<KillReturn>> ELSE <<>>
  <2>1. AppliedChain("FORWARD", c) =
          (IF c.kill_switch THEN <<EstAccept(c)>> ELSE <<>>)
             \o (IF c.doh THEN <<DnsDrop(c)>> ELSE <<>>)
    BY DEF AppliedChain, When
  <2>2. AppliedChain("CAMOFOX_KILLSW", c) = IF c.kill_switch THEN <<KillReturn>> ELSE <<>>
    BY DEF AppliedChain, When
  <2> QED
    BY <1>2, <2>1, <2>2 DEF ForwardRule
<1>4. NetfilterTypeOK
  <2>1. AppliedChain("PREROUTING", c) \in Seq(Rule)
    BY <1>1 DEF AppliedChain
  <2>2. AppliedChain("REDSOCKS", c) \in Seq(Rule)
    BY <1>1 DEF AppliedChain, RedsocksContent
  <2>3. AppliedChain("POSTROUTING", c) \in Seq(Rule)
    BY <1>1 DEF AppliedChain, When
  <2>4. AppliedChain("INPUT", c) \in Seq(Rule)
    BY <1>1 DEF AppliedChain, When
  <2>5. rules["FORWARD"] \in Seq(Rule) /\ rules["CAMOFOX_KILLSW"] \in Seq(Rule)
    BY <1>0, <1>1, <1>3, RuleTypes DEF ForwardRule
  <2> QED
    BY <1>2, <1>3, <2>1, <2>2, <2>3, <2>4, <2>5
       DEF Init, NetfilterTypeOK, Chain, BuiltIn, UserChain
<1>5. HealthTypeOK
  BY <1>4, NoScript, ThresholdAssumption
     DEF Init, HealthTypeOK, FirewallTypeOK, Job, Commands, PC
<1>6. SwitchAgrees
  BY <1>3 DEF Init, SwitchAgrees, SwitchPosition, Open, Empty
<1> QED
  BY <1>3, <1>5, <1>6, NoScript
     DEF Init, IInv, OneConfiguration, ChildHasParent, CountFits, StartsUnknown, Finished, Commands

(* The firewall part of the state is typed: no action of the monitor, and    *)
(* none of the proxy, touches it except by calling a script.                 *)
LEMMA FirewallUntouched ==
    ASSUME FirewallTypeOK, UNCHANGED fwvars
    PROVE  FirewallTypeOK'
BY DEF FirewallTypeOK, NetfilterTypeOK, Commands, fwvars

(* A call keeps the types of the processes. *)
LEMMA CallTypes ==
    ASSUME FirewallTypeOK, NEW p \in Proc, NEW name \in {"kill_on", "kill_off"}, Call(p, name)
    PROVE  /\ FirewallTypeOK'
           /\ job'[p] = [name |-> name, cfg |-> uci, at |-> 0]
           /\ UNCHANGED <<rules, chains, uci>>
<1>1. job'[p] = [name |-> name, cfg |-> uci, at |-> 0] /\ UNCHANGED <<rules, chains, uci>>
  BY DEF Call, FirewallTypeOK
<1>2. job' \in [Proc -> Job]
  BY DEF Call, FirewallTypeOK, Job, ScriptName
<1>3. \A q \in Proc : job'[q].at <= Len(Commands(q)') + 1
  <2> SUFFICES ASSUME NEW q \in Proc PROVE job'[q].at <= Len(Commands(q)') + 1
    OBVIOUS
  <2>1. CASE q = p
    <3>1. Len(Commands(p)') \in Nat
      BY <1>1, KillOnScript, KillOffScript DEF Commands
    <3> QED
      BY <1>1, <2>1, <3>1
  <2>2. CASE q # p
    BY <2>2 DEF Call, FirewallTypeOK, Commands
  <2> QED
    BY <2>1, <2>2
<1> QED
  BY <1>1, <1>2, <1>3 DEF FirewallTypeOK, NetfilterTypeOK

(* The monitor is a process that may run the firewall script. *)
LEMMA MonitorIsProc == TheMonitor \in Proc
OBVIOUS

(* A monitor's child that is not finished runs kill_on or kill_off, and the  *)
(* monitor waits for it.                                                     *)
LEMMA ChildRuns ==
    ASSUME IInv, ~Finished(TheMonitor)
    PROVE  /\ pc[TheMonitor] \in {"kill_on", "kill_off"}
           /\ job[TheMonitor].name = pc[TheMonitor]
           /\ job[TheMonitor].cfg = uci
           /\ uci.kill_switch /\ "CAMOFOX_KILLSW" \in chains
           /\ SwitchPosition
           /\ uci \in Config
           /\ job[TheMonitor].at \in Nat
           /\ Commands(TheMonitor) = Script(pc[TheMonitor], uci)
           /\ pc[TheMonitor] = "kill_on" => job[TheMonitor].at <= 4
           /\ pc[TheMonitor] = "kill_off" => job[TheMonitor].at <= 2
<1>1. /\ pc[TheMonitor] \in {"kill_on", "kill_off"}
      /\ job[TheMonitor].name = pc[TheMonitor]
      /\ job[TheMonitor].cfg = uci
  BY DEF IInv, ChildHasParent, OneConfiguration
<1>2. uci.kill_switch /\ "CAMOFOX_KILLSW" \in chains /\ SwitchPosition
  BY <1>1 DEF IInv, SwitchAgrees
<1>3. uci \in Config /\ job[TheMonitor].at \in Nat
  BY MonitorIsProc DEF IInv, HealthTypeOK, FirewallTypeOK, Job
<1>4. Commands(TheMonitor) = Script(pc[TheMonitor], uci)
  BY <1>1 DEF Commands
<1>5. ASSUME pc[TheMonitor] = "kill_on" PROVE job[TheMonitor].at <= 4
  <2>1. Len(Commands(TheMonitor)) = 4
    BY <1>4, <1>5, KillOnScript
  <2> QED
    BY <1>3, <2>1 DEF Finished
<1>6. ASSUME pc[TheMonitor] = "kill_off" PROVE job[TheMonitor].at <= 2
  <2>1. Len(Commands(TheMonitor)) = 2
    BY <1>4, <1>6, KillOffScript
  <2> QED
    BY <1>3, <2>1 DEF Finished
<1> QED
  BY <1>1, <1>2, <1>3, <1>4, <1>5, <1>6

(* What a step of the child does to the packet filter and to the job.        *)
LEMMA LoadEffect ==
    ASSUME IInv, LoadConfig(TheMonitor)
    PROVE  /\ ~Finished(TheMonitor) /\ job[TheMonitor].at = 0
           /\ job' = [job EXCEPT ![TheMonitor].at = 1]
           /\ UNCHANGED <<rules, chains, uci>>
BY MonitorIsProc
   DEF LoadConfig, IInv, OneConfiguration, HealthTypeOK, FirewallTypeOK, Job

(* A process has moved on to its next command.                               *)
Advanced(p) ==
    /\ job' \in [Proc -> Job]
    /\ job'[p] = [name |-> job[p].name, cfg |-> job[p].cfg, at |-> job[p].at + 1]
    /\ \A q \in Proc \ {p} : job'[q] = job[q]

(* The loop of command 3 of kill_on deletes one rule.                        *)
JumpDeleted ==
    \E i \in 1..Len(rules["FORWARD"]) :
        rules' = [rules EXCEPT !["FORWARD"] =
                    SubSeq(rules["FORWARD"], 1, i - 1)
                       \o SubSeq(rules["FORWARD"], i + 1, Len(rules["FORWARD"]))]

(* What command k of kill_on (of kill_off, unless on) does when it ends.     *)
RulesAfter(k, on) ==
    \/ k = 1 /\ rules' = [rules EXCEPT !["CAMOFOX_KILLSW"] = <<>>]
    \/ /\ k = 2 /\ on
       /\ rules' = [rules EXCEPT !["CAMOFOX_KILLSW"] = Append(rules["CAMOFOX_KILLSW"], KillDrop)]
    \/ /\ k = 2 /\ ~on
       /\ rules' = [rules EXCEPT !["CAMOFOX_KILLSW"] = Append(rules["CAMOFOX_KILLSW"], KillReturn)]
    \/ k = 3 /\ on /\ UNCHANGED rules
    \/ /\ k = 4 /\ on
       /\ rules' = [rules EXCEPT !["FORWARD"] = <<KillJump(uci)>> \o rules["FORWARD"]]

(* Moving on to the next command changes nothing else of a process. *)
LEMMA Advances ==
    ASSUME job \in [Proc -> Job], NEW p \in Proc, job' = [job EXCEPT ![p].at = @ + 1]
    PROVE  Advanced(p)
<1>1. /\ job[p] = [name |-> job[p].name, cfg |-> job[p].cfg, at |-> job[p].at]
      /\ job[p].at + 1 \in Nat
  BY DEF Job
<1>2. job'[p] = [name |-> job[p].name, cfg |-> job[p].cfg, at |-> job[p].at + 1]
  BY <1>1
<1>3. job'[p] \in Job
  BY <1>1, <1>2 DEF Job
<1>4. DOMAIN job' = Proc /\ \A q \in Proc \ {p} : job'[q] = job[q]
  OBVIOUS
<1> QED
  BY <1>2, <1>3, <1>4 DEF Advanced

(* What each command of kill_on and kill_off does to the packet filter. *)
LEMMA CommandEffect ==
    ASSUME IInv, Command(TheMonitor)
    PROVE  LET k == job[TheMonitor].at
               on == pc[TheMonitor] = "kill_on"
           IN
           /\ ~Finished(TheMonitor) /\ k > 0 /\ UNCHANGED <<chains, uci>>
           /\ \/ on /\ k = 3 /\ JumpDeleted /\ UNCHANGED job
              \/ RulesAfter(k, on) /\ Advanced(TheMonitor)
<1> DEFINE k == job[TheMonitor].at
           cmd == Commands(TheMonitor)[k]
           on == pc[TheMonitor] = "kill_on"
<1>1. ~Finished(TheMonitor) /\ k > 0 /\ uci' = uci
  BY DEF Command
<1>2. /\ Commands(TheMonitor) = Script(IF on THEN "kill_on" ELSE "kill_off", uci)
      /\ k \in Nat /\ "CAMOFOX_KILLSW" \in chains
      /\ on => k <= 4
      /\ ~on => k <= 2
  BY <1>1, ChildRuns
<1>3. \/ k = 1 /\ cmd = Cm("F", "CAMOFOX_KILLSW", NoRule)
      \/ k = 2 /\ on /\ cmd = Cm("A", "CAMOFOX_KILLSW", KillDrop)
      \/ k = 2 /\ ~on /\ cmd = Cm("A", "CAMOFOX_KILLSW", KillReturn)
      \/ k = 3 /\ on /\ cmd = Cm("D*", "FORWARD", KillJump(uci))
      \/ k = 4 /\ on /\ cmd = Cm("I", "FORWARD", KillJump(uci))
  <2>1. CASE on
    BY <1>1, <1>2, <2>1, KillOnScript
  <2>2. CASE ~on
    BY <1>1, <1>2, <2>2, KillOffScript
  <2> QED
    BY <2>1, <2>2
<1>4. /\ CanAdd("CAMOFOX_KILLSW", KillDrop) /\ CanAdd("CAMOFOX_KILLSW", KillReturn)
      /\ CanAdd("FORWARD", KillJump(uci))
  BY <1>2 DEF CanAdd, Exists, BuiltIn, UserChain, KillDrop, KillReturn, KillJump, Rl
<1>5. CASE cmd.op = "D*" /\ Holds(cmd.chain, cmd.rule)
  <2>1. k = 3 /\ on /\ cmd.chain = "FORWARD"
    BY <1>3, <1>5 DEF Cm
  <2>2. DeleteFirst("FORWARD", cmd.rule) /\ UNCHANGED job
    BY <1>5, <2>1 DEF Command
  <2> QED
    BY <1>1, <2>1, <2>2 DEF DeleteFirst, JumpDeleted
<1>6. CASE ~(cmd.op = "D*" /\ Holds(cmd.chain, cmd.rule))
  <2>1. Execute(cmd) /\ job' = [job EXCEPT ![TheMonitor].at = @ + 1]
    BY <1>6 DEF Command
  <2>a. Advanced(TheMonitor)
    <3>1. job \in [Proc -> Job]
      BY DEF IInv, HealthTypeOK, FirewallTypeOK
    <3> QED
      BY <2>1, <3>1, MonitorIsProc, Advances
  <2>2. CASE k = 1 /\ cmd = Cm("F", "CAMOFOX_KILLSW", NoRule)
    BY <1>1, <2>1, <2>2, <2>a DEF RulesAfter, Execute, Fails, Flush, Cm
  <2>3. CASE k = 2 /\ on /\ cmd = Cm("A", "CAMOFOX_KILLSW", KillDrop)
    BY <1>1, <1>4, <2>1, <2>3, <2>a DEF RulesAfter, Execute, Fails, Cm
  <2>4. CASE k = 2 /\ ~on /\ cmd = Cm("A", "CAMOFOX_KILLSW", KillReturn)
    BY <1>1, <1>4, <2>1, <2>4, <2>a DEF RulesAfter, Execute, Fails, Cm
  <2>5. CASE k = 3 /\ on /\ cmd = Cm("D*", "FORWARD", KillJump(uci))
    BY <1>1, <2>1, <2>5, <2>a DEF RulesAfter, Execute, Fails, Cm, nfvars
  <2>6. CASE k = 4 /\ on /\ cmd = Cm("I", "FORWARD", KillJump(uci))
    BY <1>1, <1>4, <2>1, <2>6, <2>a DEF RulesAfter, Execute, Fails, Cm
  <2> QED
    BY <1>3, <2>2, <2>3, <2>4, <2>5, <2>6
<1> QED
  BY <1>5, <1>6

-----------------------------------------------------------------------------
(* Every step preserves the invariant.                                       *)

(* What a step that leaves the packet filter and the scripts alone keeps.    *)
LEMMA NothingRan ==
    ASSUME IInv, UNCHANGED fwvars
    PROVE  /\ FirewallTypeOK' /\ uci' = uci /\ job' = job /\ chains' = chains
           /\ Finished(TheMonitor)' <=> Finished(TheMonitor)
           /\ (Open' <=> Open) /\ (Closed' <=> Closed) /\ (Empty' <=> Empty)
           /\ JumpFirst' <=> JumpFirst
           /\ rules'["FORWARD"] \in Seq(ForwardRule')
<1>1. FirewallTypeOK'
  BY FirewallUntouched DEF IInv, HealthTypeOK
<1>2. Finished(TheMonitor)' <=> Finished(TheMonitor)
  BY DEF fwvars, Finished, Commands
<1>3. /\ (Open' <=> Open) /\ (Closed' <=> Closed) /\ (Empty' <=> Empty)
      /\ JumpFirst' <=> JumpFirst
      /\ ForwardRule' = ForwardRule
  BY DEF fwvars, Open, Closed, Empty, JumpFirst, ForwardRule
<1> QED
  BY <1>1, <1>2, <1>3 DEF fwvars, IInv, OneConfiguration

(* A call starts a script that is not finished.                              *)
LEMMA CallStarts ==
    ASSUME IInv, NEW name \in {"kill_on", "kill_off"}, Call(TheMonitor, name)
    PROVE  /\ FirewallTypeOK' /\ UNCHANGED <<rules, chains, uci>>
           /\ job'[TheMonitor] = [name |-> name, cfg |-> uci, at |-> 0]
           /\ Finished(TheMonitor) /\ ~Finished(TheMonitor)'
<1>1. /\ FirewallTypeOK' /\ UNCHANGED <<rules, chains, uci>>
      /\ job'[TheMonitor] = [name |-> name, cfg |-> uci, at |-> 0]
  <2>1. FirewallTypeOK /\ TheMonitor \in Proc
    BY DEF IInv, HealthTypeOK
  <2> QED
    BY <2>1, CallTypes
<1>2. Len(Script(name, uci)) \in Nat
  BY KillOnScript, KillOffScript
<1>3. ~Finished(TheMonitor)'
  BY <1>1, <1>2 DEF Finished, Commands
<1> QED
  BY <1>1, <1>3 DEF Call

(* A child that has ended has done all of its script.                        *)
LEMMA ChildEnds ==
    ASSUME IInv, Finished(TheMonitor)
    PROVE  /\ pc[TheMonitor] = "kill_on" => job[TheMonitor].at = 5
           /\ pc[TheMonitor] = "kill_off" => job[TheMonitor].at = 3
<1>1. /\ job[TheMonitor].at \in Nat
      /\ job[TheMonitor].at <= Len(Commands(TheMonitor)) + 1
  BY MonitorIsProc DEF IInv, HealthTypeOK, FirewallTypeOK, Job
<1>2. ASSUME pc[TheMonitor] = "kill_on" PROVE job[TheMonitor].at = 5
  <2>1. Len(Commands(TheMonitor)) = 4
    BY <1>2, KillOnScript DEF IInv, ChildHasParent, Commands
  <2> QED
    BY <1>1, <2>1 DEF Finished
<1>3. ASSUME pc[TheMonitor] = "kill_off" PROVE job[TheMonitor].at = 3
  <2>1. Len(Commands(TheMonitor)) = 2
    BY <1>3, KillOffScript DEF IInv, ChildHasParent, Commands
  <2> QED
    BY <1>1, <2>1 DEF Finished
<1> QED
  BY <1>2, <1>3

(* The steps in which the monitor calls a script.                            *)
LEMMA CallKeepsIInv ==
    ASSUME IInv, NEW name \in {"kill_on", "kill_off"}, Call(TheMonitor, name),
           name = "kill_off" => Restore(TheMonitor),
           name = "kill_on" => ProxyBad(TheMonitor)
    PROVE  IInv'
<1> DEFINE m == TheMonitor
<1>2. /\ FirewallTypeOK' /\ UNCHANGED <<rules, chains, uci>>
      /\ job'[m] = [name |-> name, cfg |-> uci, at |-> 0]
      /\ Finished(m) /\ ~Finished(m)'
  BY CallStarts
<1>u. ~UNCHANGED fwvars
  <2> SUFFICES ASSUME UNCHANGED fwvars PROVE FALSE
    OBVIOUS
  <2>1. Finished(m)' <=> Finished(m)
    BY NothingRan
  <2> QED
    BY <1>2, <2>1
<1>3. /\ pc[m] = (IF name = "kill_on" THEN "bad" ELSE "restore")
      /\ pc' = [pc EXCEPT ![m] = name] /\ mcfg[m].kill_switch
      /\ UNCHANGED <<fail, mcfg, stateFile, pidFile, listening>>
      /\ (stateFile = "down") <=> (name = "kill_off")
  <2>1. CASE name = "kill_off"
    BY <1>u, <2>1 DEF Restore, Goto
  <2>2. CASE name = "kill_on"
    BY <1>u, <2>2 DEF ProxyBad, Goto
  <2> QED
    BY <2>1, <2>2
<1>4. HealthTypeOK'
  BY <1>2, <1>3 DEF IInv, HealthTypeOK, PC
<1>5. OneConfiguration' /\ ChildHasParent' /\ CountFits' /\ StartsUnknown'
  BY <1>2, <1>3
     DEF IInv, HealthTypeOK, OneConfiguration, ForwardRule, ChildHasParent, CountFits, StartsUnknown
<1>6. SwitchAgrees'
  BY <1>2, <1>3
     DEF IInv, HealthTypeOK, OneConfiguration, SwitchAgrees, SwitchPosition, Open, Closed, Empty,
         JumpFirst
<1> QED
  BY <1>4, <1>5, <1>6 DEF IInv

(* The steps in which the monitor itself moves and calls no script.          *)
LEMMA MonitorKeepsIInv ==
    ASSUME IInv, UNCHANGED fwvars,
           \/ Load(TheMonitor) \/ WritePid(TheMonitor) \/ Starting(TheMonitor)
           \/ Probe(TheMonitor) \/ ProxyOk(TheMonitor) \/ Restore(TheMonitor)
           \/ ChildDone(TheMonitor) \/ SetUp(TheMonitor) \/ ProxyBad(TheMonitor)
           \/ SetDown(TheMonitor)
    PROVE  IInv'
<1> DEFINE m == TheMonitor
<1>f. /\ FirewallTypeOK' /\ uci' = uci /\ job' = job /\ chains' = chains
      /\ Finished(m)' <=> Finished(m)
      /\ (Open' <=> Open) /\ (Closed' <=> Closed) /\ (Empty' <=> Empty)
      /\ JumpFirst' <=> JumpFirst
      /\ rules'["FORWARD"] \in Seq(ForwardRule')
  BY NothingRan
<1>t. /\ pc \in [Monitor -> PC] /\ fail \in [Monitor -> 0..FailThreshold]
      /\ mcfg \in [Monitor -> Config] /\ uci \in Config
      /\ stateFile \in {"unknown", "starting", "up", "down"}
      /\ pidFile \in Monitor \cup {NoPid} /\ listening \in SUBSET ProxyIP
  BY DEF IInv, HealthTypeOK, FirewallTypeOK
<1>c. ~Call(m, "kill_on") /\ ~Call(m, "kill_off")
  <2>1. ASSUME NEW name \in {"kill_on", "kill_off"}, Call(m, name) PROVE FALSE
    BY <1>f, <2>1, CallStarts
  <2> QED
    BY <2>1
<1>e. Finished(m) =>
        /\ pc[m] = "kill_on" => job[m].at = 5
        /\ pc[m] = "kill_off" => job[m].at = 3
  BY ChildEnds
<1>1. CASE Load(m)
  BY <1>1, <1>f, <1>t DEF Load, Goto, IInv, HealthTypeOK, OneConfiguration, ChildHasParent, CountFits,
       SwitchAgrees, SwitchPosition, StartsUnknown, PC
<1>2. CASE WritePid(m)
  BY <1>2, <1>f, <1>t DEF WritePid, Goto, IInv, HealthTypeOK, OneConfiguration, ChildHasParent, CountFits,
       SwitchAgrees, SwitchPosition, StartsUnknown, PC
<1>3. CASE Starting(m)
  BY <1>3, <1>f, <1>t, ThresholdAssumption
     DEF Starting, Goto, IInv, HealthTypeOK, OneConfiguration, ChildHasParent, CountFits,
       SwitchAgrees, SwitchPosition, StartsUnknown, PC
<1>4. CASE Probe(m)
  BY <1>4, <1>f, <1>t, ThresholdAssumption
     DEF Probe, Goto, IInv, HealthTypeOK, OneConfiguration, ChildHasParent, CountFits,
       SwitchAgrees, SwitchPosition, StartsUnknown, PC
<1>5. CASE ProxyOk(m)
  BY <1>5, <1>f, <1>t DEF ProxyOk, Goto, IInv, HealthTypeOK, OneConfiguration, ChildHasParent, CountFits,
       SwitchAgrees, SwitchPosition, StartsUnknown, PC
<1>6. CASE Restore(m)
  BY <1>6, <1>c, <1>e, <1>f, <1>t DEF Restore, Goto, IInv, HealthTypeOK, OneConfiguration, ChildHasParent, CountFits,
       SwitchAgrees, SwitchPosition, StartsUnknown, PC
<1>7. CASE ChildDone(m)
  BY <1>7, <1>c, <1>e, <1>f, <1>t DEF ChildDone, Goto, IInv, HealthTypeOK, OneConfiguration, ChildHasParent, CountFits,
       SwitchAgrees, SwitchPosition, StartsUnknown, PC
<1>8. CASE SetUp(m)
  BY <1>8, <1>f, <1>t, ThresholdAssumption
     DEF SetUp, Goto, IInv, HealthTypeOK, OneConfiguration, ChildHasParent, CountFits,
       SwitchAgrees, SwitchPosition, StartsUnknown, PC
<1>9. CASE ProxyBad(m)
  BY <1>9, <1>c, <1>e, <1>f, <1>t DEF ProxyBad, Goto, IInv, HealthTypeOK, OneConfiguration, ChildHasParent, CountFits,
       SwitchAgrees, SwitchPosition, StartsUnknown, PC
<1>10. CASE SetDown(m)
  BY <1>10, <1>f, <1>t DEF SetDown, Goto, IInv, HealthTypeOK, OneConfiguration, ChildHasParent, CountFits,
       SwitchAgrees, SwitchPosition, StartsUnknown, PC
<1> QED
  BY <1>1, <1>2, <1>3, <1>4, <1>5, <1>6, <1>7, <1>8, <1>9, <1>10

(* The child loads its configuration.                                        *)
LEMMA LoadKeepsIInv ==
    ASSUME IInv, LoadConfig(TheMonitor), UNCHANGED <<monvars, stateFile, pidFile, listening>>
    PROVE  IInv'
<1> DEFINE m == TheMonitor
<1>1. /\ ~Finished(m) /\ job[m].at = 0
      /\ job' = [job EXCEPT ![m].at = 1]
      /\ UNCHANGED <<rules, chains, uci>>
  BY LoadEffect
<1>2. /\ pc[m] \in {"kill_on", "kill_off"} /\ job[m].name = pc[m] /\ job[m].cfg = uci
      /\ uci.kill_switch /\ "CAMOFOX_KILLSW" \in chains /\ SwitchPosition
      /\ Commands(m) = Script(pc[m], uci)
  BY <1>1, ChildRuns
<1>3. FirewallTypeOK
  BY DEF IInv, HealthTypeOK
<1>4. FirewallTypeOK'
  <2>1. NetfilterTypeOK' /\ uci' \in Config
    BY <1>1, <1>3 DEF FirewallTypeOK, NetfilterTypeOK
  <2>2. job' \in [Proc -> Job]
    BY <1>1, <1>3, MonitorIsProc DEF FirewallTypeOK, Job
  <2>3. ASSUME NEW q \in Proc PROVE job'[q].at <= Len(Commands(q)') + 1
    <3>1. CASE q = m
      <4>1. Commands(m)' = Commands(m) /\ Len(Commands(m)) \in Nat
        BY <1>1, <1>2, <1>3, MonitorIsProc, KillOnScript, KillOffScript
           DEF Commands, FirewallTypeOK, Job
      <4>2. job'[m].at = 1
        BY <1>1, <1>3, MonitorIsProc DEF FirewallTypeOK, Job
      <4> QED
        BY <3>1, <4>1, <4>2
    <3>2. CASE q # m
      BY <1>1, <1>3, <3>2 DEF FirewallTypeOK, Commands
    <3> QED
      BY <3>1, <3>2
  <2> QED
    BY <2>1, <2>2, <2>3 DEF FirewallTypeOK
<1>5. /\ job'[m].at = 1 /\ job'[m].name = pc[m] /\ job'[m].cfg = uci
  BY <1>1, <1>2, <1>3, MonitorIsProc DEF FirewallTypeOK, Job
<1>6. HealthTypeOK' /\ OneConfiguration' /\ ChildHasParent' /\ CountFits' /\ StartsUnknown'
  BY <1>1, <1>2, <1>4, <1>5
     DEF IInv, HealthTypeOK, OneConfiguration, ForwardRule, ChildHasParent, CountFits,
         StartsUnknown, monvars
<1>7. SwitchAgrees'
  BY <1>1, <1>2, <1>5
     DEF SwitchAgrees, SwitchPosition, Open, Closed, Empty, JumpFirst, monvars
<1> QED
  BY <1>6, <1>7 DEF IInv

(* The child runs one command.                                               *)
LEMMA CommandKeepsIInv ==
    ASSUME IInv, Command(TheMonitor), UNCHANGED <<monvars, stateFile, pidFile, listening>>
    PROVE  IInv'
<1> DEFINE m == TheMonitor
           k == job[m].at
           on == pc[m] = "kill_on"
           Loop == on /\ k = 3 /\ JumpDeleted /\ UNCHANGED job
           Once == RulesAfter(k, on) /\ Advanced(m)
<1>1. /\ ~Finished(m) /\ k > 0 /\ UNCHANGED <<chains, uci>>
      /\ Loop \/ Once
  BY CommandEffect
<1>2. /\ pc[m] \in {"kill_on", "kill_off"} /\ job[m].name = pc[m] /\ job[m].cfg = uci
      /\ uci.kill_switch /\ "CAMOFOX_KILLSW" \in chains /\ SwitchPosition
      /\ Commands(m) = Script(pc[m], uci) /\ k \in Nat /\ uci \in Config
  BY <1>1, ChildRuns
<1>3. /\ rules \in [Chain -> Seq(Rule)] /\ chains \in SUBSET UserChain
      /\ \A c \in UserChain \ chains : rules[c] = <<>>
      /\ job \in [Proc -> Job]
      /\ \A q \in Proc : job[q].at <= Len(Commands(q)) + 1
      /\ rules["FORWARD"] \in Seq(ForwardRule) /\ ForwardRule \subseteq Rule
      /\ KillDrop \in Rule /\ KillReturn \in Rule
      /\ KillJump(uci) \in Rule /\ KillJump(uci) \in ForwardRule
      /\ "FORWARD" \in Chain /\ "CAMOFOX_KILLSW" \in Chain /\ "FORWARD" \notin UserChain
  BY <1>2, RuleTypes
     DEF IInv, HealthTypeOK, FirewallTypeOK, NetfilterTypeOK, OneConfiguration, ForwardRule,
         Chain, BuiltIn, UserChain
<1> HIDE DEF on, k
<1>4. /\ rules' \in [Chain -> Seq(Rule)]
      /\ rules'["REDSOCKS"] = rules["REDSOCKS"]
      /\ rules'["CAMOFOX_KILLSW"] =
            (IF Once /\ k = 1 THEN <<>>
             ELSE IF Once /\ k = 2
                  THEN Append(rules["CAMOFOX_KILLSW"], IF on THEN KillDrop ELSE KillReturn)
             ELSE rules["CAMOFOX_KILLSW"])
      /\ rules'["FORWARD"] \in Seq(ForwardRule)
      /\ Once /\ k = 4 => rules'["FORWARD"] = <<KillJump(uci)>> \o rules["FORWARD"]
  <2> DEFINE K == rules["CAMOFOX_KILLSW"]
             F == rules["FORWARD"]
  <2>0. K \in Seq(Rule) /\ F \in Seq(Rule) /\ "REDSOCKS" \in Chain
    BY <1>3 DEF Chain, UserChain
  <2>1. CASE Loop
    <3>1. PICK i \in 1..Len(F) :
             rules' = [rules EXCEPT !["FORWARD"] = SubSeq(F, 1, i - 1) \o SubSeq(F, i + 1, Len(F))]
      BY <2>1 DEF JumpDeleted
    <3>2. SubSeq(F, 1, i - 1) \o SubSeq(F, i + 1, Len(F)) \in Seq(ForwardRule)
      BY <1>3, <3>1, RemovedInSeq
    <3>3. SubSeq(F, 1, i - 1) \o SubSeq(F, i + 1, Len(F)) \in Seq(Rule)
      BY <2>0, <3>1, RemovedInSeq
    <3>4. k = 3
      BY <2>1
    <3> QED
      BY <1>3, <2>0, <3>1, <3>2, <3>3, <3>4, ChainReplaced
  <2>2. CASE Once /\ k = 1
    <3>1. rules' = [rules EXCEPT !["CAMOFOX_KILLSW"] = <<>>]
      BY <2>2 DEF RulesAfter
    <3> QED
      BY <1>3, <2>0, <2>2, <3>1, ChainReplaced
  <2>3. CASE Once /\ k = 2
    <3> DEFINE s == Append(K, IF on THEN KillDrop ELSE KillReturn)
    <3>1. rules' = [rules EXCEPT !["CAMOFOX_KILLSW"] = s] /\ s \in Seq(Rule)
      BY <1>3, <2>0, <2>3 DEF RulesAfter
    <3> QED
      BY <1>3, <2>0, <2>3, <3>1, ChainReplaced
  <2>4. CASE Once /\ k = 3
    BY <1>3, <2>4 DEF RulesAfter
  <2>5. CASE Once /\ k = 4
    <3> DEFINE s == <<KillJump(uci)>> \o F
    <3>1. rules' = [rules EXCEPT !["FORWARD"] = s]
      BY <2>5 DEF RulesAfter
    <3>2. s \in Seq(Rule) /\ s \in Seq(ForwardRule)
      BY <1>3, <2>0, Prepended
    <3> QED
      BY <1>3, <2>0, <2>5, <3>1, <3>2, ChainReplaced
  <2> QED
    BY <1>1, <2>1, <2>2, <2>3, <2>4, <2>5 DEF RulesAfter
<1>5. /\ \A c \in UserChain \ chains' : rules'[c] = <<>>
      /\ rules'["FORWARD"] \in Seq(ForwardRule')
  BY <1>1, <1>2, <1>3, <1>4 DEF ForwardRule, UserChain
<1>6. /\ job' \in [Proc -> Job]
      /\ job'[m].name = pc[m] /\ job'[m].cfg = uci
      /\ Loop => job'[m].at = k
      /\ Once => job'[m].at = k + 1
      /\ \A q \in Proc \ {m} : job'[q] = job[q]
  BY <1>1, <1>2, <1>3, MonitorIsProc DEF Advanced, k, Job
<1>7. \A q \in Proc : job'[q].at <= Len(Commands(q)') + 1
  <2> SUFFICES ASSUME NEW q \in Proc PROVE job'[q].at <= Len(Commands(q)') + 1
    OBVIOUS
  <2>1. CASE q = m
    <3>1. Commands(m)' = Commands(m)
      BY <1>2, <1>6 DEF Commands
    <3>2. Len(Commands(m)) \in Nat /\ k <= Len(Commands(m))
      BY <1>1, <1>2, KillOnScript, KillOffScript DEF Finished, k
    <3> QED
      BY <1>1, <1>2, <1>6, <2>1, <3>1, <3>2
  <2>2. CASE q # m
    BY <1>3, <1>6, <2>2 DEF Commands
  <2> QED
    BY <2>1, <2>2
<1>8. HealthTypeOK'
  BY <1>1, <1>2, <1>3, <1>4, <1>5, <1>6, <1>7
     DEF IInv, HealthTypeOK, FirewallTypeOK, NetfilterTypeOK, monvars
<1>9. OneConfiguration' /\ ChildHasParent' /\ CountFits' /\ StartsUnknown'
  BY <1>1, <1>2, <1>5, <1>6
     DEF IInv, OneConfiguration, ChildHasParent, CountFits, StartsUnknown, monvars
<1>10. SwitchPosition'
  <2>1. CASE Loop
    BY <1>1, <1>2, <1>4, <1>6, <2>1 DEF SwitchPosition, Open, Closed, Empty, JumpFirst, monvars, on, k
  <2>2. CASE Once /\ on
    <3>1. k \in 1..4 /\ pc'[m] = "kill_on" /\ stateFile' # "down" /\ job'[m].at = k + 1
      BY <1>2, <1>6, <2>2 DEF RulesAfter, on, monvars, SwitchPosition
    <3>2. /\ k = 1 => Empty'
          /\ k = 2 => Closed'
          /\ k \in {3, 4} => Closed'
      <4>1. k = 1 => Empty'
        BY <1>4, <2>2 DEF Empty
      <4>2. ASSUME k = 2 PROVE Closed'
        <5>1. rules["CAMOFOX_KILLSW"] = <<>>
          BY <1>2, <2>2, <4>2 DEF SwitchPosition, Empty, on, k
        <5> QED
          BY <1>4, <2>2, <4>2, <5>1 DEF Closed
      <4>3. k \in {3, 4} => Closed'
        BY <1>2, <1>4, <2>2 DEF SwitchPosition, Closed, on, k
      <4> QED
        BY <4>1, <4>2, <4>3
    <3>3. k = 4 => JumpFirst'
      BY <1>1, <1>3, <1>4, <2>2, Prepended DEF JumpFirst
    <3> QED
      BY <3>1, <3>2, <3>3 DEF SwitchPosition
  <2>3. CASE Once /\ ~on
    <3>1. k \in 1..2 /\ pc'[m] = "kill_off" /\ job'[m].at = k + 1
      BY <1>2, <1>6, <2>3 DEF RulesAfter, on, monvars
    <3>2. k = 1 => Empty'
      BY <1>4, <2>3 DEF Empty
    <3>3. ASSUME k = 2 PROVE Open'
      <4>1. rules["CAMOFOX_KILLSW"] = <<>>
        BY <1>2, <2>3, <3>3 DEF SwitchPosition, Empty, on, k
      <4> QED
        BY <1>4, <2>3, <3>3, <4>1 DEF Open
    <3> QED
      BY <3>1, <3>2, <3>3 DEF SwitchPosition
  <2> QED
    BY <1>1, <2>1, <2>2, <2>3
<1> QED
  BY <1>1, <1>2, <1>8, <1>9, <1>10 DEF IInv, SwitchAgrees

(* The invariant is inductive.                                               *)
LEMMA Inductive == IInv /\ [Next]_vars => IInv'
<1> SUFFICES ASSUME IInv, [Next]_vars PROVE IInv'
  OBVIOUS
<1>1. CASE LoadConfig(TheMonitor) /\ UNCHANGED <<monvars, stateFile, pidFile, listening>>
  BY <1>1, LoadKeepsIInv
<1>2. CASE Command(TheMonitor) /\ UNCHANGED <<monvars, stateFile, pidFile, listening>>
  BY <1>2, CommandKeepsIInv
<1>3. CASE MonitorStep(TheMonitor)
  <2>1. CASE Restore(TheMonitor) /\ Call(TheMonitor, "kill_off")
    BY <2>1, CallKeepsIInv
  <2>2. CASE ProxyBad(TheMonitor) /\ Call(TheMonitor, "kill_on")
    BY <2>2, CallKeepsIInv
  <2>3. CASE UNCHANGED fwvars
    BY <1>3, <2>3, MonitorKeepsIInv DEF MonitorStep
  <2> QED
    BY <1>3, <2>1, <2>2, <2>3
       DEF MonitorStep, Load, WritePid, Starting, Probe, ProxyOk, Restore, ChildDone, SetUp,
           ProxyBad, SetDown
<1>4. CASE ProxyChanges \/ UNCHANGED vars
  <2>1. /\ UNCHANGED fwvars /\ UNCHANGED <<monvars, stateFile, pidFile>>
        /\ listening \in SUBSET ProxyIP => listening' \in SUBSET ProxyIP
    BY <1>4 DEF ProxyChanges, vars, fwvars, monvars
  <2>2. /\ FirewallTypeOK' /\ uci' = uci /\ job' = job /\ chains' = chains
        /\ Finished(TheMonitor)' <=> Finished(TheMonitor)
        /\ (Open' <=> Open) /\ (Closed' <=> Closed) /\ (Empty' <=> Empty)
        /\ JumpFirst' <=> JumpFirst
        /\ rules'["FORWARD"] \in Seq(ForwardRule')
    BY <2>1, NothingRan
  <2> QED
    BY <2>1, <2>2
       DEF monvars, IInv, HealthTypeOK, OneConfiguration, ChildHasParent, CountFits, SwitchAgrees,
           SwitchPosition, StartsUnknown
<1> QED
  BY <1>1, <1>2, <1>3, <1>4 DEF Next, ScriptStep

(* IInv holds in every reachable state: the configuration snapshots agree,   *)
(* every running script has a waiting monitor, and the kill chain holds at   *)
(* every step what the monitor's position and the state file say             *)
(* (health_check.sh:133-175 with firewall.rules:160-177).                    *)
THEOREM InvariantHolds == SafeSpec => []IInv
<1>1. Init => IInv
  BY InitIInv
<1>2. IInv /\ [Next]_vars => IInv'
  BY Inductive
<1> QED
  BY <1>1, <1>2, PTL DEF SafeSpec

(* Type correctness of the single monitor and of the scripts it runs         *)
(* (health_check.sh, firewall.rules).                                        *)
THEOREM TypeCorrect == SafeSpec => []HealthTypeOK
<1>1. IInv => HealthTypeOK
  BY DEF IInv
<1> QED
  BY <1>1, InvariantHolds, PTL

-----------------------------------------------------------------------------
(* What is dropped.                                                          *)

(* While the kill chain does not drop, only DNS is dropped.                  *)
OnlyDnsDropped ==
    \A lan \in Lan : \A kind \in PacketKind \ {"dns"} : ~Dropped(lan, kind)

(* While the kill chain does not drop, FORWARD drops nothing but DNS. *)
LEMMA OpenDropsOnlyDns == IInv /\ ~KillChainDrops => OnlyDnsDropped
<1> SUFFICES ASSUME IInv, ~KillChainDrops, NEW lan \in Lan, NEW kind \in PacketKind \ {"dns"},
                    NEW i \in 1..Len(rules["FORWARD"]),
                    Matches(rules["FORWARD"][i], lan, kind), Drops(rules["FORWARD"][i])
             PROVE  FALSE
  BY DEF OnlyDnsDropped, Dropped
<1>1. rules["FORWARD"][i] \in ForwardRule
  BY DEF IInv, OneConfiguration
<1>2. rules["FORWARD"][i] # EstAccept(uci) /\ rules["FORWARD"][i] # KillJump(uci)
  BY DEF Drops, EstAccept, KillJump, Rl
<1>3. ~Matches(DnsDrop(uci), lan, kind)
  BY DEF Matches, DnsDrop, Rl, PacketKind
<1> QED
  BY <1>1, <1>2, <1>3 DEF ForwardRule

(* While it drops and the jump to it comes first, everything is.             *)
LEMMA ClosedDropsAll ==
    IInv /\ Closed /\ JumpFirst => AllBlocked(uci.lan)
<1> SUFFICES ASSUME IInv, Closed, JumpFirst, NEW kind \in PacketKind
             PROVE  Dropped(uci.lan, kind)
  BY DEF AllBlocked
<1>1. KillChainDrops
  BY DEF Closed, KillChainDrops, KillDrop, Rl
<1>2. Matches(KillJump(uci), uci.lan, kind) /\ Drops(KillJump(uci))
  BY <1>1 DEF Matches, Drops, KillJump, Rl
<1>3. 1 \in 1..Len(rules["FORWARD"])
  BY DEF JumpFirst, IInv, OneConfiguration
<1> QED
  BY <1>2, <1>3 DEF Dropped, JumpFirst

(* An open or empty chain drops nothing. *)
LEMMA NotClosedOpens == Open \/ Empty => ~KillChainDrops
BY DEF Open, Empty, KillChainDrops, KillReturn, Rl

(* For every configuration and threshold: while the monitor sleeps, the      *)
(* state file says "down" under an armed switch exactly when everything from *)
(* the LAN is dropped (health_check.sh:142-174, firewall.rules:160-177).     *)
THEOREM StateFileIsTrue == SafeSpec => []StateFileTellsTruth
<1>1. IInv => StateFileTellsTruth
  <2> SUFFICES ASSUME IInv, pc[TheMonitor] = "check"
               PROVE  IF uci.kill_switch /\ stateFile = "down"
                      THEN AllBlocked(uci.lan)
                      ELSE \A kind \in PacketKind \ {"dns"} : ~Dropped(uci.lan, kind)
    BY DEF StateFileTellsTruth
  <2>1. CASE uci.kill_switch /\ stateFile = "down"
    <3>1. Closed /\ JumpFirst
      BY <2>1 DEF IInv, SwitchAgrees, SwitchPosition
    <3> QED
      BY <2>1, <3>1, ClosedDropsAll
  <2>2. CASE ~(uci.kill_switch /\ stateFile = "down")
    <3>1. Open \/ Empty
      BY <2>2 DEF IInv, SwitchAgrees, SwitchPosition
    <3>2. uci.lan \in Lan
      BY ConfigAssumption DEF IInv, HealthTypeOK, FirewallTypeOK, ConfigType
    <3> QED
      BY <2>2, <3>1, <3>2, NotClosedOpens, OpenDropsOnlyDns DEF OnlyDnsDropped
  <2> QED
    BY <2>1, <2>2
<1> QED
  BY <1>1, InvariantHolds, PTL

(* For every configuration and threshold: no step starts to drop traffic but *)
(* one of a kill_on whose monitor has counted FailThreshold failed probes    *)
(* (health_check.sh:160-166).                                                *)
THEOREM OnlyThresholdBlocks == SafeSpec => BlocksOnlyAfterThreshold
<1> DEFINE A == \A lan \in Lan : ~Dropped(lan, "udp") /\ Dropped(lan, "udp")' =>
                   \E m \in Monitor : /\ job[m].name = "kill_on" /\ ~Finished(m)
                                      /\ fail[m] = FailThreshold
<1>1. IInv /\ IInv' /\ [Next]_vars => [A]_vars
  <2> SUFFICES ASSUME IInv, IInv', [Next]_vars, NEW lan \in Lan,
                      ~Dropped(lan, "udp"), Dropped(lan, "udp")'
               PROVE  \E m \in Monitor : /\ job[m].name = "kill_on" /\ ~Finished(m)
                                         /\ fail[m] = FailThreshold
    OBVIOUS
  <2>1. rules' # rules
    BY DEF Dropped, Matches, Drops, Decides, KillChainDrops
  <2>2. Command(TheMonitor) /\ UNCHANGED <<monvars, stateFile, pidFile, listening>>
    BY <2>1 DEF Next, vars, ScriptStep, LoadConfig, MonitorStep, Load, WritePid, Starting, Probe,
         ProxyOk, Restore, ChildDone, SetUp, ProxyBad, SetDown, ProxyChanges, fwvars, Call
  <2>3. ~Finished(TheMonitor)
    BY <2>2 DEF Command
  <2>4. pc[TheMonitor] # "kill_off"
    <3> SUFFICES ASSUME pc[TheMonitor] = "kill_off" PROVE FALSE
      OBVIOUS
    <3>1. Open' \/ Empty'
      <4>1. pc'[TheMonitor] = "kill_off" /\ uci' = uci /\ uci.kill_switch
        BY <2>2, <2>3, ChildRuns, CommandEffect DEF monvars
      <4>2. SwitchPosition'
        BY <4>1 DEF IInv, SwitchAgrees
      <4>3. job'[TheMonitor].at \in {2, 3}
        BY <2>2, <2>3, ChildRuns, CommandEffect DEF Advanced, RulesAfter
      <4> QED
        BY <4>1, <4>2, <4>3 DEF SwitchPosition
    <3>2. ~KillChainDrops'
      BY <3>1, NotClosedOpens, PTL
    <3>3. OnlyDnsDropped'
      BY <3>2, OpenDropsOnlyDns, PTL
    <3> QED
      BY <3>3 DEF OnlyDnsDropped, PacketKind
  <2>5. job[TheMonitor].name = "kill_on" /\ fail[TheMonitor] = FailThreshold
    BY <2>3, <2>4, ChildRuns DEF IInv, CountFits
  <2> QED
    BY <2>3, <2>5
<1> QED
  BY <1>1, InvariantHolds, PTL DEF SafeSpec, BlocksOnlyAfterThreshold

-----------------------------------------------------------------------------
(* The refinement.                                                           *)

(* When the switch counts as engaged, from the monitor's point of view.      *)
EngagedByPc ==
    /\ uci.kill_switch
    /\ \/ pc[TheMonitor] = "kill_on" /\ job[TheMonitor].at = 5
       \/ pc[TheMonitor] = "set_down"
       \/ pc[TheMonitor] \notin {"kill_on", "kill_off", "set_up"} /\ stateFile = "down"

(* Where the monitor is when the abstract switch counts as engaged. *)
LEMMA EngagedWhen == IInv => (SwitchEngaged <=> EngagedByPc)
<1> SUFFICES ASSUME IInv PROVE SwitchEngaged <=> EngagedByPc
  OBVIOUS
<1> DEFINE m == TheMonitor
<1>1. /\ ~(Closed /\ Open) /\ ~(Closed /\ Empty)
      /\ SwitchEngaged <=> JumpFirst /\ Closed /\ Finished(m)
  BY DEF SwitchEngaged, JumpFirst, Closed, Open, Empty, KillDrop, KillReturn, Rl
<1>2. CASE ~uci.kill_switch
  BY <1>1, <1>2 DEF IInv, SwitchAgrees, EngagedByPc
<1>3. CASE uci.kill_switch /\ pc[m] = "kill_on"
  <2>1. SwitchPosition /\ pc[m] = "kill_on"
    BY <1>3 DEF IInv, SwitchAgrees
  <2>2. Finished(m) <=> job[m].at = 5
    <3>1. Len(Commands(m)) = 4
      BY <1>3, KillOnScript DEF IInv, ChildHasParent, Commands
    <3>2. Finished(m) => job[m].at = 5
      BY <1>3, ChildEnds
    <3> QED
      BY <3>1, <3>2 DEF Finished
  <2>3. job[m].at = 5 => Closed /\ JumpFirst
    BY <2>1 DEF SwitchPosition
  <2> QED
    BY <1>1, <1>3, <2>2, <2>3 DEF EngagedByPc
<1>4. CASE uci.kill_switch /\ pc[m] = "kill_off"
  <2>1. Finished(m) => job[m].at = 3
    BY <1>4, ChildEnds
  <2>2. Finished(m) => Open
    BY <1>4, <2>1 DEF IInv, SwitchAgrees, SwitchPosition
  <2> QED
    BY <1>1, <1>4, <2>2 DEF EngagedByPc
<1>5. CASE uci.kill_switch /\ pc[m] \notin {"kill_on", "kill_off"}
  BY <1>1, <1>5
     DEF IInv, ChildHasParent, SwitchAgrees, SwitchPosition, EngagedByPc
<1> QED
  BY <1>2, <1>3, <1>4, <1>5

(* A step of the abstract switch, in the monitor's terms.                    *)
AbstractStep ==
    /\ UNCHANGED uci
    /\ \/ /\ EngagedByPc' <=> EngagedByPc
          /\ MonitorMisses' \in
                {MonitorMisses, 0,
                 IF MonitorMisses < FailThreshold THEN MonitorMisses + 1 ELSE MonitorMisses}
       \/ /\ uci.kill_switch /\ MonitorMisses = FailThreshold /\ MonitorMisses' = MonitorMisses
          /\ ~EngagedByPc /\ EngagedByPc'
       \/ /\ MonitorMisses = 0 /\ MonitorMisses' = 0
          /\ EngagedByPc /\ ~EngagedByPc'

(* Each kind of abstract step is a step of KillSwitch or a stutter. *)
LEMMA AbstractStepMaps == IInv /\ IInv' /\ AbstractStep => [KS!Next]_(KS!vars)
<1> SUFFICES ASSUME IInv, IInv', AbstractStep PROVE [KS!Next]_(KS!vars)
  OBVIOUS
<1>1. (SwitchEngaged <=> EngagedByPc) /\ (SwitchEngaged' <=> EngagedByPc')
  BY EngagedWhen, PTL
<1>2. SwitchEngaged \in BOOLEAN /\ SwitchEngaged' \in BOOLEAN
  BY DEF SwitchEngaged
<1>3. CASE EngagedByPc' <=> EngagedByPc
  <2>1. SwitchEngaged' = SwitchEngaged
    BY <1>1, <1>2, <1>3
  <2> QED
    BY <1>3, <2>1 DEF AbstractStep, KS!Next, KS!vars, KS!Hit, KS!Miss
<1>4. CASE ~EngagedByPc /\ EngagedByPc'
  <2>1. SwitchEngaged' = TRUE /\ ~SwitchEngaged
    BY <1>1, <1>2, <1>4
  <2> QED
    BY <1>4, <2>1 DEF AbstractStep, KS!Next, KS!Engage
<1>5. CASE EngagedByPc /\ ~EngagedByPc'
  <2>1. SwitchEngaged' = FALSE /\ SwitchEngaged
    BY <1>1, <1>2, <1>5
  <2> QED
    BY <1>5, <2>1 DEF AbstractStep, KS!Next, KS!Release
<1> QED
  BY <1>3, <1>4, <1>5

(* Every step of the monitor, of its scripts and of the proxy is a step of   *)
(* the abstract switch, or a stutter.                                        *)
LEMMA StepIsAbstract == IInv /\ IInv' /\ [Next]_vars => AbstractStep
<1> SUFFICES ASSUME IInv, IInv', [Next]_vars PROVE AbstractStep
  OBVIOUS
<1> DEFINE m == TheMonitor
<1> USE DEF AbstractStep
<1>2. /\ pc \in [Monitor -> PC] /\ fail \in [Monitor -> 0..FailThreshold]
      /\ stateFile \in {"unknown", "starting", "up", "down"}
      /\ mcfg[m] = uci /\ FailThreshold \in Nat \ {0}
  BY ThresholdAssumption DEF IInv, HealthTypeOK, OneConfiguration
<1>3. CASE /\ UNCHANGED <<uci, job>> /\ MonitorStep(m)
         /\ ~Call(m, "kill_on") /\ ~Call(m, "kill_off")
  <2>1. CASE Load(m) \/ WritePid(m)
    BY <1>2, <1>3, <2>1 DEF Load, WritePid, Goto, EngagedByPc, MonitorMisses
  <2>2. CASE Starting(m)
    BY <1>2, <1>3, <2>2
       DEF Starting, Goto, EngagedByPc, MonitorMisses, IInv, CountFits, StartsUnknown
  <2>3. CASE Probe(m)
    BY <1>2, <1>3, <2>3 DEF Probe, Goto, EngagedByPc, MonitorMisses
  <2>4. CASE ProxyOk(m)
    BY <1>2, <1>3, <2>4 DEF ProxyOk, Goto, EngagedByPc, MonitorMisses
  <2>5. CASE Restore(m)
    BY <1>2, <1>3, <2>5 DEF Restore, Goto, EngagedByPc, MonitorMisses
  <2>6. CASE ChildDone(m)
    <3>1. pc[m] = "kill_on" => job[m].at = 5
      BY <2>6, ChildEnds DEF ChildDone
    <3> QED
      BY <1>2, <1>3, <2>6, <3>1 DEF ChildDone, Goto, EngagedByPc, MonitorMisses
  <2>7. CASE SetUp(m)
    BY <1>2, <1>3, <2>7 DEF SetUp, Goto, EngagedByPc, MonitorMisses
  <2>8. CASE ProxyBad(m)
    BY <1>2, <1>3, <2>8 DEF ProxyBad, Goto, EngagedByPc, MonitorMisses
  <2>9. CASE SetDown(m)
    BY <1>2, <1>3, <2>9 DEF SetDown, Goto, EngagedByPc, MonitorMisses
  <2> QED
    BY <1>3, <2>1, <2>2, <2>3, <2>4, <2>5, <2>6, <2>7, <2>8, <2>9 DEF MonitorStep
<1>4. CASE Restore(m) /\ Call(m, "kill_off")
  <2>1. UNCHANGED uci /\ Finished(m) /\ job'[m].at = 0
    BY <1>4, CallStarts
  <2> QED
    BY <1>2, <1>4, <2>1 DEF Restore, Goto, EngagedByPc, MonitorMisses
<1>5. CASE ProxyBad(m) /\ Call(m, "kill_on")
  <2>1. UNCHANGED uci /\ Finished(m) /\ job'[m].at = 0
    BY <1>5, CallStarts
  <2> QED
    BY <1>2, <1>5, <2>1 DEF ProxyBad, Goto, EngagedByPc, MonitorMisses
<1>6. CASE LoadConfig(m) /\ UNCHANGED <<monvars, stateFile, pidFile, listening>>
  <2>1. UNCHANGED uci /\ job[m].at = 0 /\ job'[m].at = 1
    BY <1>6, LoadEffect, MonitorIsProc DEF IInv, HealthTypeOK, FirewallTypeOK, Job
  <2> QED
    BY <1>6, <2>1 DEF EngagedByPc, MonitorMisses, monvars
<1>7. CASE Command(m) /\ UNCHANGED <<monvars, stateFile, pidFile, listening>>
  <2>1. /\ ~Finished(m) /\ UNCHANGED uci
        /\ \/ pc[m] = "kill_on" /\ job[m].at = 3 /\ UNCHANGED job
           \/ job[m].at \in 1..4 /\ job'[m].at = job[m].at + 1
    BY <1>7, CommandEffect DEF RulesAfter, Advanced
  <2>2. uci.kill_switch /\ (pc[m] = "kill_on" => fail[m] = FailThreshold)
        /\ pc[m] \in {"kill_on", "kill_off"}
    BY <2>1, ChildRuns DEF IInv, CountFits
  <2> QED
    BY <1>7, <2>1, <2>2 DEF EngagedByPc, MonitorMisses, monvars
<1>8. CASE ProxyChanges \/ UNCHANGED vars
  BY <1>8 DEF ProxyChanges, vars, fwvars, monvars, EngagedByPc, MonitorMisses
<1>9. MonitorStep(m) =>
        \/ /\ UNCHANGED <<uci, job>>
           /\ ~Call(m, "kill_on") /\ ~Call(m, "kill_off")
        \/ Restore(m) /\ Call(m, "kill_off")
        \/ ProxyBad(m) /\ Call(m, "kill_on")
  <2>1. ASSUME NEW name \in {"kill_on", "kill_off"}, Call(m, name)
        PROVE  ~UNCHANGED fwvars
    <3> SUFFICES ASSUME UNCHANGED fwvars PROVE FALSE
      OBVIOUS
    <3>1. ~Finished(m)' /\ Finished(m)
      BY <2>1, CallStarts
    <3> QED
      BY <3>1, NothingRan
  <2> QED
    BY <2>1
       DEF MonitorStep, Load, WritePid, Starting, Probe, ProxyOk, Restore, ChildDone, SetUp,
           ProxyBad, SetDown, fwvars
<1> QED
  BY <1>3, <1>4, <1>5, <1>6, <1>7, <1>8, <1>9 DEF Next, ScriptStep

(* For every configuration and threshold, the monitor with its scripts       *)
(* (health_check.sh:133-175, firewall.rules:160-177) is the abstract kill    *)
(* switch: it engages only after Threshold misses in a row, with the switch  *)
(* armed, and releases only after a hit.                                     *)
THEOREM SafelyImplements == SafeSpec => KS!SafeSpec
<1>1. Init => KS!Init
  <2> SUFFICES ASSUME Init PROVE KS!Init
    OBVIOUS
  <2>1. IInv /\ uci \in Config /\ pc[TheMonitor] = "load" /\ fail[TheMonitor] = 0
    BY InitIInv DEF Init
  <2>2. ~SwitchEngaged
    BY <2>1, EngagedWhen DEF Init, EngagedByPc
  <2>3. uci.kill_switch \in BOOLEAN
    BY <2>1, ConfigAssumption DEF ConfigType
  <2> QED
    BY <2>1, <2>2, <2>3 DEF KS!Init, MonitorMisses
<1> QED
  BY <1>1, StepIsAbstract, AbstractStepMaps, InvariantHolds, PTL DEF SafeSpec, KS!SafeSpec
=============================================================================
