---------------------------- MODULE Router_proof ----------------------------
(***************************************************************************)
(* Proofs about the firewall script, used by one process at a time, and    *)
(* about the router as a whole: for any LANs, addresses, monitors and      *)
(* configurations, and any number of commands and ifup events.             *)
(***************************************************************************)
EXTENDS Router, SequenceTheorems, FiniteSetTheorems, WellFoundedInduction, TLAPS

-----------------------------------------------------------------------------
(* The commands of the scripts.                                            *)

CommandType == [op : Op, chain : Chain, rule : Rule]

LEMMA RulesAreRules ==
    ASSUME NEW c \in ConfigType
    PROVE  /\ {RedsocksJump(c), PrivateReturn, ProxyReturn(c), Redirect, TtlRule(c)} \subseteq Rule
           /\ {DnsUdpAccept(c), DnsTcpAccept(c), DnsDrop(c), EstAccept(c)} \subseteq Rule
           /\ {KillJump(c), KillDrop, KillReturn, NoRule} \subseteq Rule
BY DEF ConfigType, Rule, Match, Target, UserChain, Rl, RedsocksJump, PrivateReturn, ProxyReturn,
   Redirect, TtlRule, DnsUdpAccept, DnsTcpAccept, DnsDrop, EstAccept, KillJump, KillDrop,
   KillReturn, NoRule

LEMMA RemoveCommands ==
    ASSUME NEW c
    PROVE  /\ Len(RemoveRules(c)) = 11
           /\ RemoveRules(c)[1] = Cm("D*", "PREROUTING", RedsocksJump(c))
           /\ RemoveRules(c)[2] = Cm("F", "REDSOCKS", NoRule)
           /\ RemoveRules(c)[3] = Cm("X", "REDSOCKS", NoRule)
           /\ RemoveRules(c)[4] = Cm("D*", "POSTROUTING", TtlRule(c))
           /\ RemoveRules(c)[5] = Cm("D*", "FORWARD", DnsDrop(c))
           /\ RemoveRules(c)[6] = Cm("D*", "INPUT", DnsUdpAccept(c))
           /\ RemoveRules(c)[7] = Cm("D*", "INPUT", DnsTcpAccept(c))
           /\ RemoveRules(c)[8] = Cm("D*", "FORWARD", EstAccept(c))
           /\ RemoveRules(c)[9] = Cm("D*", "FORWARD", KillJump(c))
           /\ RemoveRules(c)[10] = Cm("F", "CAMOFOX_KILLSW", NoRule)
           /\ RemoveRules(c)[11] = Cm("X", "CAMOFOX_KILLSW", NoRule)
BY DEF RemoveRules

LEMMA KillCommands ==
    ASSUME NEW c
    PROVE  /\ Len(ActivateKillSwitch(c)) = 4
           /\ ActivateKillSwitch(c)[1] = Cm("F", "CAMOFOX_KILLSW", NoRule)
           /\ ActivateKillSwitch(c)[2] = Cm("A", "CAMOFOX_KILLSW", KillDrop)
           /\ ActivateKillSwitch(c)[3] = Cm("D*", "FORWARD", KillJump(c))
           /\ ActivateKillSwitch(c)[4] = Cm("I", "FORWARD", KillJump(c))
           /\ Len(DeactivateKillSwitch(c)) = 2
           /\ DeactivateKillSwitch(c)[1] = Cm("F", "CAMOFOX_KILLSW", NoRule)
           /\ DeactivateKillSwitch(c)[2] = Cm("A", "CAMOFOX_KILLSW", KillReturn)
BY DEF ActivateKillSwitch, DeactivateKillSwitch

LEMMA CmIs ==
    ASSUME NEW op, NEW chain, NEW rule
    PROVE  /\ Cm(op, chain, rule).op = op
           /\ Cm(op, chain, rule).chain = chain
           /\ Cm(op, chain, rule).rule = rule
BY DEF Cm

LEMMA CmType ==
    ASSUME NEW op \in Op, NEW chain \in Chain, NEW rule \in Rule
    PROVE  Cm(op, chain, rule) \in CommandType
BY DEF Cm, CommandType

LEMMA RemoveType ==
    ASSUME NEW c \in ConfigType
    PROVE  RemoveRules(c) \in Seq(CommandType)
BY RulesAreRules, CmType DEF RemoveRules, Op, Chain, BuiltIn, UserChain

(* The first part of apply_rules, after remove_rules; and the rest.          *)
Redsocks(c) ==
    << Cm("N", "REDSOCKS", NoRule), Cm("A", "REDSOCKS", PrivateReturn),
       Cm("A", "REDSOCKS", ProxyReturn(c)), Cm("A", "REDSOCKS", Redirect),
       Cm("A", "PREROUTING", RedsocksJump(c)) >>

(* Commands that leave REDSOCKS alone.                                       *)
Elsewhere == {x \in CommandType : x.chain # "REDSOCKS"}

LEMMA Others ==
    ASSUME NEW c \in ConfigType
    PROVE  /\ When(c.ttl_enabled, << Cm("A", "POSTROUTING", TtlRule(c)) >>) \in Seq(Elsewhere)
           /\ When(c.doh, << Cm("I", "INPUT", DnsUdpAccept(c)), Cm("I", "INPUT", DnsTcpAccept(c)),
                             Cm("A", "FORWARD", DnsDrop(c)) >>) \in Seq(Elsewhere)
           /\ When(c.kill_switch, << Cm("N|F", "CAMOFOX_KILLSW", NoRule),
                                     Cm("A", "CAMOFOX_KILLSW", KillReturn),
                                     Cm("I", "FORWARD", EstAccept(c)) >>) \in Seq(Elsewhere)
<1>1. ASSUME NEW op \in Op, NEW chain \in Chain \ {"REDSOCKS"}, NEW rule \in Rule
      PROVE  Cm(op, chain, rule) \in Elsewhere
  BY <1>1 DEF Cm, CommandType, Elsewhere
<1>2. /\ {"A", "I", "N|F"} \subseteq Op
      /\ {"POSTROUTING", "INPUT", "FORWARD", "CAMOFOX_KILLSW"} \subseteq Chain \ {"REDSOCKS"}
  BY DEF Op, Chain, BuiltIn, UserChain
<1>3. << Cm("A", "POSTROUTING", TtlRule(c)) >> \in Seq(Elsewhere)
  BY <1>1, <1>2, RulesAreRules
<1>4. << Cm("I", "INPUT", DnsUdpAccept(c)), Cm("I", "INPUT", DnsTcpAccept(c)),
         Cm("A", "FORWARD", DnsDrop(c)) >> \in Seq(Elsewhere)
  BY <1>1, <1>2, RulesAreRules
<1>5. << Cm("N|F", "CAMOFOX_KILLSW", NoRule), Cm("A", "CAMOFOX_KILLSW", KillReturn),
         Cm("I", "FORWARD", EstAccept(c)) >> \in Seq(Elsewhere)
  BY <1>1, <1>2, RulesAreRules
<1>6. <<>> \in Seq(Elsewhere)
  OBVIOUS
<1> QED
  BY <1>3, <1>4, <1>5, <1>6 DEF When

(* remove_rules, the five commands of REDSOCKS, and then only commands that  *)
(* leave it alone.                                                           *)
LEMMA ApplyCommands ==
    ASSUME NEW c \in ConfigType
    PROVE  \E others \in Seq(Elsewhere) : ApplyRules(c) = (RemoveRules(c) \o Redsocks(c)) \o others
<1> DEFINE a == RemoveRules(c) \o Redsocks(c)
           x == When(c.ttl_enabled, << Cm("A", "POSTROUTING", TtlRule(c)) >>)
           y == When(c.doh, << Cm("I", "INPUT", DnsUdpAccept(c)), Cm("I", "INPUT", DnsTcpAccept(c)),
                              Cm("A", "FORWARD", DnsDrop(c)) >>)
           z == When(c.kill_switch, << Cm("N|F", "CAMOFOX_KILLSW", NoRule),
                                      Cm("A", "CAMOFOX_KILLSW", KillReturn),
                                      Cm("I", "FORWARD", EstAccept(c)) >>)
<1>1. ApplyRules(c) = ((a \o x) \o y) \o z
  BY DEF ApplyRules, Redsocks
<1>2. /\ x \in Seq(Elsewhere) /\ y \in Seq(Elsewhere) /\ z \in Seq(Elsewhere)
  BY Others
<1>3. Redsocks(c) \in Seq(CommandType)
  BY RulesAreRules, CmType DEF Redsocks, Op, Chain, BuiltIn, UserChain
<1>4. a \in Seq(CommandType)
  BY <1>3, RemoveType, ConcatProperties
<1> HIDE DEF a, x, y, z
<1>5. /\ x \in Seq(CommandType) /\ y \in Seq(CommandType) /\ z \in Seq(CommandType)
  BY <1>2 DEF Elsewhere
<1>6. ((a \o x) \o y) \o z = a \o ((x \o y) \o z)
  <2>1. x \o y \in Seq(CommandType)
    BY <1>5, ConcatProperties
  <2>2. (a \o x) \o y = a \o (x \o y)
    BY <1>4, <1>5, ConcatAssociative
  <2>3. (a \o (x \o y)) \o z = a \o ((x \o y) \o z)
    BY <1>4, <1>5, <2>1, ConcatAssociative
  <2> QED
    BY <2>2, <2>3
<1>7. (x \o y) \o z \in Seq(Elsewhere)
  BY <1>2, ConcatProperties
<1> QED
  BY <1>1, <1>6, <1>7 DEF a

(* What the proofs need to know of each command of apply_rules.              *)
LEMMA ApplyIsThis ==
    ASSUME NEW c \in ConfigType
    PROVE  /\ ApplyRules(c) \in Seq(CommandType)
           /\ Len(ApplyRules(c)) >= 16
           /\ ApplyRules(c)[2] = Cm("F", "REDSOCKS", NoRule)
           /\ ApplyRules(c)[3] = Cm("X", "REDSOCKS", NoRule)
           /\ ApplyRules(c)[12] = Cm("N", "REDSOCKS", NoRule)
           /\ ApplyRules(c)[13] = Cm("A", "REDSOCKS", PrivateReturn)
           /\ ApplyRules(c)[14] = Cm("A", "REDSOCKS", ProxyReturn(c))
           /\ ApplyRules(c)[15] = Cm("A", "REDSOCKS", Redirect)
           /\ \A k \in 1..Len(ApplyRules(c)) :
                k \notin {2, 3, 12, 13, 14, 15} => ApplyRules(c)[k].chain # "REDSOCKS"
<1> DEFINE a == RemoveRules(c)
           b == Redsocks(c)
<1>1. PICK others \in Seq(Elsewhere) : ApplyRules(c) = (a \o b) \o others
  BY ApplyCommands
<1>2. a \in Seq(CommandType) /\ Len(a) = 11
  BY RemoveType, RemoveCommands
<1>3. b \in Seq(CommandType) /\ Len(b) = 5
  BY RulesAreRules, CmType DEF Redsocks, Op, Chain, BuiltIn, UserChain
<1>4. others \in Seq(CommandType)
  BY <1>1, SeqMonotonic DEF Elsewhere
<1>5. /\ b[1] = Cm("N", "REDSOCKS", NoRule) /\ b[2] = Cm("A", "REDSOCKS", PrivateReturn)
      /\ b[3] = Cm("A", "REDSOCKS", ProxyReturn(c)) /\ b[4] = Cm("A", "REDSOCKS", Redirect)
      /\ b[5] = Cm("A", "PREROUTING", RedsocksJump(c))
  BY DEF Redsocks
<1>6. \A k \in 1..Len(others) : others[k].chain # "REDSOCKS"
  BY <1>1, ElementOfSeq DEF Elsewhere
<1>7. \A k \in 1..11 : k \notin {2, 3} => a[k].chain # "REDSOCKS"
  BY RemoveCommands, CmIs
<1>8. b[5].chain # "REDSOCKS"
  BY <1>5, CmIs
<1>9. a[2] = Cm("F", "REDSOCKS", NoRule) /\ a[3] = Cm("X", "REDSOCKS", NoRule)
  BY RemoveCommands
<1> HIDE DEF a, b
<1>10. /\ a \o b \in Seq(CommandType) /\ Len(a \o b) = 16
       /\ \A k \in 1..16 : (a \o b)[k] = IF k <= 11 THEN a[k] ELSE b[k - 11]
  <2>1. /\ a \o b \in Seq(CommandType) /\ Len(a \o b) = Len(a) + Len(b)
        /\ \A k \in 1..(Len(a) + Len(b)) :
             (a \o b)[k] = IF k <= Len(a) THEN a[k] ELSE b[k - Len(a)]
    BY <1>2, <1>3, ConcatProperties
  <2>2. Len(a) = 11 /\ Len(b) = 5 /\ Len(a) + Len(b) = 16
    BY <1>2, <1>3
  <2> QED
    BY ONLY <2>1, <2>2
<1>11. /\ ApplyRules(c) \in Seq(CommandType)
       /\ Len(ApplyRules(c)) = 16 + Len(others) /\ Len(others) \in Nat
       /\ \A k \in 1..(16 + Len(others)) :
            ApplyRules(c)[k] = IF k <= 16 THEN (a \o b)[k] ELSE others[k - 16]
  <2> DEFINE d == a \o b
  <2>1. d \in Seq(CommandType) /\ Len(d) = 16
    BY <1>10
  <2> HIDE DEF d
  <2>2. /\ d \o others \in Seq(CommandType) /\ Len(d \o others) = Len(d) + Len(others)
        /\ \A k \in 1..(Len(d) + Len(others)) :
             (d \o others)[k] = IF k <= Len(d) THEN d[k] ELSE others[k - Len(d)]
    BY <2>1, <1>4, ConcatProperties
  <2>3. Len(others) \in Nat
    BY <1>4, LenProperties
  <2>4. ApplyRules(c) = d \o others
    BY <1>1 DEF d
  <2>5. /\ ApplyRules(c) \in Seq(CommandType) /\ Len(ApplyRules(c)) = 16 + Len(others)
        /\ \A k \in 1..(16 + Len(others)) :
             ApplyRules(c)[k] = IF k <= 16 THEN d[k] ELSE others[k - 16]
    BY ONLY <2>1, <2>2, <2>4
  <2> QED
    BY <2>3, <2>5 DEF d
<1>12. /\ \A k \in 1..11 : ApplyRules(c)[k] = a[k]
       /\ \A k \in 12..16 : ApplyRules(c)[k] = b[k - 11]
       /\ \A k \in 17..(16 + Len(others)) : ApplyRules(c)[k] = others[k - 16]
  <2>1. Len(others) \in Nat
    BY <1>11
  <2>2. ASSUME NEW k \in 1..16
        PROVE  ApplyRules(c)[k] = IF k <= 11 THEN a[k] ELSE b[k - 11]
    <3>1. k \in 1..(16 + Len(others)) /\ k <= 16
      BY <2>1
    <3>2. ApplyRules(c)[k] = (a \o b)[k]
      BY <3>1, <1>11
    <3> QED
      BY <3>2, <1>10
  <2>3. ASSUME NEW k \in 17..(16 + Len(others))
        PROVE  ApplyRules(c)[k] = others[k - 16]
    <3>1. k \in 1..(16 + Len(others)) /\ ~(k <= 16)
      BY <2>1
    <3> QED
      BY <3>1, <1>11
  <2>4. ASSUME NEW k \in 1..11
        PROVE  ApplyRules(c)[k] = a[k]
    <3>1. k \in 1..16 /\ k <= 11
      OBVIOUS
    <3> QED
      BY <3>1, <2>2
  <2>5. ASSUME NEW k \in 12..16
        PROVE  ApplyRules(c)[k] = b[k - 11]
    <3>1. k \in 1..16 /\ ~(k <= 11)
      OBVIOUS
    <3> QED
      BY <3>1, <2>2
  <2> QED
    BY <2>3, <2>4, <2>5
<1>13. /\ ApplyRules(c)[2] = a[2] /\ ApplyRules(c)[3] = a[3] /\ ApplyRules(c)[12] = b[1]
       /\ ApplyRules(c)[13] = b[2] /\ ApplyRules(c)[14] = b[3] /\ ApplyRules(c)[15] = b[4]
       /\ ApplyRules(c)[16] = b[5]
  BY <1>12
<1>14. ASSUME NEW k \in 1..Len(ApplyRules(c)), k \notin {2, 3, 12, 13, 14, 15}
       PROVE  ApplyRules(c)[k].chain # "REDSOCKS"
  <2>1. CASE k <= 11
    <3>1. k \in 1..11 /\ k \notin {2, 3}
      BY <2>1, <1>14
    <3> QED
      BY ONLY <3>1, <1>7, <1>12
  <2>2. CASE k = 16
    BY <2>2, <1>8, <1>13
  <2>3. CASE k >= 17
    <3>1. k - 16 \in 1..Len(others) /\ ApplyRules(c)[k] = others[k - 16]
      BY <2>3, <1>11, <1>12
    <3> QED
      BY <3>1, <1>6
  <2> QED
    BY <2>1, <2>2, <2>3, <1>14, <1>11
<1>15. Len(ApplyRules(c)) >= 16
  BY <1>11
<1> QED
  BY <1>5, <1>9, <1>11, <1>13, <1>14, <1>15

-----------------------------------------------------------------------------
(* What a command does.                                                      *)

Tables == rules \in [Chain -> Seq(Rule)]

LEMMA DeletesOne ==
    ASSUME Tables, NEW c \in Chain, NEW r, DeleteFirst(c, r)
    PROVE  Tables' /\ (\A d \in Chain \ {c} : rules'[d] = rules[d]) /\ chains' = chains
<1>1. PICK i \in 1..Len(rules[c]) :
        rules' = [rules EXCEPT ![c] = SubSeq(@, 1, i - 1) \o SubSeq(@, i + 1, Len(@))]
  BY DEF DeleteFirst
<1> DEFINE s == rules[c]
           rest == SubSeq(s, 1, i - 1) \o SubSeq(s, i + 1, Len(s))
<1>2. s \in Seq(Rule) /\ Len(s) \in Nat /\ i \in Int /\ i - 1 \in Int /\ i + 1 \in Int
      /\ \A j \in 1..Len(s) : s[j] \in Rule
  BY ElementOfSeq, LenProperties DEF Tables
<1>3. /\ \A j \in 1..(i - 1) : s[j] \in Rule
      /\ \A j \in (i + 1)..Len(s) : s[j] \in Rule
  BY <1>2
<1> HIDE DEF s
<1>4. SubSeq(s, 1, i - 1) \in Seq(Rule)
  BY <1>2, <1>3, SubSeqProperties
<1>5. SubSeq(s, i + 1, Len(s)) \in Seq(Rule)
  BY <1>2, <1>3, SubSeqProperties
<1>6. rest \in Seq(Rule)
  BY <1>4, <1>5, ConcatProperties
<1>7. rules' = [rules EXCEPT ![c] = rest]
  BY <1>1 DEF s
<1>8. chains' = chains
  BY DEF DeleteFirst
<1> HIDE DEF rest
<1> QED
  BY <1>6, <1>7, <1>8 DEF Tables

LEMMA AppendsOne ==
    ASSUME NEW s \in Seq(Rule), NEW r \in Rule
    PROVE  Append(s, r) \in Seq(Rule) /\ <<r>> \o s \in Seq(Rule) /\ <<>> \in Seq(Rule)
           /\ Len(<<r>> \o s) > 0 /\ (<<r>> \o s)[1] = r
<1>1. <<r>> \in Seq(Rule) /\ Len(<<r>>) = 1 /\ <<r>>[1] = r
  OBVIOUS
<1>2. Len(s) \in Nat
  BY LenProperties
<1>3. /\ <<r>> \o s \in Seq(Rule) /\ Len(<<r>> \o s) = Len(<<r>>) + Len(s)
      /\ \A i \in 1..(Len(<<r>>) + Len(s)) :
           (<<r>> \o s)[i] = IF i <= Len(<<r>>) THEN <<r>>[i] ELSE s[i - Len(<<r>>)]
  BY <1>1, ConcatProperties
<1>4. 1 \in 1..(Len(<<r>>) + Len(s)) /\ 1 <= Len(<<r>>) /\ Len(<<r>>) + Len(s) > 0
  BY <1>1, <1>2
<1>5. (<<r>> \o s)[1] = r
  BY <1>1, <1>3, <1>4
<1> QED
  BY <1>3, <1>4, <1>5

LEMMA ExecutesElsewhere ==
    ASSUME Tables, NEW cmd \in CommandType, Execute(cmd)
    PROVE  /\ Tables'
           /\ \A d \in Chain \ {cmd.chain} :
                rules'[d] = rules[d] /\ (d \in chains <=> d \in chains')
<1>1. cmd.chain \in Chain /\ cmd.rule \in Rule /\ rules[cmd.chain] \in Seq(Rule)
  BY DEF CommandType, Tables
<1>2. \/ rules' = rules
      \/ \E s \in Seq(Rule) : rules' = [rules EXCEPT ![cmd.chain] = s]
  <2>1. CASE Flush(cmd.chain)
    BY <2>1, <1>1, AppendsOne DEF Flush
  <2>2. CASE rules' = [rules EXCEPT ![cmd.chain] = Append(@, cmd.rule)]
    BY <2>2, <1>1, AppendsOne
  <2>3. CASE rules' = [rules EXCEPT ![cmd.chain] = <<cmd.rule>> \o @]
    BY <2>3, <1>1, AppendsOne
  <2> QED
    BY <2>1, <2>2, <2>3 DEF Execute, nfvars
<1>3. \/ chains' = chains \/ chains' = chains \cup {cmd.chain} \/ chains' = chains \ {cmd.chain}
  BY DEF Execute, Create, nfvars
<1>4. Tables'
  BY <1>1, <1>2 DEF Tables
<1>5. \A d \in Chain \ {cmd.chain} : rules'[d] = rules[d]
  BY <1>1, <1>2 DEF Tables
<1> QED
  BY <1>3, <1>4, <1>5

LEMMA Flushes ==
    ASSUME Tables, NEW c \in Chain, Execute(Cm("F", c, NoRule))
    PROVE  rules'[c] = <<>> /\ chains' = chains
<1>1. rules' = [rules EXCEPT ![c] = <<>>] /\ chains' = chains
  BY CmIs DEF Execute, Flush, Fails
<1> QED
  BY <1>1 DEF Tables

LEMMA Creates ==
    ASSUME NEW c \in Chain, Execute(Cm("N", c, NoRule))
    PROVE  rules' = rules /\ c \in chains'
BY CmIs DEF Execute, Fails, Create

LEMMA Deletes ==
    ASSUME NEW c \in Chain, Execute(Cm("X", c, NoRule))
    PROVE  rules' = rules
BY CmIs DEF Execute, Fails, nfvars

(* A rule that jumps nowhere is appended when the chain exists, and is not   *)
(* when it does not.                                                         *)
LEMMA Appends ==
    ASSUME Tables, NEW c \in Chain, NEW r \in Rule, r.to \notin UserChain,
           Execute(Cm("A", c, r))
    PROVE  /\ chains' = chains
           /\ c \in chains => rules'[c] = Append(rules[c], r)
<1>1. chains' = chains
  BY CmIs DEF Execute, Fails, nfvars
<1>2. ASSUME c \in chains
      PROVE  rules'[c] = Append(rules[c], r)
  <2>1. CanAdd(c, r)
    BY <1>2 DEF CanAdd, Exists
  <2>2. rules' = [rules EXCEPT ![c] = Append(@, r)]
    BY <2>1, CmIs DEF Execute, Fails
  <2> QED
    BY <2>2 DEF Tables
<1> QED
  BY <1>1, <1>2

(* So is a rule inserted in a built-in chain whose target exists.            *)
LEMMA Inserts ==
    ASSUME Tables, NEW c \in BuiltIn, NEW r \in Rule, r.to \in chains,
           Execute(Cm("I", c, r))
    PROVE  chains' = chains /\ rules'[c] = <<r>> \o rules[c]
<1>1. CanAdd(c, r) /\ c \in Chain
  BY DEF CanAdd, Exists, Chain
<1>2. rules' = [rules EXCEPT ![c] = <<r>> \o @] /\ chains' = chains
  BY <1>1, CmIs DEF Execute, Fails
<1> QED
  BY <1>1, <1>2 DEF Tables

-----------------------------------------------------------------------------
(* RedirectGuarded: how far apply_rules has built the chain.  It was emptied *)
(* by remove_rules, made if it was not there, and is filled in its order.    *)

Building(c, at) ==
    /\ at \in 3..13 => rules["REDSOCKS"] = <<>>
    /\ at >= 13 => "REDSOCKS" \in chains
    /\ at = 14 => rules["REDSOCKS"] = <<PrivateReturn>>
    /\ at = 15 => rules["REDSOCKS"] = <<PrivateReturn, ProxyReturn(c)>>
    /\ at >= 16 => rules["REDSOCKS"] = RedsocksContent(c)

LEMMA SameIsGuarded ==
    ASSUME RedirectGuarded, rules'["REDSOCKS"] = rules["REDSOCKS"]
    PROVE  RedirectGuarded'
BY DEF RedirectGuarded

LEMMA EmptyIsGuarded ==
    ASSUME rules'["REDSOCKS"] = <<>>
    PROVE  RedirectGuarded'
BY DEF RedirectGuarded

LEMMA AppendToFew ==
    ASSUME NEW x \in Rule, NEW y \in Rule, NEW z \in Rule
    PROVE  Append(<<x>>, y) = <<x, y>> /\ Append(<<x, y>>, z) = <<x, y, z>>
<1>1. /\ <<x>> \in Seq(Rule) /\ <<x, y>> \in Seq(Rule) /\ <<x, y, z>> \in Seq(Rule)
      /\ Len(<<x>>) = 1 /\ Len(<<x, y>>) = 2 /\ Len(<<x, y, z>>) = 3
  OBVIOUS
<1>2. Append(<<x>>, y) = <<x, y>>
  <2> DEFINE s == Append(<<x>>, y)
  <2>1. s \in Seq(Rule) /\ Len(s) = 2 /\ s[1] = x /\ s[2] = y
    BY <1>1, AppendProperties
  <2> HIDE DEF s
  <2>2. s = <<x, y>>
    BY <2>1, <1>1, SeqEqual
  <2> QED
    BY <2>2 DEF s
<1>3. Append(<<x, y>>, z) = <<x, y, z>>
  <2> DEFINE s == Append(<<x, y>>, z)
  <2>1. s \in Seq(Rule) /\ Len(s) = 3 /\ s[1] = x /\ s[2] = y /\ s[3] = z
    BY <1>1, AppendProperties
  <2> HIDE DEF s
  <2>2. s = <<x, y, z>>
    BY <2>1, <1>1, SeqEqual
  <2> QED
    BY <2>2 DEF s
<1> QED
  BY <1>2, <1>3

(* The chain in its three stages.                                            *)
LEMMA BuiltIsGuarded ==
    ASSUME NEW c \in ConfigType,
           \/ rules'["REDSOCKS"] = <<PrivateReturn>>
           \/ rules'["REDSOCKS"] = <<PrivateReturn, ProxyReturn(c)>>
           \/ rules'["REDSOCKS"] = RedsocksContent(c)
    PROVE  RedirectGuarded'
<1> DEFINE s == rules'["REDSOCKS"]
<1>1. /\ PrivateReturn # Redirect /\ ProxyReturn(c) # Redirect
      /\ ProxyReturn(c).match \in ProxyIP
  BY DEF PrivateReturn, ProxyReturn, Redirect, Rl, ConfigType
<1>2. \/ Len(s) = 1 /\ s[1] = PrivateReturn
      \/ Len(s) = 2 /\ s[1] = PrivateReturn /\ s[2] = ProxyReturn(c)
      \/ Len(s) = 3 /\ s[1] = PrivateReturn /\ s[2] = ProxyReturn(c) /\ s[3] = Redirect
  BY DEF RedsocksContent
<1> HIDE DEF s
<1>3. ASSUME NEW i \in 1..Len(s), s[i] = Redirect
      PROVE  (\E j \in 1..(i - 1) : s[j] = PrivateReturn) /\ \E j \in 1..(i - 1) : s[j].match \in ProxyIP
  <2>1. i = 3 /\ s[1] = PrivateReturn /\ s[2] = ProxyReturn(c)
    BY <1>1, <1>2, <1>3
  <2>2. 1 \in 1..(i - 1) /\ 2 \in 1..(i - 1)
    BY <2>1
  <2> QED
    BY <1>1, <2>1, <2>2
<1> QED
  BY <1>3 DEF s, RedirectGuarded

LEMMA ApplyExecutes ==
    ASSUME Tables, RedirectGuarded, NEW c \in ConfigType, NEW k \in 1..Len(ApplyRules(c)),
           Building(c, k), Execute(ApplyRules(c)[k])
    PROVE  Tables' /\ RedirectGuarded' /\ Building(c, k + 1)'
<1> DEFINE R == "REDSOCKS"
           cmd == ApplyRules(c)[k]
<1>1. cmd \in CommandType
  BY ApplyIsThis, ElementOfSeq
<1>2. Tables'
  BY <1>1, ExecutesElsewhere
<1>3. R \in Chain /\ {PrivateReturn, ProxyReturn(c), Redirect} \subseteq Rule
  BY RulesAreRules DEF Chain, UserChain
<1>4. /\ PrivateReturn.to \notin UserChain /\ ProxyReturn(c).to \notin UserChain
      /\ Redirect.to \notin UserChain
  BY DEF PrivateReturn, ProxyReturn, Redirect, Rl, UserChain
<1>5. k \in Nat
  BY ApplyIsThis, LenProperties
<1>6. CASE k \notin {2, 3, 12, 13, 14, 15}
  <2>1. cmd.chain # R
    BY <1>6, ApplyIsThis
  <2>2. rules'[R] = rules[R] /\ (R \in chains <=> R \in chains')
    BY <2>1, <1>1, <1>3, ExecutesElsewhere
  <2>3. RedirectGuarded'
    BY <2>2, SameIsGuarded
  <2>4. k + 1 \in 3..13 => k \in 3..13
    BY <1>5, <1>6
  <2>5. k + 1 \notin {14, 15}
    BY <1>5, <1>6
  <2>6. (k + 1 >= 13 => k >= 13) /\ (k + 1 >= 16 => k >= 16)
    BY <1>5, <1>6
  <2> QED
    BY <1>2, <2>2, <2>3, <2>4, <2>5, <2>6 DEF Building
<1>7. CASE k = 2
  <2>1. Execute(Cm("F", R, NoRule))
    BY <1>7, ApplyIsThis
  <2>2. rules'[R] = <<>>
    BY <2>1, <1>3, Flushes
  <2>3. Building(c, 3)'
    BY <2>2 DEF Building
  <2> QED
    BY <1>2, <1>7, <2>2, <2>3, EmptyIsGuarded
<1>8. CASE k = 3
  <2>1. Execute(Cm("X", R, NoRule))
    BY <1>8, ApplyIsThis
  <2>2. rules'[R] = rules[R] /\ rules[R] = <<>>
    BY <2>1, <1>3, <1>8, Deletes DEF Building
  <2>3. Building(c, 4)'
    BY <2>2 DEF Building
  <2> QED
    BY <1>2, <1>8, <2>2, <2>3, SameIsGuarded
<1>9. CASE k = 12
  <2>1. Execute(Cm("N", R, NoRule))
    BY <1>9, ApplyIsThis
  <2>2. rules'[R] = <<>> /\ R \in chains'
    BY <2>1, <1>3, <1>9, Creates DEF Building
  <2>3. Building(c, 13)'
    BY <2>2 DEF Building
  <2> QED
    BY <1>2, <1>9, <2>2, <2>3, EmptyIsGuarded
<1>10. CASE k = 13
  <2>1. Execute(Cm("A", R, PrivateReturn))
    BY <1>10, ApplyIsThis
  <2>2. R \in chains /\ rules[R] = <<>>
    BY <1>10 DEF Building
  <2>3. R \in chains' /\ rules'[R] = Append(rules[R], PrivateReturn)
    BY <2>1, <2>2, <1>3, <1>4, Appends
  <2>4. rules'[R] = <<PrivateReturn>>
    BY <2>2, <2>3
  <2>5. Building(c, 14)'
    BY <2>3, <2>4 DEF Building
  <2> QED
    BY <1>2, <1>10, <2>4, <2>5, BuiltIsGuarded
<1>11. CASE k = 14
  <2>1. Execute(Cm("A", R, ProxyReturn(c)))
    BY <1>11, ApplyIsThis
  <2>2. R \in chains /\ rules[R] = <<PrivateReturn>>
    BY <1>11 DEF Building
  <2>3. R \in chains' /\ rules'[R] = Append(rules[R], ProxyReturn(c))
    BY <2>1, <2>2, <1>3, <1>4, Appends
  <2>4. rules'[R] = <<PrivateReturn, ProxyReturn(c)>>
    BY <2>2, <2>3, <1>3, AppendToFew
  <2>5. Building(c, 15)'
    BY <2>3, <2>4 DEF Building
  <2> QED
    BY <1>2, <1>11, <2>4, <2>5, BuiltIsGuarded
<1>12. CASE k = 15
  <2>1. Execute(Cm("A", R, Redirect))
    BY <1>12, ApplyIsThis
  <2>2. R \in chains /\ rules[R] = <<PrivateReturn, ProxyReturn(c)>>
    BY <1>12 DEF Building
  <2>3. R \in chains' /\ rules'[R] = Append(rules[R], Redirect)
    BY <2>1, <2>2, <1>3, <1>4, Appends
  <2>4. rules'[R] = RedsocksContent(c)
    BY <2>2, <2>3, <1>3, AppendToFew DEF RedsocksContent
  <2>5. Building(c, 16)'
    BY <2>3, <2>4 DEF Building
  <2> QED
    BY <1>2, <1>12, <2>4, <2>5, BuiltIsGuarded
<1> QED
  BY <1>6, <1>7, <1>8, <1>9, <1>10, <1>11, <1>12

LEMMA ApplyDeletes ==
    ASSUME Tables, RedirectGuarded, NEW c \in ConfigType, NEW k \in 1..Len(ApplyRules(c)),
           Building(c, k), ApplyRules(c)[k].op = "D*",
           DeleteFirst(ApplyRules(c)[k].chain, ApplyRules(c)[k].rule)
    PROVE  Tables' /\ RedirectGuarded' /\ Building(c, k)'
<1> DEFINE cmd == ApplyRules(c)[k]
<1>1. k \notin {2, 3, 12, 13, 14, 15}
  BY ApplyIsThis, CmIs
<1>2. cmd.chain # "REDSOCKS"
  BY <1>1, ApplyIsThis
<1>3. cmd \in CommandType
  BY ApplyIsThis, ElementOfSeq
<1>4. cmd.chain \in Chain /\ "REDSOCKS" \in Chain \ {cmd.chain}
  BY <1>2, <1>3 DEF CommandType, Chain, UserChain
<1>5. Tables' /\ rules'["REDSOCKS"] = rules["REDSOCKS"] /\ chains' = chains
  BY <1>4, DeletesOne
<1>6. RedirectGuarded'
  BY <1>5, SameIsGuarded
<1> QED
  BY <1>5, <1>6 DEF Building

(* The other three scripts only empty REDSOCKS or leave it alone.            *)
LEMMA LeavesGuarded ==
    ASSUME Tables, RedirectGuarded, NEW cmd \in CommandType,
           cmd.chain # "REDSOCKS" \/ cmd.op = "F" \/ cmd.op = "X",
           Execute(cmd) \/ (cmd.op = "D*" /\ DeleteFirst(cmd.chain, cmd.rule))
    PROVE  Tables' /\ RedirectGuarded'
<1>1. cmd.chain \in Chain /\ "REDSOCKS" \in Chain
  BY DEF CommandType, Chain, UserChain
<1>2. Tables'
  BY <1>1, ExecutesElsewhere, DeletesOne
<1>3. CASE cmd.chain # "REDSOCKS"
  <2>1. rules'["REDSOCKS"] = rules["REDSOCKS"]
    BY <1>1, <1>3, ExecutesElsewhere, DeletesOne
  <2> QED
    BY <1>2, <2>1, SameIsGuarded
<1>4. CASE cmd.chain = "REDSOCKS" /\ cmd.op \in {"F", "X"}
  <2>1. \/ rules' = [rules EXCEPT !["REDSOCKS"] = <<>>]
        \/ rules' = rules
    BY <1>4 DEF Execute, Flush, Fails, nfvars
  <2>2. rules'["REDSOCKS"] = <<>> \/ rules'["REDSOCKS"] = rules["REDSOCKS"]
    BY <2>1, <1>1 DEF Tables
  <2> QED
    BY <1>2, <2>2, SameIsGuarded, EmptyIsGuarded
<1> QED
  BY <1>3, <1>4

LEMMA RemoveLeaves ==
    ASSUME NEW c \in ConfigType, NEW k \in 1..Len(RemoveRules(c))
    PROVE  /\ RemoveRules(c)[k] \in CommandType
           /\ \/ RemoveRules(c)[k].chain # "REDSOCKS"
              \/ RemoveRules(c)[k].op = "F" \/ RemoveRules(c)[k].op = "X"
<1>1. RemoveRules(c)[k] \in CommandType
  BY RemoveType, ElementOfSeq
<1>2. k \in {1, 2, 3, 4, 5, 6, 7, 8, 9, 10, 11}
  <2>1. Len(RemoveRules(c)) = 11
    BY RemoveCommands
  <2> QED
    BY <2>1
<1>3. CASE k \in {2, 3}
  BY <1>1, <1>3, RemoveCommands, CmIs
<1>4. CASE k \notin {2, 3}
  BY <1>1, <1>2, <1>4, RemoveCommands, CmIs
<1> QED
  BY <1>3, <1>4

LEMMA KillLeaves ==
    ASSUME NEW c \in ConfigType
    PROVE  /\ \A k \in 1..Len(ActivateKillSwitch(c)) :
                /\ ActivateKillSwitch(c)[k] \in CommandType
                /\ ActivateKillSwitch(c)[k].chain # "REDSOCKS"
           /\ \A k \in 1..Len(DeactivateKillSwitch(c)) :
                /\ DeactivateKillSwitch(c)[k] \in CommandType
                /\ DeactivateKillSwitch(c)[k].chain # "REDSOCKS"
<1>1. /\ {"CAMOFOX_KILLSW", "FORWARD"} \subseteq Chain /\ {"F", "A", "D*", "I"} \subseteq Op
      /\ {NoRule, KillDrop, KillJump(c), KillReturn} \subseteq Rule
  BY RulesAreRules DEF Chain, BuiltIn, UserChain, Op
<1>2. ASSUME NEW k \in 1..Len(ActivateKillSwitch(c))
      PROVE  /\ ActivateKillSwitch(c)[k] \in CommandType
             /\ ActivateKillSwitch(c)[k].chain # "REDSOCKS"
  <2>1. k \in {1, 2, 3, 4}
    <3>1. Len(ActivateKillSwitch(c)) = 4
      BY KillCommands
    <3> QED
      BY <3>1
  <2> QED
    BY <2>1, <1>1, KillCommands, CmType, CmIs
<1>3. ASSUME NEW k \in 1..Len(DeactivateKillSwitch(c))
      PROVE  /\ DeactivateKillSwitch(c)[k] \in CommandType
             /\ DeactivateKillSwitch(c)[k].chain # "REDSOCKS"
  <2>1. k \in {1, 2}
    <3>1. Len(DeactivateKillSwitch(c)) = 2
      BY KillCommands
    <3> QED
      BY <3>1
  <2> QED
    BY <2>1, <1>1, KillCommands, CmType, CmIs
<1> QED
  BY <1>2, <1>3

-----------------------------------------------------------------------------
(* KillOnBlocksAll: how far activate_kill_switch has come, if there is a     *)
(* chain.                                                                    *)

Blocking(c, at) ==
    "CAMOFOX_KILLSW" \in chains =>
        /\ at = 2 => rules["CAMOFOX_KILLSW"] = <<>>
        /\ at >= 3 => rules["CAMOFOX_KILLSW"] = <<KillDrop>>
        /\ at >= 5 => Len(rules["FORWARD"]) > 0 /\ rules["FORWARD"][1] = KillJump(c)

LEMMA KillOnExecutes ==
    ASSUME Tables, NEW c \in ConfigType, NEW k \in 1..Len(ActivateKillSwitch(c)),
           Blocking(c, k), Execute(ActivateKillSwitch(c)[k])
    PROVE  Blocking(c, k + 1)'
<1> DEFINE K == "CAMOFOX_KILLSW"
<1>1. /\ K \in Chain /\ "FORWARD" \in BuiltIn /\ K # "FORWARD"
      /\ {KillDrop, KillJump(c)} \subseteq Rule
      /\ KillDrop.to \notin UserChain /\ KillJump(c).to = K
  BY RulesAreRules DEF Chain, BuiltIn, UserChain, KillDrop, KillJump, Rl
<1>2. k \in {1, 2, 3, 4}
  BY KillCommands
<1>3. ASSUME k = 1
      PROVE  Blocking(c, 2)'
  <2>1. Execute(Cm("F", K, NoRule))
    BY <1>3, KillCommands
  <2>2. rules'[K] = <<>>
    BY <2>1, <1>1, Flushes
  <2> QED
    BY <2>2 DEF Blocking
<1>4. ASSUME k = 2
      PROVE  Blocking(c, 3)'
  <2>1. Execute(Cm("A", K, KillDrop))
    BY <1>4, KillCommands
  <2>2. chains' = chains /\ (K \in chains => rules'[K] = Append(rules[K], KillDrop))
    BY <2>1, <1>1, Appends
  <2>3. K \in chains => rules[K] = <<>>
    BY <1>4 DEF Blocking
  <2>4. K \in chains => rules'[K] = <<KillDrop>>
    BY <2>2, <2>3
  <2> QED
    BY <2>2, <2>4 DEF Blocking
<1>5. ASSUME k = 3
      PROVE  Blocking(c, 4)'
  <2>1. Execute(Cm("D*", "FORWARD", KillJump(c)))
    BY <1>5, KillCommands
  <2>2. rules' = rules /\ chains' = chains
    BY <2>1, CmIs DEF Execute, Fails, nfvars
  <2>3. K \in chains => rules[K] = <<KillDrop>>
    BY <1>5 DEF Blocking
  <2> QED
    BY <2>2, <2>3 DEF Blocking
<1>6. ASSUME k = 4
      PROVE  Blocking(c, 5)'
  <2>1. Execute(Cm("I", "FORWARD", KillJump(c)))
    BY <1>6, KillCommands
  <2>2. K \in chains => rules[K] = <<KillDrop>>
    BY <1>6 DEF Blocking
  <2>3. K \in chains => chains' = chains /\ rules'["FORWARD"] = <<KillJump(c)>> \o rules["FORWARD"]
    BY <2>1, <1>1, Inserts
  <2>4. K \in chains => rules'[K] = rules[K]
    <3>1. ActivateKillSwitch(c)[k] \in CommandType /\ ActivateKillSwitch(c)[k].chain = "FORWARD"
      BY <1>6, KillLeaves, KillCommands, CmIs
    <3> QED
      BY <3>1, <1>1, ExecutesElsewhere
  <2>5. K \notin chains => chains' = chains
    BY <2>1, CmIs DEF Execute, Fails, nfvars
  <2>6. rules["FORWARD"] \in Seq(Rule)
    BY DEF Tables, Chain, BuiltIn
  <2>7. K \in chains =>
          Len(rules'["FORWARD"]) > 0 /\ rules'["FORWARD"][1] = KillJump(c)
    BY <2>3, <2>6, <1>1, AppendsOne
  <2> QED
    BY <2>2, <2>3, <2>4, <2>5, <2>7 DEF Blocking
<1> QED
  BY <1>2, <1>3, <1>4, <1>5, <1>6

LEMMA KillOnDeletes ==
    ASSUME Tables, NEW c \in ConfigType, NEW k \in 1..Len(ActivateKillSwitch(c)),
           Blocking(c, k), ActivateKillSwitch(c)[k].op = "D*",
           DeleteFirst(ActivateKillSwitch(c)[k].chain, ActivateKillSwitch(c)[k].rule)
    PROVE  Blocking(c, k)'
<1>1. k = 3
  <2>1. k \in {1, 2, 3, 4}
    BY KillCommands
  <2> QED
    BY <2>1, KillCommands, CmIs
<1>2. DeleteFirst("FORWARD", KillJump(c)) /\ "FORWARD" \in Chain
      /\ "CAMOFOX_KILLSW" \in Chain \ {"FORWARD"}
  BY <1>1, KillCommands, CmIs DEF Chain, BuiltIn, UserChain
<1>3. rules'["CAMOFOX_KILLSW"] = rules["CAMOFOX_KILLSW"] /\ chains' = chains
  BY <1>2, DeletesOne
<1> QED
  BY <1>1, <1>3 DEF Blocking

-----------------------------------------------------------------------------
(* The invariant: p is the only process.                                     *)

FInv(p) ==
    /\ Tables /\ RedirectGuarded
    /\ uci \in Config /\ job \in [Proc -> Job]
    /\ job[p].name = "apply" => Building(job[p].cfg, job[p].at)
    /\ job[p].name = "kill_on" => Blocking(job[p].cfg, job[p].at)

LEMMA InitHolds ==
    ASSUME NEW p \in Proc, FirewallInit
    PROVE  FInv(p)
<1>1. Tables /\ rules["REDSOCKS"] = <<>>
  BY DEF FirewallInit, Tables, Chain, UserChain
<1>2. RedirectGuarded
  BY <1>1 DEF RedirectGuarded
<1>3. /\ uci \in Config /\ job \in [Proc -> Job]
      /\ job[p].name = "none"
  BY DEF FirewallInit, Job
<1> QED
  BY <1>1, <1>2, <1>3 DEF FInv

(* Calls, loading and changes of the configuration touch no table; a script  *)
(* at its beginning has promised nothing.                                    *)
LEMMA BeginningHolds ==
    ASSUME NEW p \in Proc, FInv(p), UNCHANGED <<rules, chains>>, uci' \in Config,
           job' \in [Proc -> Job], job'[p].at \in {0, 1}
    PROVE  FInv(p)'
<1>1. Building(job[p].cfg, job[p].at)' /\ Blocking(job[p].cfg, job[p].at)'
  BY DEF Building, Blocking
<1>2. Tables' /\ RedirectGuarded'
  BY SameIsGuarded DEF FInv, Tables
<1> QED
  BY <1>1, <1>2 DEF FInv

LEMMA CallHolds ==
    ASSUME NEW p \in Proc, FInv(p), NEW name \in ScriptName, Call(p, name)
    PROVE  FInv(p)'
<1>1. /\ job' \in [Proc -> Job] /\ job'[p].at = 0
  BY DEF FInv, Call, Job
<1> QED
  BY <1>1, BeginningHolds DEF Call, FInv

LEMMA LoadConfigHolds ==
    ASSUME NEW p \in Proc, FInv(p), LoadConfig(p)
    PROVE  FInv(p)'
<1>1. job[p] \in Job /\ uci \in Config
  BY DEF FInv
<1>2. job' = [job EXCEPT ![p] = [job[p] EXCEPT !.cfg = uci, !.at = 1]]
  BY <1>1 DEF LoadConfig, FInv
<1>3. [job[p] EXCEPT !.cfg = uci, !.at = 1] \in Job /\ [job[p] EXCEPT !.cfg = uci, !.at = 1].at = 1
  BY <1>1 DEF Job
<1>4. job' \in [Proc -> Job] /\ job'[p].at = 1
  BY <1>2, <1>3 DEF FInv
<1> QED
  BY <1>4, BeginningHolds DEF LoadConfig, FInv

LEMMA CommitHolds ==
    ASSUME NEW p \in Proc, FInv(p), NEW c \in Config, Commit(c)
    PROVE  FInv(p)'
<1>1. Tables' /\ RedirectGuarded' /\ uci' \in Config /\ job' = job /\ rules' = rules /\ chains' = chains
  BY SameIsGuarded DEF FInv, Commit, Tables
<1> QED
  BY <1>1 DEF FInv, Building, Blocking

(* A command: the place of the process advances, or a rule was deleted and   *)
(* it stays.                                                                 *)
LEMMA CommandIs ==
    ASSUME NEW p \in Proc, FInv(p), Command(p)
    PROVE  LET name == job[p].name  c == job[p].cfg  k == job[p].at
               cmd == Script(name, c)[k]
           IN  /\ c \in ConfigType /\ k \in Nat /\ k > 0 /\ ~(k > Len(Script(name, c)))
               /\ uci' = uci /\ job' \in [Proc -> Job]
               /\ job'[p].name = name /\ job'[p].cfg = c
               /\ \/ Execute(cmd) /\ job'[p].at = k + 1
                  \/ cmd.op = "D*" /\ DeleteFirst(cmd.chain, cmd.rule) /\ job'[p].at = k
<1>1. job[p] \in Job /\ job[p].cfg \in ConfigType
  BY ConfigAssumption DEF FInv, Job
<1>2. job[p].at \in Nat
  BY <1>1 DEF Job
<1>3. ASSUME job' = [job EXCEPT ![p].at = @ + 1]
      PROVE  /\ job' \in [Proc -> Job] /\ job'[p].at = job[p].at + 1
             /\ job'[p].name = job[p].name /\ job'[p].cfg = job[p].cfg
  <2>1. job' = [job EXCEPT ![p] = [job[p] EXCEPT !.at = job[p].at + 1]]
    BY <1>3 DEF FInv
  <2>2. job[p].at + 1 \in Nat
    BY <1>2
  <2>3. [job[p] EXCEPT !.at = job[p].at + 1] \in Job
    BY <1>1, <2>2 DEF Job
  <2>4. job'[p] = [job[p] EXCEPT !.at = job[p].at + 1]
    BY <2>1 DEF FInv
  <2> QED
    BY <1>1, <2>1, <2>3, <2>4 DEF FInv, Job
<1> QED
  BY <1>1, <1>2, <1>3 DEF Command, Commands, Finished, FInv

LEMMA CommandHolds ==
    ASSUME NEW p \in Proc, FInv(p), Command(p)
    PROVE  FInv(p)'
<1> DEFINE name == job[p].name
           c == job[p].cfg
           k == job[p].at
           cmd == Script(name, c)[k]
<1>1. /\ c \in ConfigType /\ k \in Nat /\ k > 0 /\ ~(k > Len(Script(name, c)))
      /\ uci' = uci /\ job' \in [Proc -> Job]
      /\ job'[p].name = name /\ job'[p].cfg = c
      /\ \/ Execute(cmd) /\ job'[p].at = k + 1
         \/ cmd.op = "D*" /\ DeleteFirst(cmd.chain, cmd.rule) /\ job'[p].at = k
  BY CommandIs
<1>2. name \in {"apply", "remove", "kill_on", "kill_off", "none"}
  BY DEF FInv, Job, ScriptName
<1>3. Tables /\ RedirectGuarded /\ uci' \in Config
  BY <1>1 DEF FInv
<1>4. ASSUME name = "apply"
      PROVE  Tables' /\ RedirectGuarded' /\ Building(job[p].cfg, job[p].at)'
  <2>1. Script(name, c) = ApplyRules(c)
    BY <1>4 DEF Script
  <2>2. k \in 1..Len(ApplyRules(c))
    <3>1. Len(ApplyRules(c)) \in Nat
      BY <1>1, ApplyIsThis, LenProperties
    <3> QED
      BY <3>1, <1>1, <2>1
  <2>3. Building(c, k)
    BY <1>4 DEF FInv
  <2>4. CASE Execute(cmd) /\ job'[p].at = k + 1
    <3>1. PICK d \in ConfigType, n \in Nat : d = c /\ n = k
      BY <1>1
    <3>2. Tables' /\ RedirectGuarded' /\ Building(d, n + 1)'
      BY <3>1, <1>3, <2>1, <2>2, <2>3, <2>4, ApplyExecutes
    <3>3. job'[p].cfg = d /\ job'[p].at = n + 1
      BY <3>1, <1>1, <2>4
    <3> QED
      BY <3>2, <3>3
  <2>5. CASE cmd.op = "D*" /\ DeleteFirst(cmd.chain, cmd.rule) /\ job'[p].at = k
    <3>1. PICK d \in ConfigType, n \in Nat : d = c /\ n = k
      BY <1>1
    <3>2. Tables' /\ RedirectGuarded' /\ Building(d, n)'
      BY <3>1, <1>3, <2>1, <2>2, <2>3, <2>5, ApplyDeletes
    <3>3. job'[p].cfg = d /\ job'[p].at = n
      BY <3>1, <1>1, <2>5
    <3> QED
      BY <3>2, <3>3
  <2> QED
    BY <1>1, <2>4, <2>5
<1>5. ASSUME name = "remove"
      PROVE  Tables' /\ RedirectGuarded'
  <2>1. Script(name, c) = RemoveRules(c)
    BY <1>5 DEF Script
  <2>2. k \in 1..Len(RemoveRules(c))
    <3>1. Len(RemoveRules(c)) = 11
      BY RemoveCommands
    <3> QED
      BY <3>1, <1>1, <2>1
  <2>3. cmd \in CommandType /\ (cmd.chain # "REDSOCKS" \/ cmd.op = "F" \/ cmd.op = "X")
    BY <1>1, <2>1, <2>2, RemoveLeaves
  <2>4. Execute(cmd) \/ (cmd.op = "D*" /\ DeleteFirst(cmd.chain, cmd.rule))
    BY <1>1
  <2> HIDE DEF cmd
  <2> QED
    BY <1>3, <2>3, <2>4, LeavesGuarded
<1>6. ASSUME name = "kill_off"
      PROVE  Tables' /\ RedirectGuarded'
  <2>1. Script(name, c) = DeactivateKillSwitch(c)
    BY <1>6 DEF Script
  <2>2. k \in 1..Len(DeactivateKillSwitch(c))
    <3>1. Len(DeactivateKillSwitch(c)) = 2
      BY KillCommands
    <3> QED
      BY <3>1, <1>1, <2>1
  <2>3. cmd \in CommandType /\ cmd.chain # "REDSOCKS"
    BY <1>1, <2>1, <2>2, KillLeaves
  <2>4. Execute(cmd) \/ (cmd.op = "D*" /\ DeleteFirst(cmd.chain, cmd.rule))
    BY <1>1
  <2> HIDE DEF cmd
  <2> QED
    BY <1>3, <2>3, <2>4, LeavesGuarded
<1>7. ASSUME name = "kill_on"
      PROVE  Tables' /\ RedirectGuarded' /\ Blocking(job[p].cfg, job[p].at)'
  <2>1. Script(name, c) = ActivateKillSwitch(c)
    BY <1>7 DEF Script
  <2>2. k \in 1..Len(ActivateKillSwitch(c))
    <3>1. Len(ActivateKillSwitch(c)) = 4
      BY KillCommands
    <3> QED
      BY <3>1, <1>1, <2>1
  <2>3. Blocking(c, k)
    BY <1>7 DEF FInv
  <2>4. Tables' /\ RedirectGuarded'
    <3>1. cmd \in CommandType /\ cmd.chain # "REDSOCKS"
      BY <1>1, <2>1, <2>2, KillLeaves
    <3>2. Execute(cmd) \/ (cmd.op = "D*" /\ DeleteFirst(cmd.chain, cmd.rule))
      BY <1>1
    <3> HIDE DEF cmd
    <3> QED
      BY <1>3, <3>1, <3>2, LeavesGuarded
  <2>5. CASE Execute(cmd) /\ job'[p].at = k + 1
    <3>1. PICK d \in ConfigType, n \in Nat : d = c /\ n = k
      BY <1>1
    <3>2. Blocking(d, n + 1)'
      BY <3>1, <1>3, <2>1, <2>2, <2>3, <2>5, KillOnExecutes
    <3>3. job'[p].cfg = d /\ job'[p].at = n + 1
      BY <3>1, <1>1, <2>5
    <3> QED
      BY <2>4, <3>2, <3>3
  <2>6. CASE cmd.op = "D*" /\ DeleteFirst(cmd.chain, cmd.rule) /\ job'[p].at = k
    <3>1. PICK d \in ConfigType, n \in Nat : d = c /\ n = k
      BY <1>1
    <3>2. Blocking(d, n)'
      BY <3>1, <1>3, <2>1, <2>2, <2>3, <2>6, KillOnDeletes
    <3>3. job'[p].cfg = d /\ job'[p].at = n
      BY <3>1, <1>1, <2>6
    <3> QED
      BY <2>4, <3>2, <3>3
  <2> QED
    BY <1>1, <2>5, <2>6
<1>8. name # "none"
  <2>1. name = "none" => Script(name, c) = <<>>
    BY DEF Script
  <2>2. Len(<<>>) = 0
    OBVIOUS
  <2> QED
    BY <1>1, <2>1, <2>2
<1>9. Tables' /\ RedirectGuarded'
  BY <1>2, <1>4, <1>5, <1>6, <1>7, <1>8
<1> QED
  BY <1>1, <1>3, <1>4, <1>7, <1>9 DEF FInv

LEMMA StepHolds ==
    ASSUME NEW p \in Proc, Proc = {p}, FInv(p), [FirewallNext]_fwvars
    PROVE  FInv(p)'
<1>1. ASSUME UNCHANGED fwvars
      PROVE  FInv(p)'
  <2>1. rules' = rules /\ chains' = chains /\ uci' = uci /\ job' = job
    BY <1>1 DEF fwvars
  <2> QED
    BY <2>1, SameIsGuarded DEF FInv, Tables, Building, Blocking
<1>2. ASSUME FirewallNext
      PROVE  FInv(p)'
  <2>1. \/ \E name \in ScriptName : Call(p, name)
        \/ LoadConfig(p) \/ Command(p)
        \/ \E c \in Config : Commit(c)
    BY <1>2 DEF FirewallNext
  <2> QED
    BY <2>1, CallHolds, LoadConfigHolds, CommandHolds, CommitHolds
<1> QED
  BY <1>1, <1>2

LEMMA FirewallInvariant ==
    ASSUME NEW p \in Proc, Proc = {p}
    PROVE  FirewallSpec => []FInv(p)
<1>1. FirewallInit => FInv(p)
  BY InitHolds
<1>2. FInv(p) /\ [FirewallNext]_fwvars => FInv(p)'
  BY StepHolds
<1> QED
  BY <1>1, <1>2, PTL DEF FirewallSpec

(* Used by one process, the script never has traffic redirected to redsocks  *)
(* without the exclusions of the private ranges and of a proxy in front, not *)
(* even half-way through apply or remove (firewall.rules:95-97).             *)
THEOREM RedirectsAreGuarded ==
    ASSUME NEW p \in Proc, Proc = {p}
    PROVE  FirewallSpec => []RedirectGuarded
<1>1. FInv(p) => RedirectGuarded
  BY DEF FInv
<1> QED
  BY <1>1, FirewallInvariant, PTL

(* A jump at the head of FORWARD to a chain of one DROP blocks everything.   *)
LEMMA JumpBlocks ==
    ASSUME NEW c \in ConfigType, Len(rules["FORWARD"]) \in Nat, Len(rules["FORWARD"]) > 0,
           rules["FORWARD"][1] = KillJump(c), rules["CAMOFOX_KILLSW"] = <<KillDrop>>
    PROVE  AllBlocked(c.lan)
<1>1. KillChainDrops
  BY DEF KillChainDrops, KillDrop, Rl
<1>2. ASSUME NEW kind \in PacketKind
      PROVE  Dropped(c.lan, kind)
  <2>1. 1 \in 1..Len(rules["FORWARD"]) /\ ~ \E j \in 1..(1 - 1) : TRUE
    OBVIOUS
  <2>2. Matches(rules["FORWARD"][1], c.lan, kind) /\ Drops(rules["FORWARD"][1])
    BY <1>1 DEF Matches, Drops, KillJump, Rl
  <2> QED
    BY <2>1, <2>2 DEF Dropped
<1> QED
  BY <1>2 DEF AllBlocked

(* When kill_on ended and its chain exists no packet of the LAN is forwarded,*)
(* whatever was applied before (firewall.rules:164-167).                     *)
THEOREM KillOnBlocks ==
    ASSUME NEW p \in Proc, Proc = {p}
    PROVE  FirewallSpec => []KillOnBlocksAll
<1>1. FInv(p) => KillOnBlocksAll
  <2> SUFFICES ASSUME FInv(p), Ran(p, "kill_on"), "CAMOFOX_KILLSW" \in chains
               PROVE  AllBlocked(job[p].cfg.lan)
    BY DEF KillOnBlocksAll
  <2>1. job[p].cfg \in ConfigType /\ job[p].at \in Nat
    BY ConfigAssumption DEF FInv, Job
  <2>2. job[p].name = "kill_on" /\ job[p].at > 4
    <3>1. job[p].name = "kill_on" /\ Finished(p)
      BY DEF Ran
    <3>2. Commands(p) = ActivateKillSwitch(job[p].cfg)
      BY <3>1 DEF Commands, Script
    <3>3. Len(Commands(p)) = 4
      BY <3>2, KillCommands
    <3> QED
      BY <3>1, <3>3 DEF Finished
  <2>3. job[p].at >= 3 /\ job[p].at >= 5
    BY <2>1, <2>2
  <2>4. Blocking(job[p].cfg, job[p].at)
    BY <2>2 DEF FInv
  <2>5. rules["CAMOFOX_KILLSW"] = <<KillDrop>> /\ Len(rules["FORWARD"]) > 0
        /\ rules["FORWARD"][1] = KillJump(job[p].cfg)
    BY <2>3, <2>4 DEF Blocking
  <2>6. Len(rules["FORWARD"]) \in Nat
    BY LenProperties DEF FInv, Tables, Chain, BuiltIn
  <2> QED
    BY <2>1, <2>5, <2>6, JumpBlocks
<1> QED
  BY <1>1, FirewallInvariant, PTL

-----------------------------------------------------------------------------
(* The router: types, and what is waiting to be run.                         *)

JobType == [name : ScriptName \cup {"none"}, cfg : ConfigType, at : Nat]

FirewallFits == Tables /\ uci \in ConfigType /\ job \in [Proc -> JobType]

MonitorsFit ==
    /\ pc \in [Monitor -> PC] /\ fail \in [Monitor -> 0..FailThreshold]
    /\ mcfg \in [Monitor -> ConfigType] /\ pidFile \in Monitor \cup {NoPid}

ServiceFits ==
    /\ ipc \in IPC /\ holder \in Caller \cup {"nobody"}
    /\ icfg \in ConfigType /\ ipid \in Monitor \cup {NoPid}
    /\ conf \in ProxyIP \cup {NoIP} /\ redsocks \in ProxyIP \cup {NoIP}
    /\ gateway \in ProxyIP /\ hpc \in {"idle", "sleeping", "restarting"}

(* What every step does to the firewall's variables, and who calls a script. *)
Calls ==
    \/ ipc = "load" /\ ipc' = "applying" /\ uci.enabled /\ OrphansDone /\ Call(InitProc, "apply")
    \/ ipc = "rm_state" /\ ipc' = "removing" /\ OrphansDone /\ Call(InitProc, "remove")
    \/ \E m \in Monitor : /\ \/ pc[m] = "bad" /\ pc' = [pc EXCEPT ![m] = "kill_on"] /\ Call(m, "kill_on")
                             \/ pc[m] = "restore" /\ pc' = [pc EXCEPT ![m] = "kill_off"] /\ Call(m, "kill_off")
                          /\ UNCHANGED <<ipc, fail>>

Runs == (\E p \in Proc : LoadConfig(p) \/ Command(p)) /\ UNCHANGED <<ipc, pc, fail>>

LEMMA ConfigEdited ==
    ASSUME NEW c \in ConfigType
    PROVE  /\ [c EXCEPT !.enabled = ~@] \in ConfigType
           /\ \A ip \in ProxyIP : [c EXCEPT !.ip = ip] \in ConfigType
BY DEF ConfigType

LEMMA FirewallSteps ==
    ASSUME FirewallFits, ServiceFits, [RouterNext]_rvars
    PROVE  \/ Calls \/ Runs
           \/ UNCHANGED <<rules, chains, job>> /\ uci' \in ConfigType
<1>1. CASE InitStep
  BY <1>1 DEF InitStep, Calls, FirewallFits, Acquire, StartLoad, Applied, ConfigureDoh, ReadPid, KillByPid, RemovePid,
     SpawnMonitor, ProcdSet, ProcdEmpty, BeltKill, BeltRemove, RemoveState, Removed, ProcdKill, vars, fwvars, InGoto
<1>2. CASE UserStep
  <2>1. UNCHANGED <<rules, chains, job>>
    BY <1>2 DEF UserStep, CmdStart, CmdStop, CmdRestart, Reconfigure, Setup, CmdEnable, Submit
  <2>2. uci' \in ConfigType
    <3>1. CASE CmdStart \/ CmdStop \/ CmdRestart
      BY <3>1 DEF CmdStart, CmdStop, CmdRestart, FirewallFits
    <3>2. CASE Reconfigure \/ Setup
      BY <3>2, ConfigAssumption DEF Reconfigure, Setup
    <3>3. CASE CmdEnable
      BY <3>3, ConfigEdited DEF CmdEnable, FirewallFits
    <3> QED
      BY <1>2, <3>1, <3>2, <3>3 DEF UserStep
  <2> QED
    BY <2>1, <2>2
<1>3. CASE HotplugStep
  BY <1>3, ConfigEdited DEF HotplugStep, HotplugStart, HotplugDetect, HotplugDone, FirewallFits, ServiceFits, vars
<1>4. CASE PhoneConnects \/ ProxyToggles \/ UNCHANGED rvars
  BY <1>4 DEF PhoneConnects, ProxyToggles, FirewallFits, fwvars, rvars, vars
<1>5. CASE Background
  <2>1. CASE \E p \in Proc : ScriptStep(p)
    BY <1>5, <2>1 DEF Background, ScriptStep, Runs, monvars, initvars
  <2>2. ASSUME NEW m \in Monitor, MonitorStep(m)
        PROVE  Calls \/ UNCHANGED <<rules, chains, job, uci>>
    <3>1. CASE Restore(m) \/ ProxyBad(m)
      BY <1>5, <2>2, <3>1 DEF Background, Restore, ProxyBad, Goto, Calls, fwvars, initvars
    <3>2. CASE ~(Restore(m) \/ ProxyBad(m))
      BY <2>2, <3>2 DEF MonitorStep, Load, WritePid, Starting, Probe, ProxyOk, ChildDone, SetUp, SetDown, fwvars
    <3> QED
      BY <3>1, <3>2
  <2> QED
    BY <1>5, <2>1, <2>2 DEF Background, FirewallFits
<1> QED
  BY <1>1, <1>2, <1>3, <1>4, <1>5 DEF RouterNext

(* Calls, the loading of a configuration and commands keep the types.        *)
LEMMA CalledIs ==
    ASSUME FirewallFits, NEW p \in Proc, NEW name \in ScriptName, Call(p, name)
    PROVE  /\ FirewallFits' /\ UNCHANGED <<rules, chains, uci>>
           /\ job'[p] = [name |-> name, cfg |-> uci, at |-> 0]
           /\ \A q \in Proc \ {p} : job'[q] = job[q]
<1>1. [name |-> name, cfg |-> uci, at |-> 0] \in JobType
  BY DEF JobType, FirewallFits
<1> QED
  BY <1>1 DEF Call, FirewallFits, Tables

LEMMA LoadedIs ==
    ASSUME FirewallFits, NEW p \in Proc, LoadConfig(p)
    PROVE  /\ FirewallFits' /\ UNCHANGED <<rules, chains, uci>>
           /\ job[p].at = 0 /\ job'[p].at = 1 /\ job'[p].cfg = uci /\ job'[p].name = job[p].name
           /\ ~Finished(p)
           /\ \A q \in Proc \ {p} : job'[q] = job[q]
<1>1. job[p] \in JobType /\ uci \in ConfigType
  BY DEF FirewallFits
<1>2. job' = [job EXCEPT ![p] = [job[p] EXCEPT !.cfg = uci, !.at = 1]]
  BY <1>1 DEF LoadConfig, FirewallFits
<1>3. /\ [job[p] EXCEPT !.cfg = uci, !.at = 1] \in JobType
      /\ [job[p] EXCEPT !.cfg = uci, !.at = 1].at = 1
      /\ [job[p] EXCEPT !.cfg = uci, !.at = 1].cfg = uci
      /\ [job[p] EXCEPT !.cfg = uci, !.at = 1].name = job[p].name
  BY <1>1 DEF JobType
<1> QED
  BY <1>2, <1>3 DEF LoadConfig, FirewallFits, Tables

(* The commands of every script are commands.                                *)
LEMMA ScriptType ==
    ASSUME NEW name \in ScriptName \cup {"none"}, NEW c \in ConfigType
    PROVE  Script(name, c) \in Seq(CommandType)
<1>1. CASE name = "apply"
  BY <1>1, ApplyIsThis DEF Script
<1>2. CASE name = "remove"
  BY <1>2, RemoveType DEF Script
<1>3. /\ {"CAMOFOX_KILLSW", "FORWARD"} \subseteq Chain /\ {"F", "A", "D*", "I"} \subseteq Op
      /\ {NoRule, KillDrop, KillJump(c), KillReturn} \subseteq Rule
  BY RulesAreRules DEF Chain, BuiltIn, UserChain, Op
<1>4. CASE name = "kill_on"
  <2>1. Script(name, c) = ActivateKillSwitch(c)
    BY <1>4 DEF Script
  <2>2. ActivateKillSwitch(c) \in Seq(CommandType)
    BY <1>3, CmType DEF ActivateKillSwitch
  <2> QED
    BY <2>1, <2>2
<1>5. CASE name = "kill_off"
  <2>1. Script(name, c) = DeactivateKillSwitch(c)
    BY <1>5 DEF Script
  <2>2. DeactivateKillSwitch(c) \in Seq(CommandType)
    BY <1>3, CmType DEF DeactivateKillSwitch
  <2> QED
    BY <2>1, <2>2
<1>6. CASE name = "none"
  <2>1. Script(name, c) = <<>>
    BY <1>6 DEF Script
  <2> QED
    BY <2>1
<1> QED
  BY <1>1, <1>2, <1>4, <1>5, <1>6 DEF ScriptName

(* A command of process p: it deletes one rule and will come again, or it is *)
(* executed and the next one is due.                                         *)
LEMMA CommandDoes ==
    ASSUME FirewallFits, NEW p \in Proc, Command(p)
    PROVE  \E cmd \in CommandType :
             /\ cmd = Script(job[p].name, job[p].cfg)[job[p].at]
             /\ job[p].at \in 1..Len(Script(job[p].name, job[p].cfg))
             /\ ~Finished(p) /\ FirewallFits' /\ uci' = uci
             /\ job'[p].name = job[p].name /\ job'[p].cfg = job[p].cfg
             /\ \A q \in Proc \ {p} : job'[q] = job[q]
             /\ \/ Execute(cmd) /\ job'[p].at = job[p].at + 1
                     /\ ~(cmd.op = "D*" /\ Holds(cmd.chain, cmd.rule))
                \/ cmd.op = "D*" /\ DeleteFirst(cmd.chain, cmd.rule) /\ job' = job
<1> DEFINE s == Script(job[p].name, job[p].cfg)
           cmd == s[job[p].at]
<1>1. job[p] \in JobType /\ job[p].cfg \in ConfigType /\ job[p].name \in ScriptName \cup {"none"}
      /\ job[p].at \in Nat
  BY DEF FirewallFits, JobType
<1>2. s \in Seq(CommandType)
  BY <1>1, ScriptType
<1>3. job[p].at \in 1..Len(s)
  <2>1. Len(s) \in Nat
    BY <1>2, LenProperties
  <2>2. ~(job[p].at > Len(s)) /\ job[p].at > 0
    BY DEF Command, Finished, Commands
  <2> QED
    BY ONLY <2>1, <2>2, <1>1
<1>4. cmd \in CommandType
  BY <1>2, <1>3, ElementOfSeq
<1>5. ASSUME job' = [job EXCEPT ![p].at = @ + 1]
      PROVE  /\ job' \in [Proc -> JobType] /\ job'[p].at = job[p].at + 1
             /\ job'[p].name = job[p].name /\ job'[p].cfg = job[p].cfg
             /\ \A q \in Proc \ {p} : job'[q] = job[q]
  <2>1. job' = [job EXCEPT ![p] = [job[p] EXCEPT !.at = job[p].at + 1]]
    BY <1>5 DEF FirewallFits
  <2>2. job[p].at + 1 \in Nat
    BY <1>1
  <2>3. [job[p] EXCEPT !.at = job[p].at + 1] \in JobType
    BY <1>1, <2>2 DEF JobType
  <2>4. job'[p] = [job[p] EXCEPT !.at = job[p].at + 1]
    BY <2>1 DEF FirewallFits
  <2> QED
    BY <1>1, <2>1, <2>3, <2>4 DEF FirewallFits, JobType
<1>6. uci' = uci /\ ~Finished(p)
  BY DEF Command
<1>7. CASE cmd.op = "D*" /\ DeleteFirst(cmd.chain, cmd.rule) /\ job' = job
  <2>1. Tables'
    BY <1>4, <1>7, DeletesOne DEF FirewallFits, CommandType
  <2> QED
    BY <1>3, <1>4, <1>6, <1>7, <2>1 DEF FirewallFits
<1>8. CASE ~(cmd.op = "D*" /\ Holds(cmd.chain, cmd.rule)) /\ Execute(cmd) /\ job' = [job EXCEPT ![p].at = @ + 1]
  <2>1. Tables'
    BY <1>4, <1>8, ExecutesElsewhere DEF FirewallFits
  <2>2. FirewallFits'
    BY <1>5, <1>6, <1>8, <2>1 DEF FirewallFits
  <2> QED
    BY <1>3, <1>4, <1>5, <1>6, <1>8, <2>2
<1> QED
  BY <1>7, <1>8 DEF Command, Commands

LEMMA FirewallFitsKept ==
    ASSUME FirewallFits, ServiceFits, [RouterNext]_rvars
    PROVE  FirewallFits'
<1>1. CASE Calls
  <2>1. \E p \in Proc, name \in ScriptName : Call(p, name)
    BY <1>1, InitProcAssumption, MonitorAssumption DEF Calls, ScriptName
  <2> QED
    BY <2>1, CalledIs
<1>2. CASE Runs
  BY <1>2, LoadedIs, CommandDoes DEF Runs
<1>3. CASE UNCHANGED <<rules, chains, job>> /\ uci' \in ConfigType
  BY <1>3 DEF FirewallFits, Tables
<1> QED
  BY <1>1, <1>2, <1>3, FirewallSteps

-----------------------------------------------------------------------------
(* What is left to be run, and where the init script may be with it.         *)

Stopping == {"belt_kill", "belt_rm", "rm_state", "removing", "procd_kill"}

Path ==
    /\ todo \in [Caller -> {<<>>, <<"start">>, <<"stop">>, <<"stop", "start">>, <<"restart">>}]
    /\ todo["hotplug"] \in {<<>>, <<"restart">>, <<"start">>}
    /\ holder = "nobody" <=> ipc = "idle"
    /\ Busy => todo[holder] # <<>>
    /\ ipc \in {"load", "applying", "doh", "spawn", "procd_set", "procd_empty"} => CurrentOp = "start"
    /\ ipc \in Stopping => CurrentOp \in {"stop", "restart"}
    /\ hpc # "restarting" => todo["hotplug"] = <<>>
    /\ todo["hotplug"] = <<"start">> => holder = "hotplug" /\ ipc \notin Stopping

LEMMA Lists ==
    /\ Tail(<<"start">>) = <<>> /\ Tail(<<"stop">>) = <<>> /\ Tail(<<"restart">>) = <<>>
    /\ Tail(<<"stop", "start">>) = <<"start">>
    /\ <<"start">> \o Tail(<<"restart">>) = <<"start">>
    /\ Head(<<"start">>) = "start" /\ Head(<<"stop">>) = "stop" /\ Head(<<"restart">>) = "restart"
    /\ Head(<<"stop", "start">>) = "stop"
    /\ <<"start">> # <<>> /\ <<"stop">> # <<>> /\ <<"restart">> # <<>> /\ <<"stop", "start">> # <<>>
    /\ <<"start">> # <<"stop">> /\ <<"start">> # <<"restart">> /\ <<"start">> # <<"stop", "start">>
    /\ <<"stop">> # <<"restart">> /\ <<"stop">> # <<"stop", "start">> /\ <<"restart">> # <<"stop", "start">>
<1> DEFINE S == {"start", "stop", "restart"}
<1>1. /\ <<"start">> \in Seq(S) /\ <<"stop">> \in Seq(S) /\ <<"restart">> \in Seq(S)
      /\ <<"stop", "start">> \in Seq(S) /\ <<>> \in Seq(S)
      /\ Len(<<"start">>) = 1 /\ Len(<<"stop">>) = 1 /\ Len(<<"restart">>) = 1
      /\ Len(<<"stop", "start">>) = 2 /\ Len(<<>>) = 0
  OBVIOUS
<1>2. /\ <<"start">> # <<>> /\ <<"stop">> # <<>> /\ <<"restart">> # <<>> /\ <<"stop", "start">> # <<>>
  BY <1>1
<1>3. Tail(<<"start">>) = <<>> /\ Tail(<<"stop">>) = <<>> /\ Tail(<<"restart">>) = <<>>
  OBVIOUS
<1>4. Tail(<<"stop", "start">>) = <<"start">>
  <2> DEFINE s == Tail(<<"stop", "start">>)
  <2>1. s \in Seq(S) /\ Len(s) = 1 /\ s[1] = "start"
    BY <1>1, <1>2, HeadTailProperties
  <2> HIDE DEF s
  <2>2. s = <<"start">>
    BY <2>1, <1>1, SeqEqual
  <2> QED
    BY <2>2 DEF s
<1>5. <<"start">> \o Tail(<<"restart">>) = <<"start">>
  BY <1>1, <1>3, ConcatEmptySeq
<1>6. /\ Head(<<"start">>) = "start" /\ Head(<<"stop">>) = "stop" /\ Head(<<"restart">>) = "restart"
      /\ Head(<<"stop", "start">>) = "stop"
  OBVIOUS
<1>7. <<"start">>[1] = "start" /\ <<"stop">>[1] = "stop" /\ <<"restart">>[1] = "restart"
  OBVIOUS
<1> QED
  BY <1>1, <1>2, <1>3, <1>4, <1>5, <1>6, <1>7

LEMMA UserPath ==
    ASSUME ServiceFits, Path, UserStep
    PROVE  ServiceFits' /\ Path'
<1>1. /\ \E ops \in {<<>>, <<"start">>, <<"stop">>, <<"stop", "start">>, <<"restart">>} : Submit(ops)
      /\ UserFree
  BY DEF UserStep, CmdStart, CmdStop, CmdRestart, Reconfigure, Setup, CmdEnable
<1>2. UNCHANGED <<initvars, hotvars>>
  BY <1>1 DEF Submit
<1>3. todo["user"] = <<>> /\ todo'["hotplug"] = todo["hotplug"]
      /\ todo' \in [Caller -> {<<>>, <<"start">>, <<"stop">>, <<"stop", "start">>, <<"restart">>}]
  BY <1>1 DEF Submit, UserFree, Path, Caller
<1>4. holder # "user"
  BY <1>3, Lists DEF Path, Busy
<1>5. Busy => todo'[holder] = todo[holder]
  BY <1>3, <1>4 DEF ServiceFits, Path, Caller, Busy
<1>6. ServiceFits'
  BY <1>2 DEF ServiceFits, initvars, hotvars
<1> QED
  BY <1>2, <1>3, <1>4, <1>5, <1>6 DEF Path, initvars, hotvars, Busy, CurrentOp, Stopping

LEMMA HotplugPath ==
    ASSUME ServiceFits, Path, HotplugStep
    PROVE  ServiceFits' /\ Path'
<1>1. UNCHANGED initvars /\ gateway' = gateway
  BY DEF HotplugStep, HotplugStart, HotplugDetect, HotplugDone
<1>2. hpc' \in {"idle", "sleeping", "restarting"}
  BY DEF HotplugStep, HotplugStart, HotplugDetect, HotplugDone
<1>3. ServiceFits'
  BY <1>1, <1>2 DEF ServiceFits, initvars
<1>4. CASE HotplugStart \/ HotplugDone
  <2>1. todo' = todo /\ (hpc' # "restarting" => todo["hotplug"] = <<>>)
    BY <1>4 DEF HotplugStart, HotplugDone, Path
  <2>2. holder' = holder /\ ipc' = ipc
    BY <1>1 DEF initvars
  <2>3. CurrentOp' = CurrentOp /\ (Busy' <=> Busy)
    BY <2>1, <2>2 DEF CurrentOp, Busy
  <2> QED
    BY <1>3, <2>1, <2>2, <2>3 DEF Path, Stopping
<1>5. CASE HotplugDetect
  <2>1. /\ todo["hotplug"] = <<>> /\ todo'["hotplug"] = <<"restart">> /\ todo'["user"] = todo["user"]
        /\ todo' \in [Caller -> {<<>>, <<"start">>, <<"stop">>, <<"stop", "start">>, <<"restart">>}]
    BY <1>5 DEF HotplugDetect, Path, Caller
  <2>2. holder # "hotplug"
    BY <2>1, Lists DEF Path, Busy
  <2>3. Busy => todo'[holder] = todo[holder]
    BY <2>1, <2>2 DEF ServiceFits, Path, Caller, Busy
  <2>4. hpc' = "restarting"
    BY <1>5 DEF HotplugDetect
  <2> QED
    BY <1>1, <1>3, <2>1, <2>2, <2>3, <2>4, Lists DEF Path, initvars, Busy, CurrentOp, Stopping
<1> QED
  BY <1>3, <1>4, <1>5 DEF HotplugStep

(* An init operation is over.                                                *)
LEMMA Released ==
    ASSUME ServiceFits, Path, holder # "nobody", Release(holder), ipc' = "idle", hpc' = hpc,
           CurrentOp # "restart"
    PROVE  Path'
<1>1. holder \in Caller /\ holder' = "nobody" /\ todo' = [todo EXCEPT ![holder] = Tail(todo[holder])]
  BY DEF ServiceFits, Release, Path
<1>2. todo[holder] \in {<<"start">>, <<"stop">>, <<"stop", "start">>}
  BY <1>1, Lists DEF Path, Busy, CurrentOp
<1>3. Tail(todo[holder]) \in {<<>>, <<"start">>}
  BY <1>2, Lists
<1>4. todo' \in [Caller -> {<<>>, <<"start">>, <<"stop">>, <<"stop", "start">>, <<"restart">>}]
  BY <1>1, <1>3 DEF Path
<1>5. todo'["hotplug"] \in {<<>>, <<"restart">>}
  <2>1. CASE holder = "hotplug"
    <3>1. todo["hotplug"] = <<"start">>
      BY <1>2, <2>1, Lists DEF Path
    <3> QED
      BY <1>1, <2>1, <3>1, Lists DEF Path, Caller
  <2>2. CASE holder # "hotplug"
    <3>1. todo'["hotplug"] = todo["hotplug"]
      BY <1>1, <2>2 DEF Path, Caller
    <3>2. todo["hotplug"] # <<"start">>
      BY <2>2 DEF Path
    <3> QED
      BY <3>1, <3>2 DEF Path
  <2> QED
    BY <2>1, <2>2
<1>6. hpc # "restarting" => todo'["hotplug"] = <<>>
  <2>1. CASE holder = "hotplug"
    BY <2>1, <1>5, <1>2, Lists DEF Path
  <2>2. CASE holder # "hotplug"
    BY <1>1, <2>2 DEF Path, Caller
  <2> QED
    BY <2>1, <2>2
<1> QED
  BY <1>1, <1>4, <1>5, <1>6, Lists DEF Path, Busy, Stopping

(* An init operation begins.                                                 *)
LEMMA Acquired ==
    ASSUME ServiceFits, Path, NEW c \in Caller, Acquire(c)
    PROVE  ServiceFits' /\ Path'
<1>1. /\ todo[c] # <<>> /\ holder = "nobody" /\ holder' = c /\ ipc = "idle"
      /\ ipc' = IF Head(todo[c]) = "start" THEN "load" ELSE "read_pid"
      /\ UNCHANGED <<todo, icfg, ipid, conf, redsocks, gateway, hpc>>
  BY DEF Acquire, InGoto, hotvars
<1>2. ServiceFits'
  BY <1>1 DEF ServiceFits, IPC
<1>3. todo["hotplug"] # <<"start">>
  BY <1>1 DEF Path, Caller
<1> QED
  BY <1>1, <1>2, <1>3 DEF Path, Busy, CurrentOp, Stopping, Caller

(* A step inside an operation.                                               *)
LEMMA Proceeded ==
    ASSUME ServiceFits, Path, ipc # "idle", ipc' \in IPC, holder' = holder, todo' = todo, hpc' = hpc,
           ipc' # "idle",
           ipc \in Stopping => ipc' \in Stopping,
           ipc' \in Stopping => ipc \in Stopping \/ CurrentOp # "start",
           ipc' \in {"load", "applying", "doh", "spawn", "procd_set", "procd_empty"} =>
               CurrentOp = "start"
    PROVE  Path'
<1>1. todo[holder] # <<>> /\ CurrentOp' = CurrentOp
  BY DEF Path, Busy, CurrentOp
<1>2. CurrentOp \in {"start", "stop", "restart"}
  <2>1. holder \in Caller
    BY DEF ServiceFits, Path
  <2> QED
    BY <1>1, <2>1, Lists DEF Path, CurrentOp
<1>3. todo["hotplug"] = <<"start">> => ipc' \notin Stopping
  <2>1. todo["hotplug"] = <<"start">> => holder = "hotplug" /\ ipc \notin Stopping
    BY DEF Path
  <2>2. todo["hotplug"] = <<"start">> => CurrentOp = "start"
    BY <2>1, Lists DEF CurrentOp
  <2> QED
    BY <2>1, <2>2
<1> QED
  BY <1>1, <1>2, <1>3 DEF Path, Busy, Stopping

LEMMA InitPath ==
    ASSUME ServiceFits, Path, FirewallFits, MonitorsFit, InitStep
    PROVE  ServiceFits' /\ Path'
<1>1. CASE \E c \in Caller : Acquire(c)
  BY <1>1, Acquired
<1>2. CASE StartLoad
  <2>1. uci.ip \in ProxyIP
    BY DEF FirewallFits, ConfigType
  <2> QED
    BY <1>2, <2>1, Proceeded DEF StartLoad, InGoto, ServiceFits, Path, Stopping, IPC, FirewallFits, LoadCamofoxConfig,
       GenerateRedsocksConf, hotvars
<1>3. CASE Applied \/ ConfigureDoh
  BY <1>3, Proceeded DEF Applied, ConfigureDoh, InGoto, ServiceFits, Path, Stopping, IPC, hotvars
<1>4. CASE ReadPid
  BY <1>4, Proceeded DEF ReadPid, AfterHealthStop, InGoto, ServiceFits, Path, Stopping, IPC, MonitorsFit, hotvars
<1>5. CASE KillByPid \/ RemovePid
  BY <1>5, Proceeded DEF KillByPid, RemovePid, AfterHealthStop, InGoto, ServiceFits, Path, Stopping, IPC, hotvars
<1>6. CASE \E m \in Monitor : SpawnMonitor(m)
  BY <1>6, Proceeded DEF SpawnMonitor, InGoto, ServiceFits, Path, Stopping, IPC, hotvars
<1>7. CASE ProcdSet \/ ProcdEmpty
  <2>1. /\ holder # "nobody" /\ Release(holder) /\ ipc' = "idle" /\ hpc' = hpc /\ CurrentOp = "start"
        /\ redsocks' \in {redsocks, conf, NoIP}
        /\ UNCHANGED <<icfg, ipid, conf, gateway>>
    BY <1>7 DEF ProcdSet, ProcdEmpty, InGoto, Path, hotvars
  <2>2. holder' = "nobody"
    BY <2>1 DEF Release
  <2> QED
    BY <2>1, <2>2, Released DEF ServiceFits, IPC
<1>8. CASE BeltKill \/ BeltRemove
  BY <1>8, Proceeded DEF BeltKill, BeltRemove, InGoto, ServiceFits, Path, Stopping, IPC, hotvars
<1>9. CASE RemoveState \/ Removed
  BY <1>9, Proceeded DEF RemoveState, Removed, InGoto, ServiceFits, Path, Stopping, IPC, hotvars
<1>10. CASE ProcdKill
  <2>1. ipc = "procd_kill" /\ holder # "nobody" /\ holder \in Caller /\ redsocks' = NoIP
        /\ UNCHANGED <<icfg, ipid, conf, gateway, hpc>> /\ todo["hotplug"] # <<"start">>
    BY <1>10 DEF ProcdKill, InGoto, Path, ServiceFits, hotvars, Stopping
  <2>2. CASE ipc' = "idle" /\ CurrentOp = "stop" /\ Release(holder)
    <3>1. holder' = "nobody"
      BY <2>2 DEF Release
    <3> QED
      BY <2>1, <2>2, <3>1, Released DEF ServiceFits, IPC
  <2>3. CASE ipc' = "load" /\ CurrentOp = "restart" /\ holder' = holder
             /\ todo' = [todo EXCEPT ![holder] = <<"start">> \o Tail(@)]
    <3>1. todo[holder] = <<"restart">>
      BY <2>1, <2>3, Lists DEF Path, CurrentOp, Busy
    <3>2. todo' = [todo EXCEPT ![holder] = <<"start">>]
      BY <2>3, <3>1, Lists
    <3>3. todo'[holder] = <<"start">> /\ \A c \in Caller \ {holder} : todo'[c] = todo[c]
      BY <2>1, <3>2 DEF Path
    <3>4. todo' \in [Caller -> {<<>>, <<"start">>, <<"stop">>, <<"stop", "start">>, <<"restart">>}]
      BY <3>2 DEF Path
    <3>5. todo'["hotplug"] \in {<<>>, <<"restart">>, <<"start">>}
      BY <2>1, <3>3 DEF Path, Caller
    <3>6. hpc # "restarting" => todo'["hotplug"] = <<>>
      BY <2>1, <3>1, <3>3, Lists DEF Path, Caller
    <3>7. todo'["hotplug"] = <<"start">> => holder = "hotplug"
      BY <2>1, <3>3 DEF Caller
    <3>8. ServiceFits'
      BY <2>1, <2>3 DEF ServiceFits, IPC
    <3> QED
      BY <2>1, <2>3, <3>3, <3>4, <3>5, <3>6, <3>7, <3>8, Lists DEF Path, Busy, CurrentOp, Stopping
  <2> QED
    BY <1>10, <2>2, <2>3 DEF ProcdKill, InGoto
<1> QED
  BY <1>1, <1>2, <1>3, <1>4, <1>5, <1>6, <1>7, <1>8, <1>9, <1>10 DEF InitStep

LEMMA PathKept ==
    ASSUME ServiceFits, Path, FirewallFits, MonitorsFit, [RouterNext]_rvars
    PROVE  ServiceFits' /\ Path'
<1>1. CASE PhoneConnects
  <2>1. gateway' \in ProxyIP /\ UNCHANGED <<todo, initvars, hpc>>
    BY <1>1 DEF PhoneConnects
  <2> QED
    BY <2>1 DEF ServiceFits, Path, initvars, Busy, CurrentOp, Stopping
<1>2. CASE ProxyToggles \/ Background \/ UNCHANGED rvars
  <2>1. UNCHANGED <<todo, initvars, hotvars>>
    BY <1>2 DEF ProxyToggles, Background, rvars
  <2> QED
    BY <2>1 DEF ServiceFits, Path, initvars, hotvars, Busy, CurrentOp, Stopping
<1> QED
  BY <1>1, <1>2, UserPath, HotplugPath, InitPath DEF RouterNext

LEMMA MonitorsFitKept ==
    ASSUME FirewallFits, ServiceFits, MonitorsFit, [RouterNext]_rvars
    PROVE  MonitorsFit'
<1>1. CASE InitStep
  <2>1. CASE \E m \in Monitor : SpawnMonitor(m)
    BY <2>1, ThresholdAssumption DEF SpawnMonitor, MonitorsFit, PC
  <2>2. CASE KillByPid \/ BeltKill
    BY <2>2 DEF KillByPid, BeltKill, KillMonitor, MonitorsFit, PC
  <2>3. CASE RemovePid \/ BeltRemove
    BY <2>3 DEF RemovePid, BeltRemove, MonitorsFit, monvars
  <2> QED
    BY <1>1, <2>1, <2>2, <2>3 DEF InitStep, Acquire, StartLoad, Applied, ConfigureDoh, ReadPid, ProcdSet, ProcdEmpty,
       RemoveState, Removed, ProcdKill, MonitorsFit, vars, monvars
<1>2. CASE UserStep \/ HotplugStep \/ PhoneConnects \/ ProxyToggles \/ UNCHANGED rvars
  <2>1. UNCHANGED <<monvars, pidFile>>
    BY <1>2 DEF UserStep, CmdStart, CmdStop, CmdRestart, Reconfigure, Setup, CmdEnable, Submit,
       HotplugStep, HotplugStart, HotplugDetect, HotplugDone, PhoneConnects, ProxyToggles, rvars, vars, monvars
  <2> QED
    BY <2>1 DEF MonitorsFit, monvars
<1>3. CASE Background
  <2>1. CASE \E p \in Proc : ScriptStep(p)
    BY <2>1 DEF ScriptStep, MonitorsFit, monvars
  <2>2. ASSUME NEW m \in Monitor, MonitorStep(m)
        PROVE  MonitorsFit'
    <3>1. CASE Load(m) \/ WritePid(m) \/ ProxyOk(m) \/ Restore(m) \/ ChildDone(m) \/ ProxyBad(m) \/ SetDown(m)
      BY <3>1 DEF MonitorsFit, FirewallFits, Load, WritePid, ProxyOk, Restore, ChildDone, ProxyBad, SetDown, Goto, PC
    <3>2. CASE Starting(m) \/ SetUp(m)
      BY <3>2, ThresholdAssumption DEF MonitorsFit, Starting, SetUp, Goto, PC
    <3>3. CASE Probe(m)
      <4>1. fail[m] \in 0..FailThreshold
        BY DEF MonitorsFit
      <4>2. fail[m] + 1 < FailThreshold => fail[m] + 1 \in 0..FailThreshold
        BY <4>1, ThresholdAssumption
      <4>3. FailThreshold \in 0..FailThreshold
        BY ThresholdAssumption
      <4> QED
        BY <3>3, <4>2, <4>3 DEF Probe, MonitorsFit, Goto, PC
    <3> QED
      BY <2>2, <3>1, <3>2, <3>3 DEF MonitorStep
  <2> QED
    BY <1>3, <2>1, <2>2 DEF Background
<1> QED
  BY <1>1, <1>2, <1>3 DEF RouterNext

-----------------------------------------------------------------------------
(* Whose scripts run: the init script waits for its own.                     *)
ScriptsFit ==
    /\ job[InitProc].name \in {"none", "apply", "remove"}
    /\ \A p \in Proc \ {InitProc} : job[p].name \in {"none", "kill_on", "kill_off"}
    /\ \A p \in Proc \ ({InitProc} \cup Monitor) : Finished(p)
    /\ ipc \notin {"applying", "removing"} => Finished(InitProc)
    /\ ipc = "applying" => job[InitProc].name = "apply"
    /\ ipc = "removing" => job[InitProc].name = "remove"
    /\ \A m \in Monitor : ~Finished(m) => pc[m] \in {"dead", job[m].name}

(* Every step but the init script's leaves the operation that runs alone.    *)
LEMMA Beside ==
    ASSUME ServiceFits, Path, [RouterNext]_rvars, ~InitStep
    PROVE  UNCHANGED initvars /\ (Busy => todo'[holder] = todo[holder])
<1>1. CASE UserStep
  <2>1. /\ \E ops \in {<<>>, <<"start">>, <<"stop">>, <<"stop", "start">>, <<"restart">>} : Submit(ops)
        /\ UserFree
    BY <1>1 DEF UserStep, CmdStart, CmdStop, CmdRestart, Reconfigure, Setup, CmdEnable
  <2>2. UNCHANGED initvars /\ \A c \in Caller \ {"user"} : todo'[c] = todo[c]
    BY <2>1 DEF Submit, Path
  <2>3. Busy => holder \in Caller \ {"user"}
    BY <2>1 DEF UserFree, Path, Busy, ServiceFits
  <2> QED
    BY <2>2, <2>3
<1>2. CASE HotplugDetect
  <2>1. UNCHANGED initvars /\ hpc = "sleeping" /\ \A c \in Caller \ {"hotplug"} : todo'[c] = todo[c]
    BY <1>2 DEF HotplugDetect, Path
  <2>2. Busy => holder \in Caller \ {"hotplug"}
    BY <2>1 DEF Path, Busy, ServiceFits
  <2> QED
    BY <2>1, <2>2
<1>3. CASE HotplugStart \/ HotplugDone \/ PhoneConnects \/ ProxyToggles \/ Background \/ UNCHANGED rvars
  BY <1>3 DEF HotplugStart, HotplugDone, PhoneConnects, ProxyToggles, Background, rvars
<1> QED
  BY <1>1, <1>2, <1>3 DEF RouterNext, HotplugStep

LEMMA ScriptsFitKept ==
    ASSUME FirewallFits, ServiceFits, MonitorsFit, Path, ScriptsFit, [RouterNext]_rvars
    PROVE  ScriptsFit'
<1>0. InitProc \in Proc /\ InitProc \notin Monitor /\ Monitor \subseteq Proc
  BY InitProcAssumption, MonitorAssumption
<1>1. CASE (StartLoad /\ ipc' = "applying") \/ RemoveState
  <2>1. PICK name \in {"apply", "remove"} :
           /\ Call(InitProc, name) /\ UNCHANGED pc
           /\ ipc' = IF name = "apply" THEN "applying" ELSE "removing"
    BY <1>1 DEF StartLoad, RemoveState, InGoto, monvars
  <2>2. job'[InitProc].name = name /\ \A q \in Proc \ {InitProc} : job'[q] = job[q]
    BY <1>0, <2>1, CalledIs DEF ScriptName
  <2> QED
    BY <1>0, <2>1, <2>2 DEF ScriptsFit, Finished, Commands
<1>2. CASE Applied \/ Removed
  <2>1. Finished(InitProc) /\ ipc' \notin {"applying", "removing"} /\ UNCHANGED <<job, pc>>
    BY <1>2 DEF Applied, Removed, InGoto, vars
  <2> QED
    BY <2>1 DEF ScriptsFit, Finished, Commands
<1>3. CASE InitStep /\ ~(StartLoad /\ ipc' = "applying") /\ ~RemoveState /\ ~Applied /\ ~Removed
  <2>1. /\ ipc \notin {"applying", "removing"} /\ ipc' \notin {"applying", "removing"}
        /\ UNCHANGED job
    BY <1>3 DEF InitStep, Acquire, StartLoad, ConfigureDoh, ReadPid, KillByPid, RemovePid, SpawnMonitor, ProcdSet,
       ProcdEmpty, BeltKill, BeltRemove, ProcdKill, InGoto, AfterHealthStop, vars, fwvars
  <2>2. \A m \in Monitor : ~Finished(m) => pc'[m] \in {"dead", pc[m]}
    <3>1. CASE \E m \in Monitor : SpawnMonitor(m)
      BY <3>1 DEF SpawnMonitor, MonitorsFit
    <3>2. CASE KillByPid \/ BeltKill
      BY <3>2 DEF KillByPid, BeltKill, KillMonitor, MonitorsFit
    <3> QED
      BY <1>3, <3>1, <3>2 DEF InitStep, Acquire, StartLoad, ConfigureDoh, ReadPid, RemovePid, ProcdSet, ProcdEmpty,
         BeltRemove, ProcdKill, vars, monvars
  <2> QED
    BY <2>1, <2>2 DEF ScriptsFit, Finished, Commands
<1>4. CASE Background /\ \E p \in Proc : ScriptStep(p)
  <2>1. PICK p \in Proc : LoadConfig(p) \/ Command(p)
    BY <1>4 DEF ScriptStep
  <2>2. UNCHANGED <<ipc, pc>>
    BY <1>4 DEF Background, ScriptStep, monvars, initvars
  <2>3. job'[p].name = job[p].name /\ ~Finished(p) /\ \A q \in Proc \ {p} : job'[q] = job[q]
    BY <2>1, LoadedIs, CommandDoes
  <2>4. \A q \in Proc : job'[q].name = job[q].name /\ (Finished(q) => Finished(q)')
    BY <2>3 DEF Finished, Commands
  <2> QED
    BY <1>0, <2>2, <2>4 DEF ScriptsFit
<1>5. CASE Background /\ ~ \E p \in Proc : ScriptStep(p)
  <2>1. PICK m \in Monitor : MonitorStep(m)
    BY <1>5 DEF Background
  <2>2. UNCHANGED ipc
    BY <1>5 DEF Background, initvars
  <2>3. CASE UNCHANGED job
    <3>1. ~Finished(m) => pc[m] \notin {"load", "write_pid", "starting", "check", "ok", "restore", "set_up", "bad", "set_down"}
      BY <1>0 DEF ScriptsFit
    <3>2. ~Finished(m) => pc' = pc
      BY <2>1, <3>1 DEF MonitorStep, Load, WritePid, Starting, Probe, ProxyOk, Restore, ChildDone, SetUp, ProxyBad, SetDown, Goto
    <3>3. \A n \in Monitor \ {m} : pc'[n] = pc[n]
      BY <2>1 DEF MonitorStep, Load, WritePid, Starting, Probe, ProxyOk, Restore, ChildDone, SetUp, ProxyBad, SetDown, Goto, MonitorsFit
    <3> QED
      BY <2>2, <2>3, <3>2, <3>3 DEF ScriptsFit, Finished, Commands
  <2>4. CASE ~UNCHANGED job
    <3>1. PICK name \in {"kill_on", "kill_off"} : Call(m, name) /\ pc' = [pc EXCEPT ![m] = name]
      BY <2>1, <2>4 DEF MonitorStep, Load, WritePid, Starting, Probe, ProxyOk, Restore, ChildDone, SetUp, ProxyBad, SetDown, Goto, fwvars
    <3>2. job'[m].name = name /\ (\A q \in Proc \ {m} : job'[q] = job[q]) /\ m \in Proc /\ m # InitProc
      BY <1>0, <3>1, CalledIs DEF ScriptName
    <3>3. pc'[m] = name /\ \A n \in Monitor \ {m} : pc'[n] = pc[n]
      BY <3>1 DEF MonitorsFit
    <3> QED
      BY <1>0, <2>2, <3>2, <3>3 DEF ScriptsFit, Finished, Commands
  <2> QED
    BY <2>3, <2>4
<1>6. CASE UserStep \/ HotplugStep \/ PhoneConnects \/ ProxyToggles \/ UNCHANGED rvars
  <2>1. UNCHANGED <<job, pc, ipc>>
    BY <1>6 DEF UserStep, CmdStart, CmdStop, CmdRestart, Reconfigure, Setup, CmdEnable, Submit, HotplugStep, HotplugStart,
       HotplugDetect, HotplugDone, PhoneConnects, ProxyToggles, rvars, vars, fwvars, monvars, initvars
  <2> QED
    BY <2>1 DEF ScriptsFit, Finished, Commands
<1> QED
  BY <1>1, <1>2, <1>3, <1>4, <1>5, <1>6 DEF RouterNext

-----------------------------------------------------------------------------
(* A start that has decided to bring the service up is on its way until      *)
(* procd starts redsocks.                                                    *)
OnWay ==
    \/ ipc \in {"applying", "doh", "spawn", "procd_set"}
    \/ ipc \in {"read_pid", "kill", "rm_pid"} /\ CurrentOp = "start"

(* With the service disabled nothing runs that a start would leave running.  *)
DisabledIsDown ==
    /\ ipc = "procd_empty" => redsocks = NoIP
    /\ ipc = "load" /\ holder = "hotplug" => redsocks = NoIP
    /\ todo["user"] = <<"start">> /\ ~uci.enabled => redsocks = NoIP /\ ~OnWay
    /\ OnWay => conf # NoIP

(* How the init script's steps move it, and what they do to redsocks.        *)
LEMMA InitMoves ==
    ASSUME FirewallFits, ServiceFits, Path, InitStep
    PROVE  /\ UNCHANGED <<uci, hotvars, listening>>
           /\ \/ /\ ipc = "load" /\ ipc' = "applying" /\ uci.enabled /\ conf' = uci.ip /\ OnWay'
                 /\ UNCHANGED <<todo, holder, redsocks>>
              \/ /\ ipc = "procd_set" /\ ipc' = "idle" /\ holder' = "nobody" /\ UNCHANGED conf
                 /\ redsocks' = IF redsocks = NoIP THEN conf ELSE redsocks
                 /\ todo' = [todo EXCEPT ![holder] = Tail(@)] /\ CurrentOp = "start"
              \/ /\ ipc = "procd_kill" /\ redsocks' = NoIP /\ UNCHANGED conf
                 /\ \/ ipc' = "idle" /\ holder' = "nobody" /\ CurrentOp = "stop"
                          /\ todo' = [todo EXCEPT ![holder] = Tail(@)]
                    \/ ipc' = "load" /\ holder' = holder /\ CurrentOp = "restart"
                          /\ todo' = [todo EXCEPT ![holder] = <<"start">> \o Tail(@)]
              \/ /\ ipc = "procd_empty" /\ ipc' = "idle" /\ holder' = "nobody" /\ UNCHANGED conf
                 /\ redsocks' = NoIP /\ CurrentOp = "start"
                 /\ todo' = [todo EXCEPT ![holder] = Tail(@)]
              \/ /\ ipc = "load" /\ ipc' = "procd_empty" /\ ~uci.enabled
                 /\ UNCHANGED <<todo, holder, redsocks, conf>>
              \/ /\ \E c \in Caller : holder' = c /\ todo[c] # <<>>
                                      /\ ipc' = IF Head(todo[c]) = "start" THEN "load" ELSE "read_pid"
                 /\ ipc = "idle" /\ UNCHANGED <<todo, redsocks, conf>>
              \/ /\ ipc = "removing" /\ ipc' = "procd_kill" /\ Finished(InitProc) /\ conf' = NoIP
                 /\ UNCHANGED <<todo, holder, redsocks>>
              \/ /\ ipc \notin {"idle", "load", "procd_set", "procd_kill", "procd_empty", "removing"}
                 /\ ipc' \notin {"idle", "load", "applying", "procd_kill", "procd_empty"}
                 /\ ipc = "applying" => Finished(InitProc)
                 /\ ipc \in {"rm_state"} <=> ipc' = "removing"
                 /\ UNCHANGED <<todo, holder, redsocks, conf>> /\ (OnWay' <=> OnWay)
<1>1. UNCHANGED <<uci, hotvars, listening>>
  BY DEF InitStep, Acquire, StartLoad, Call, Applied, ConfigureDoh, ReadPid, KillByPid, RemovePid, SpawnMonitor, ProcdSet,
     ProcdEmpty, BeltKill, BeltRemove, RemoveState, Removed, ProcdKill, vars, fwvars
<1>2. CASE Acquire("user") \/ Acquire("hotplug")
  <2>1. PICK c \in Caller : Acquire(c)
    BY <1>2 DEF Caller
  <2> QED
    BY <1>1, <2>1 DEF Acquire, InGoto
<1>3. CASE StartLoad
  BY <1>1, <1>3 DEF StartLoad, InGoto, GenerateRedsocksConf, OnWay
<1>4. CASE ProcdSet \/ ProcdEmpty \/ ProcdKill
  <2>1. ipc \in {"procd_set", "procd_empty"} => CurrentOp = "start"
    BY DEF Path
  <2> QED
    BY <1>1, <1>4, <2>1 DEF ProcdSet, ProcdEmpty, ProcdKill, InGoto, Release
<1>5. CASE Removed
  BY <1>1, <1>5 DEF Removed, InGoto
<1>6. CASE Applied \/ ConfigureDoh \/ ReadPid \/ KillByPid \/ RemovePid \/ BeltKill \/ BeltRemove \/ RemoveState
           \/ \E m \in Monitor : SpawnMonitor(m)
  <2>1. UNCHANGED <<todo, holder, redsocks, conf>> /\ CurrentOp' = CurrentOp
    BY <1>6 DEF Applied, ConfigureDoh, ReadPid, KillByPid, RemovePid, BeltKill, BeltRemove, RemoveState, SpawnMonitor, CurrentOp
  <2>2. /\ ipc \notin {"idle", "load", "procd_set", "procd_kill", "procd_empty", "removing"}
        /\ ipc' \notin {"idle", "load", "applying", "procd_kill", "procd_empty"}
        /\ ipc = "applying" => Finished(InitProc)
        /\ ipc \in {"rm_state"} <=> ipc' = "removing"
    BY <1>6 DEF Applied, ConfigureDoh, ReadPid, KillByPid, RemovePid, BeltKill, BeltRemove, RemoveState, SpawnMonitor, InGoto, AfterHealthStop
  <2>3. ipc \in {"applying", "doh", "spawn", "procd_set"} => CurrentOp = "start"
    BY DEF Path
  <2>4. OnWay' <=> OnWay
    BY <1>6, <2>1, <2>3 DEF Applied, ConfigureDoh, ReadPid, KillByPid, RemovePid, BeltKill, BeltRemove, RemoveState, SpawnMonitor, InGoto, AfterHealthStop, OnWay
  <2> QED
    BY <1>1, <2>1, <2>2, <2>4
<1> QED
  BY <1>2, <1>3, <1>4, <1>5, <1>6 DEF InitStep, Caller

(* The other steps: the service is left alone.                               *)
LEMMA BesideMoves ==
    ASSUME ServiceFits, Path, [RouterNext]_rvars, ~InitStep
    PROVE  /\ UNCHANGED <<ipc, holder, icfg, ipid, conf, redsocks, dnsmasq>> /\ (OnWay' <=> OnWay)
           /\ Busy => CurrentOp' = CurrentOp
<1>1. UNCHANGED <<ipc, holder, icfg, ipid, conf, redsocks, dnsmasq>> /\ (Busy => todo'[holder] = todo[holder])
  BY Beside DEF initvars
<1> QED
  BY <1>1 DEF OnWay, CurrentOp, Busy

(* What the user and hotplug may do to the configuration.                    *)
LEMMA ConfigMoves ==
    ASSUME FirewallFits, Path, [RouterNext]_rvars, ~InitStep,
           todo'["user"] = <<"start">>, ~uci'.enabled
    PROVE  todo["user"] = <<"start">> /\ ~uci.enabled
<1>1. CASE UserStep
  <2>1. CASE CmdStart \/ Setup
    BY <2>1 DEF CmdStart, Setup
  <2>2. CASE CmdStop \/ CmdRestart \/ Reconfigure \/ CmdEnable
    <3>1. \E ops \in {<<>>, <<"stop">>, <<"stop", "start">>, <<"restart">>} : todo' = [todo EXCEPT !["user"] = ops]
      BY <2>2 DEF CmdStop, CmdRestart, Reconfigure, CmdEnable, Submit
    <3> QED
      BY <3>1, Lists DEF Path, Caller
  <2> QED
    BY <1>1, <2>1, <2>2, Lists DEF UserStep
<1>2. CASE HotplugDetect
  <2>1. todo'["user"] = todo["user"]
    BY <1>2 DEF HotplugDetect, Path, Caller
  <2>2. uci'.enabled = uci.enabled
    BY <1>2 DEF HotplugDetect, FirewallFits, ConfigType
  <2> QED
    BY <2>1, <2>2
<1>3. CASE HotplugStart \/ HotplugDone \/ PhoneConnects \/ ProxyToggles \/ UNCHANGED rvars
  BY <1>3 DEF HotplugStart, HotplugDone, PhoneConnects, ProxyToggles, rvars, vars, fwvars
<1>4. CASE Background
  <2>1. UNCHANGED todo
    BY <1>4 DEF Background
  <2>2. UNCHANGED uci
    <3>1. CASE \E p \in Proc : ScriptStep(p)
      BY <3>1 DEF ScriptStep, LoadConfig, Command
    <3>2. CASE \E m \in Monitor : MonitorStep(m)
      BY <3>2 DEF MonitorStep, Load, WritePid, Starting, Probe, ProxyOk, Restore, ChildDone, SetUp, ProxyBad, SetDown, Call, fwvars
    <3> QED
      BY <1>4, <3>1, <3>2 DEF Background
  <2> QED
    BY <2>1, <2>2
<1> QED
  BY <1>1, <1>2, <1>3, <1>4 DEF RouterNext, HotplugStep

LEMMA DisabledIsDownKept ==
    ASSUME FirewallFits, ServiceFits, Path, DisabledIsDown, [RouterNext]_rvars
    PROVE  DisabledIsDown'
<1>1. CASE ~InitStep
  <2>1. /\ UNCHANGED <<ipc, holder, icfg, ipid, conf, redsocks, dnsmasq>> /\ (OnWay' <=> OnWay)
        /\ todo'["user"] = <<"start">> /\ ~uci'.enabled => todo["user"] = <<"start">> /\ ~uci.enabled
    BY <1>1, BesideMoves, ConfigMoves
  <2> QED
    BY <2>1 DEF DisabledIsDown
<1>2. CASE InitStep
  <2>0. uci' = uci /\ NoIP \notin ProxyIP /\ uci.ip \in ProxyIP
    BY <1>2, InitMoves, NoIPAssumption DEF FirewallFits, ConfigType
  <2>1. CASE /\ ipc = "load" /\ ipc' = "applying" /\ uci.enabled /\ conf' = uci.ip /\ OnWay'
             /\ UNCHANGED <<todo, holder, redsocks>>
    BY <2>0, <2>1 DEF DisabledIsDown
  <2>2. CASE /\ ipc = "procd_set" /\ ipc' = "idle" /\ holder' = "nobody" /\ UNCHANGED conf
             /\ redsocks' = IF redsocks = NoIP THEN conf ELSE redsocks
             /\ todo' = [todo EXCEPT ![holder] = Tail(@)] /\ CurrentOp = "start"
    <3>1. OnWay /\ ~OnWay' /\ holder \in Caller /\ todo[holder] # <<>>
      BY <2>2 DEF OnWay, Path, ServiceFits, Busy
    <3>2. todo[holder] = <<"start">>
      BY <2>2, <3>1, Lists DEF Path, CurrentOp
    <3>3. todo'["user"] = <<"start">> => todo["user"] = <<"start">>
      BY <2>2, <3>1, <3>2, Lists DEF Path, Caller
    <3> QED
      BY <2>0, <2>2, <3>1, <3>3 DEF DisabledIsDown
  <2>3. CASE ipc = "procd_kill" /\ redsocks' = NoIP /\ UNCHANGED conf /\ ipc' \in {"idle", "load"}
    BY <2>3 DEF DisabledIsDown, OnWay
  <2>4. CASE ipc = "procd_empty" /\ redsocks' = NoIP /\ UNCHANGED conf /\ ipc' = "idle"
    BY <2>4 DEF DisabledIsDown, OnWay
  <2>5. CASE ipc = "load" /\ ipc' = "procd_empty" /\ ~uci.enabled /\ UNCHANGED <<todo, holder, redsocks, conf>>
    <3>1. CASE holder = "user"
      <4>1. todo["user"] = <<"start">>
        BY <2>5, <3>1, Lists DEF Path, CurrentOp, Busy, Caller
      <4> QED
        BY <2>0, <2>5, <4>1 DEF DisabledIsDown, OnWay
    <3>2. CASE holder # "user"
      <4>1. holder = "hotplug"
        BY <2>5, <3>2 DEF Path, ServiceFits, Caller
      <4> QED
        BY <2>0, <2>5, <4>1 DEF DisabledIsDown, OnWay
    <3> QED
      BY <3>1, <3>2
  <2>6. CASE /\ \E c \in Caller : holder' = c /\ todo[c] # <<>>
                                  /\ ipc' = IF Head(todo[c]) = "start" THEN "load" ELSE "read_pid"
             /\ ipc = "idle" /\ UNCHANGED <<todo, redsocks, conf>>
    <3>1. PICK c \in Caller : holder' = c /\ todo[c] # <<>>
                              /\ ipc' = IF Head(todo[c]) = "start" THEN "load" ELSE "read_pid"
      BY <2>6
    <3>2. CurrentOp' = Head(todo[c])
      BY <2>6, <3>1 DEF CurrentOp
    <3>3. ~OnWay'
      BY <3>1, <3>2 DEF OnWay
    <3>4. todo["hotplug"] \in {<<>>, <<"restart">>}
      BY <2>6 DEF Path
    <3>5. ~(ipc' = "load" /\ holder' = "hotplug") /\ ipc' # "procd_empty"
      BY <3>1, <3>4, Lists
    <3> QED
      BY <2>0, <2>6, <3>3, <3>5 DEF DisabledIsDown
  <2>7. CASE ipc = "removing" /\ ipc' = "procd_kill" /\ UNCHANGED <<todo, holder, redsocks>>
    BY <2>0, <2>7 DEF DisabledIsDown, OnWay
  <2>8. CASE /\ ipc' \notin {"idle", "load", "applying", "procd_kill", "procd_empty"}
             /\ UNCHANGED <<todo, holder, redsocks, conf>> /\ (OnWay' <=> OnWay)
    BY <2>0, <2>8 DEF DisabledIsDown
  <2> QED
    BY <1>2, InitMoves, <2>1, <2>2, <2>3, <2>4, <2>5, <2>6, <2>7, <2>8
<1> QED
  BY <1>1, <1>2

(* Whenever redsocks is down and not about to come up nothing is redirected. *)
NoRedirect == \A i \in 1..Len(rules["REDSOCKS"]) : rules["REDSOCKS"][i].to # "REDIRECT"

RedirectFits ==
    /\ redsocks = NoIP /\ ~OnWay => NoRedirect
    /\ ipc = "removing" /\ job[InitProc].at >= 3 => NoRedirect
    /\ ipc = "procd_kill" => NoRedirect

(* Only apply and remove touch the REDSOCKS chain; remove empties it.        *)
LEMMA RedirectRun ==
    ASSUME FirewallFits, ScriptsFit, NEW p \in Proc, Command(p),
           p # InitProc \/ ipc = "removing"
    PROVE  /\ NoRedirect => NoRedirect'
           /\ p = InitProc /\ job'[p].at = 3 /\ job[p].at # 3 => NoRedirect'
           /\ p # InitProc => UNCHANGED rules["REDSOCKS"]
<1> DEFINE s == Script(job[p].name, job[p].cfg)
<1>1. PICK cmd \in CommandType :
         /\ cmd = s[job[p].at] /\ job[p].at \in 1..Len(s)
         /\ \/ Execute(cmd) /\ job'[p].at = job[p].at + 1
            \/ cmd.op = "D*" /\ DeleteFirst(cmd.chain, cmd.rule) /\ job' = job
         /\ ~Finished(p)
  BY CommandDoes
<1>2. /\ job[p].name \in (IF p = InitProc THEN {"remove"} ELSE {"kill_on", "kill_off"})
      /\ job[p].cfg \in ConfigType /\ job[p].at \in Nat /\ Tables
  <2>1. Script("none", job[p].cfg) = <<>>
    BY DEF Script
  <2>2. job[p].name # "none"
    BY <1>1, <2>1
  <2> QED
    BY <2>2 DEF ScriptsFit, FirewallFits, JobType
<1>3. CASE p # InitProc
  <2>1. s = ActivateKillSwitch(job[p].cfg) \/ s = DeactivateKillSwitch(job[p].cfg)
    BY <1>2, <1>3 DEF Script
  <2>2. cmd.chain # "REDSOCKS" /\ cmd.chain \in Chain /\ "REDSOCKS" \in Chain
    BY <1>1, <1>2, <2>1, KillLeaves DEF CommandType, Chain, UserChain
  <2>3. rules'["REDSOCKS"] = rules["REDSOCKS"]
    BY <1>1, <1>2, <2>2, ExecutesElsewhere, DeletesOne
  <2> QED
    BY <1>3, <2>3 DEF NoRedirect
<1>4. CASE p = InitProc
  <2>1. s = RemoveRules(job[p].cfg)
    BY <1>2, <1>4 DEF Script
  <2>2. cmd.chain # "REDSOCKS" \/ cmd.op = "F" \/ cmd.op = "X"
    BY <1>1, <1>2, <2>1, RemoveLeaves
  <2>3. cmd.chain \in Chain /\ "REDSOCKS" \in Chain
    BY DEF CommandType, Chain, UserChain
  <2>4. CASE cmd.chain # "REDSOCKS" \/ cmd.op = "X"
    <3>1. rules'["REDSOCKS"] = rules["REDSOCKS"]
      <4>1. CASE cmd.chain # "REDSOCKS"
        BY <1>1, <1>2, <2>3, <4>1, ExecutesElsewhere, DeletesOne
      <4>2. CASE cmd.op = "X"
        BY <1>1, <4>2 DEF Execute, Fails, nfvars
      <4> QED
        BY <2>4, <4>1, <4>2
    <3>2. ~(job'[p].at = 3 /\ job[p].at # 3)
      <4>1. RemoveRules(job[p].cfg)[2] = Cm("F", "REDSOCKS", NoRule)
        BY RemoveCommands
      <4>2. job[p].at # 2
        BY <1>1, <2>1, <2>4, <4>1, CmIs
      <4>3. job'[p].at \in {job[p].at, job[p].at + 1}
        BY <1>1
      <4> QED
        BY <1>2, <4>2, <4>3
    <3> QED
      BY <1>4, <3>1, <3>2 DEF NoRedirect
  <2>5. CASE cmd.chain = "REDSOCKS" /\ cmd.op = "F"
    <3>1. rules'["REDSOCKS"] = <<>>
      BY <1>1, <1>2, <2>3, <2>5 DEF Execute, Fails, Flush, Tables
    <3> QED
      BY <1>4, <3>1 DEF NoRedirect
  <2> QED
    BY <2>2, <2>4, <2>5
<1> QED
  BY <1>3, <1>4

LEMMA RedirectFitsKept ==
    ASSUME FirewallFits, ServiceFits, MonitorsFit, Path, ScriptsFit, DisabledIsDown, RedirectFits, [RouterNext]_rvars
    PROVE  RedirectFits'
<1>0. InitProc \in Proc /\ InitProc \notin Monitor /\ Monitor \subseteq Proc
  BY InitProcAssumption, MonitorAssumption
<1>1. CASE ~InitStep
  <2>1. UNCHANGED <<ipc, redsocks>> /\ (OnWay' <=> OnWay)
    BY <1>1, BesideMoves
  <2>2. CASE UNCHANGED <<rules, job>>
    BY <2>1, <2>2 DEF RedirectFits, NoRedirect
  <2>3. CASE Calls
    <3>1. PICK m \in Monitor, name \in ScriptName : Call(m, name)
      BY <1>1, <2>1, <2>3 DEF Calls, ScriptName
    <3>2. UNCHANGED rules /\ job'[InitProc] = job[InitProc]
      BY <1>0, <3>1, CalledIs
    <3> QED
      BY <2>1, <3>2 DEF RedirectFits, NoRedirect
  <2>4. ASSUME NEW p \in Proc, LoadConfig(p)
        PROVE  RedirectFits'
    <3>1. UNCHANGED rules /\ (job'[InitProc] = job[InitProc] \/ job'[InitProc].at = 1)
      BY <1>0, <2>4, LoadedIs
    <3> QED
      BY <2>1, <3>1 DEF RedirectFits, NoRedirect
  <2>5. ASSUME NEW p \in Proc, Command(p)
        PROVE  RedirectFits'
    <3>1. CASE p # InitProc
      <4>1. UNCHANGED rules["REDSOCKS"] /\ job'[InitProc] = job[InitProc]
        BY <1>0, <2>5, <3>1, RedirectRun, CommandDoes
      <4> QED
        BY <2>1, <4>1 DEF RedirectFits, NoRedirect
    <3>2. CASE p = InitProc /\ ipc = "applying"
      BY <2>1, <3>2 DEF RedirectFits, OnWay
    <3>3. CASE p = InitProc /\ ipc = "removing"
      <4>1. /\ NoRedirect => NoRedirect'
            /\ job'[p].at = 3 /\ job[p].at # 3 => NoRedirect'
        BY <2>5, <3>3, RedirectRun
      <4>2. job'[p].at \in {job[p].at, job[p].at + 1} /\ job[p].at \in Nat
        BY <2>5, CommandDoes DEF FirewallFits, JobType
      <4>3. job'[p].at >= 3 => job[p].at >= 3 \/ (job'[p].at = 3 /\ job[p].at # 3)
        BY <4>2
      <4> QED
        BY <2>1, <3>3, <4>1, <4>3 DEF RedirectFits
    <3>4. CASE p = InitProc /\ ipc \notin {"applying", "removing"}
      BY <2>5, <3>4, CommandDoes DEF ScriptsFit
    <3> QED
      BY <3>1, <3>2, <3>3, <3>4
  <2> QED
    BY <2>2, <2>3, <2>4, <2>5, FirewallSteps DEF Runs
<1>2. CASE InitStep
  <2>1. rules' = rules /\ (NoRedirect' <=> NoRedirect)
    BY <1>2 DEF InitStep, Acquire, StartLoad, Call, Applied, ConfigureDoh, ReadPid, KillByPid, RemovePid, SpawnMonitor,
       ProcdSet, ProcdEmpty, BeltKill, BeltRemove, RemoveState, Removed, ProcdKill, vars, fwvars, NoRedirect
  <2>2. CASE ipc = "load" /\ ipc' \in {"applying", "procd_empty"} /\ redsocks' = redsocks /\ (ipc' = "applying" => OnWay')
    BY <2>1, <2>2 DEF RedirectFits, OnWay
  <2>3. CASE ipc = "procd_set" /\ ipc' = "idle" /\ redsocks' = IF redsocks = NoIP THEN conf ELSE redsocks
    <3>1. redsocks' # NoIP
      BY <2>3 DEF DisabledIsDown, OnWay
    <3> QED
      BY <2>3, <3>1 DEF RedirectFits
  <2>4. CASE ipc = "procd_kill" /\ ipc' \in {"idle", "load"}
    BY <2>1, <2>4 DEF RedirectFits
  <2>5. CASE ipc = "procd_empty" /\ ipc' = "idle"
    BY <2>1, <2>5 DEF RedirectFits, DisabledIsDown, OnWay
  <2>6. CASE ipc = "idle" /\ ipc' \in {"load", "read_pid"} /\ redsocks' = redsocks
    BY <2>1, <2>6 DEF RedirectFits, OnWay
  <2>7. CASE ipc = "removing" /\ ipc' = "procd_kill" /\ Finished(InitProc) /\ redsocks' = redsocks
    <3>1. Commands(InitProc) = RemoveRules(job[InitProc].cfg)
      BY <2>7 DEF ScriptsFit, Commands, Script
    <3>2. job[InitProc].at > 11 /\ job[InitProc].at \in Nat
      BY <1>0, <2>7, <3>1, RemoveCommands DEF Finished, FirewallFits, JobType
    <3>3. NoRedirect'
      BY <2>1, <2>7, <3>2 DEF RedirectFits
    <3> QED
      BY <3>3 DEF RedirectFits
  <2>8. CASE /\ ipc \notin {"idle", "load", "procd_set", "procd_kill", "procd_empty", "removing"}
             /\ ipc' \notin {"idle", "load", "applying", "procd_kill", "procd_empty"}
             /\ ipc \in {"rm_state"} <=> ipc' = "removing"
             /\ UNCHANGED redsocks /\ (OnWay' <=> OnWay)
    <3>1. ipc' = "removing" => job'[InitProc].at = 0
      <4>1. ipc' = "removing" => Call(InitProc, "remove")
        BY <1>2, <2>8 DEF InitStep, Acquire, StartLoad, Applied, ConfigureDoh, ReadPid, KillByPid, RemovePid, SpawnMonitor,
           ProcdSet, ProcdEmpty, BeltKill, BeltRemove, RemoveState, Removed, ProcdKill, InGoto
      <4> QED
        BY <1>0, <4>1, CalledIs DEF ScriptName
    <3> QED
      BY <2>1, <2>8, <3>1 DEF RedirectFits
  <2> QED
    BY <1>2, InitMoves, <2>2, <2>3, <2>4, <2>5, <2>6, <2>7, <2>8
<1> QED
  BY <1>1, <1>2

(* What holds of the router whatever the environment does.                   *)
RInv ==
    /\ FirewallFits /\ ServiceFits /\ MonitorsFit /\ Path /\ ScriptsFit
    /\ DisabledIsDown /\ RedirectFits

LEMMA RouterBegins ==
    ASSUME RouterInit
    PROVE  RInv
<1>1. FirewallFits
  BY ConfigAssumption DEF RouterInit, FirewallInit, FirewallFits, Tables, JobType, Chain, UserChain
<1>2. ServiceFits /\ MonitorsFit
  BY <1>1, ThresholdAssumption DEF RouterInit, FirewallFits, ConfigType, ServiceFits, MonitorsFit, IPC, PC
<1>3. Path
  BY Lists DEF RouterInit, Path, Busy, Stopping, Caller
<1>4. \A p \in Proc : Finished(p) /\ job[p].name = "none"
  <2>1. \A c : Script("none", c) = <<>>
    BY DEF Script
  <2> QED
    BY <2>1 DEF RouterInit, FirewallInit, Finished, Commands
<1>5. ScriptsFit
  BY <1>4, InitProcAssumption, MonitorAssumption DEF ScriptsFit, RouterInit
<1>6. DisabledIsDown /\ RedirectFits
  BY DEF RouterInit, FirewallInit, DisabledIsDown, RedirectFits, NoRedirect, OnWay, Chain, UserChain
<1> QED
  BY <1>1, <1>2, <1>3, <1>5, <1>6 DEF RInv

LEMMA RouterKeeps ==
    ASSUME RInv, [RouterNext]_rvars
    PROVE  RInv'
BY FirewallFitsKept, PathKept, MonitorsFitKept, ScriptsFitKept, DisabledIsDownKept, RedirectFitsKept DEF RInv

LEMMA RouterHolds == RouterSafeSpec => []RInv
BY RouterBegins, RouterKeeps, PTL DEF RouterSafeSpec

(* Whatever mix of start, stop, restart, enable, disable, reconfiguration    *)
(* and ifup led there: once every operation has ended and redsocks is down,  *)
(* no LAN has its connections redirected to the port nobody listens on       *)
(* (init.d/camofox:165-226), whatever circumstances are allowed.             *)
THEOREM NothingIsBlackHoled == RouterSafeSpec => []NoBlackHole
<1>1. RInv => NoBlackHole
  BY DEF RInv, RedirectFits, NoRedirect, NoBlackHole, Quiet, Busy, OnWay, Redirected
<1> QED
  BY <1>1, RouterHolds, PTL

-----------------------------------------------------------------------------
(* apply_rules, command by command: the TTL rule, the DNS rules and the      *)
(* kill-switch chain come after command 16, when they are configured.        *)
TtlEnd(c)   == 16 + (IF c.ttl_enabled THEN 1 ELSE 0)
DohEnd(c)   == TtlEnd(c) + (IF c.doh THEN 3 ELSE 0)
ApplyEnd(c) == DohEnd(c) + (IF c.kill_switch THEN 3 ELSE 0)

LEMMA Joined ==
    ASSUME NEW a \in Seq(CommandType), NEW b \in Seq(CommandType)
    PROVE  /\ a \o b \in Seq(CommandType) /\ Len(a \o b) = Len(a) + Len(b)
           /\ \A k \in 1..Len(a) : (a \o b)[k] = a[k]
           /\ \A k \in 1..Len(b) : (a \o b)[Len(a) + k] = b[k]
<1>1. /\ a \o b \in Seq(CommandType) /\ Len(a \o b) = Len(a) + Len(b)
      /\ \A k \in 1..(Len(a) + Len(b)) : (a \o b)[k] = IF k <= Len(a) THEN a[k] ELSE b[k - Len(a)]
      /\ Len(a) \in Nat /\ Len(b) \in Nat
  BY ConcatProperties, LenProperties
<1>2. ASSUME NEW k \in 1..Len(a)
      PROVE  (a \o b)[k] = a[k]
  <2>1. k \in 1..(Len(a) + Len(b)) /\ k <= Len(a)
    BY <1>1
  <2> QED
    BY <1>1, <2>1
<1>3. ASSUME NEW k \in 1..Len(b)
      PROVE  (a \o b)[Len(a) + k] = b[k]
  <2>1. Len(a) + k \in 1..(Len(a) + Len(b)) /\ ~(Len(a) + k <= Len(a)) /\ (Len(a) + k) - Len(a) = k
    BY <1>1
  <2> QED
    BY <1>1, <2>1
<1> QED
  BY <1>1, <1>2, <1>3

LEMMA ApplyAt ==
    ASSUME NEW c \in ConfigType
    PROVE  /\ Len(ApplyRules(c)) = ApplyEnd(c)
           /\ \A k \in 1..11 : ApplyRules(c)[k] = RemoveRules(c)[k]
           /\ ApplyRules(c)[12] = Cm("N", "REDSOCKS", NoRule)
           /\ ApplyRules(c)[13] = Cm("A", "REDSOCKS", PrivateReturn)
           /\ ApplyRules(c)[14] = Cm("A", "REDSOCKS", ProxyReturn(c))
           /\ ApplyRules(c)[15] = Cm("A", "REDSOCKS", Redirect)
           /\ ApplyRules(c)[16] = Cm("A", "PREROUTING", RedsocksJump(c))
           /\ c.ttl_enabled => ApplyRules(c)[17] = Cm("A", "POSTROUTING", TtlRule(c))
           /\ c.doh => /\ ApplyRules(c)[TtlEnd(c) + 1] = Cm("I", "INPUT", DnsUdpAccept(c))
                       /\ ApplyRules(c)[TtlEnd(c) + 2] = Cm("I", "INPUT", DnsTcpAccept(c))
                       /\ ApplyRules(c)[TtlEnd(c) + 3] = Cm("A", "FORWARD", DnsDrop(c))
           /\ c.kill_switch => /\ ApplyRules(c)[DohEnd(c) + 1] = Cm("N|F", "CAMOFOX_KILLSW", NoRule)
                               /\ ApplyRules(c)[DohEnd(c) + 2] = Cm("A", "CAMOFOX_KILLSW", KillReturn)
                               /\ ApplyRules(c)[DohEnd(c) + 3] = Cm("I", "FORWARD", EstAccept(c))
<1> DEFINE a == RemoveRules(c)
           b == Redsocks(c)
           x == When(c.ttl_enabled, << Cm("A", "POSTROUTING", TtlRule(c)) >>)
           y == When(c.doh, << Cm("I", "INPUT", DnsUdpAccept(c)), Cm("I", "INPUT", DnsTcpAccept(c)),
                              Cm("A", "FORWARD", DnsDrop(c)) >>)
           z == When(c.kill_switch, << Cm("N|F", "CAMOFOX_KILLSW", NoRule),
                                      Cm("A", "CAMOFOX_KILLSW", KillReturn),
                                      Cm("I", "FORWARD", EstAccept(c)) >>)
           tl == TtlEnd(c) - 16
           dl == DohEnd(c) - TtlEnd(c)
           kl == ApplyEnd(c) - DohEnd(c)
<1>1. ApplyRules(c) = (((a \o b) \o x) \o y) \o z
  BY DEF ApplyRules, Redsocks
<1>2. a \in Seq(CommandType) /\ Len(a) = 11
  BY RemoveType, RemoveCommands
<1>3. b \in Seq(CommandType) /\ Len(b) = 5
  BY RulesAreRules, CmType DEF Redsocks, Op, Chain, BuiltIn, UserChain
<1>4. /\ b[1] = Cm("N", "REDSOCKS", NoRule) /\ b[2] = Cm("A", "REDSOCKS", PrivateReturn)
      /\ b[3] = Cm("A", "REDSOCKS", ProxyReturn(c)) /\ b[4] = Cm("A", "REDSOCKS", Redirect)
      /\ b[5] = Cm("A", "PREROUTING", RedsocksJump(c))
  BY DEF Redsocks
<1>5. /\ x \in Seq(CommandType) /\ y \in Seq(CommandType) /\ z \in Seq(CommandType)
  BY Others, SeqMonotonic DEF Elsewhere
<1>6. Len(x) = tl /\ Len(y) = dl /\ Len(z) = kl /\ tl \in Nat /\ dl \in Nat /\ kl \in Nat
      /\ TtlEnd(c) \in Nat /\ DohEnd(c) \in Nat
  <2>1. Len(x) = (IF c.ttl_enabled THEN 1 ELSE 0) /\ Len(y) = (IF c.doh THEN 3 ELSE 0)
        /\ Len(z) = (IF c.kill_switch THEN 3 ELSE 0)
    BY DEF When
  <2> QED
    BY <2>1 DEF TtlEnd, DohEnd, ApplyEnd
<1>7. /\ c.ttl_enabled => x[1] = Cm("A", "POSTROUTING", TtlRule(c))
      /\ c.doh => /\ y[1] = Cm("I", "INPUT", DnsUdpAccept(c)) /\ y[2] = Cm("I", "INPUT", DnsTcpAccept(c))
                  /\ y[3] = Cm("A", "FORWARD", DnsDrop(c))
      /\ c.kill_switch => /\ z[1] = Cm("N|F", "CAMOFOX_KILLSW", NoRule)
                          /\ z[2] = Cm("A", "CAMOFOX_KILLSW", KillReturn)
                          /\ z[3] = Cm("I", "FORWARD", EstAccept(c))
  BY DEF When
<1>8. c.ttl_enabled \in BOOLEAN /\ (c.ttl_enabled => tl = 1) /\ (c.doh => dl = 3) /\ (c.kill_switch => kl = 3)
  BY DEF ConfigType, TtlEnd, DohEnd, ApplyEnd
<1> HIDE DEF a, b, x, y, z
<1> DEFINE ab == a \o b
<1>9. /\ ab \in Seq(CommandType) /\ Len(ab) = 16
      /\ \A k \in 1..11 : ab[k] = a[k]
      /\ \A k \in 1..5 : ab[11 + k] = b[k]
  <2>1. /\ a \o b \in Seq(CommandType) /\ Len(a \o b) = Len(a) + Len(b)
        /\ \A k \in 1..Len(a) : (a \o b)[k] = a[k]
        /\ \A k \in 1..Len(b) : (a \o b)[Len(a) + k] = b[k]
    BY <1>2, <1>3, Joined
  <2>2. Len(a) = 11 /\ Len(b) = 5 /\ 11 + 5 = 16
    BY <1>2, <1>3
  <2> QED
    BY ONLY <2>1, <2>2
<1> HIDE DEF ab
<1> DEFINE abx == ab \o x
<1>10. /\ abx \in Seq(CommandType) /\ Len(abx) = 16 + tl
       /\ \A k \in 1..16 : abx[k] = ab[k]
       /\ \A k \in 1..tl : abx[16 + k] = x[k]
  <2>1. /\ ab \o x \in Seq(CommandType) /\ Len(ab \o x) = Len(ab) + Len(x)
        /\ \A k \in 1..Len(ab) : (ab \o x)[k] = ab[k]
        /\ \A k \in 1..Len(x) : (ab \o x)[Len(ab) + k] = x[k]
    BY <1>5, <1>9, Joined
  <2>2. Len(ab) = 16 /\ Len(x) = tl
    BY <1>5, <1>9, <1>6
  <2> QED
    BY ONLY <2>1, <2>2
<1>11. 16 + tl = TtlEnd(c) /\ TtlEnd(c) + dl = DohEnd(c) /\ DohEnd(c) + kl = ApplyEnd(c)
       /\ 16 \in 1..TtlEnd(c) /\ TtlEnd(c) \in 1..DohEnd(c) /\ TtlEnd(c) \in Nat /\ DohEnd(c) \in Nat
  BY DEF TtlEnd, DohEnd, ApplyEnd
<1> HIDE DEF abx, tl, dl, kl
<1> DEFINE abxy == abx \o y
<1>12. /\ abxy \in Seq(CommandType) /\ Len(abxy) = DohEnd(c)
       /\ \A k \in 1..TtlEnd(c) : abxy[k] = abx[k]
       /\ \A k \in 1..dl : abxy[TtlEnd(c) + k] = y[k]
  <2>1. /\ abx \o y \in Seq(CommandType) /\ Len(abx \o y) = Len(abx) + Len(y)
        /\ \A k \in 1..Len(abx) : (abx \o y)[k] = abx[k]
        /\ \A k \in 1..Len(y) : (abx \o y)[Len(abx) + k] = y[k]
    BY <1>5, <1>10, Joined
  <2>2. Len(abx) = TtlEnd(c) /\ Len(y) = dl /\ TtlEnd(c) + dl = DohEnd(c)
    BY <1>5, <1>10, <1>6, <1>11
  <2> QED
    BY ONLY <2>1, <2>2
<1> HIDE DEF abxy
<1> DEFINE all == abxy \o z
<1>13. /\ all \in Seq(CommandType) /\ Len(all) = ApplyEnd(c)
       /\ \A k \in 1..DohEnd(c) : all[k] = abxy[k]
       /\ \A k \in 1..kl : all[DohEnd(c) + k] = z[k]
  <2>1. /\ abxy \o z \in Seq(CommandType) /\ Len(abxy \o z) = Len(abxy) + Len(z)
        /\ \A k \in 1..Len(abxy) : (abxy \o z)[k] = abxy[k]
        /\ \A k \in 1..Len(z) : (abxy \o z)[Len(abxy) + k] = z[k]
    BY <1>5, <1>12, Joined
  <2>2. Len(abxy) = DohEnd(c) /\ Len(z) = kl /\ DohEnd(c) + kl = ApplyEnd(c)
    BY <1>5, <1>12, <1>6, <1>11
  <2> QED
    BY ONLY <2>1, <2>2
<1>14. ApplyRules(c) = all
  BY <1>1 DEF all, abxy, abx, ab
<1> HIDE DEF all
<1>15. ASSUME NEW k \in 1..16
       PROVE  all[k] = ab[k]
  <2>1. k \in 1..TtlEnd(c) /\ k \in 1..DohEnd(c)
    BY <1>11
  <2> QED
    BY <1>10, <1>12, <1>13, <2>1
<1>16. /\ \A k \in 1..11 : all[k] = a[k]
       /\ all[12] = b[1] /\ all[13] = b[2] /\ all[14] = b[3] /\ all[15] = b[4] /\ all[16] = b[5]
  <2>1. ab[11 + 1] = b[1] /\ ab[11 + 2] = b[2] /\ ab[11 + 3] = b[3] /\ ab[11 + 4] = b[4] /\ ab[11 + 5] = b[5]
    BY <1>9
  <2>2. 11 + 1 = 12 /\ 11 + 2 = 13 /\ 11 + 3 = 14 /\ 11 + 4 = 15 /\ 11 + 5 = 16
    OBVIOUS
  <2>3. ab[12] = b[1] /\ ab[13] = b[2] /\ ab[14] = b[3] /\ ab[15] = b[4] /\ ab[16] = b[5]
    BY ONLY <2>1, <2>2
  <2>4. ASSUME NEW k \in 1..11
        PROVE  all[k] = a[k]
    <3>1. k \in 1..16
      OBVIOUS
    <3> QED
      BY <3>1, <1>9, <1>15
  <2>5. {12, 13, 14, 15, 16} \subseteq 1..16
    OBVIOUS
  <2> QED
    BY <2>3, <2>4, <2>5, <1>15
<1>17. c.ttl_enabled => all[17] = x[1]
  <2>1. ASSUME c.ttl_enabled
        PROVE  all[17] = x[1]
    <3>1. tl = 1 /\ 16 + 1 = 17 /\ 17 \in 1..TtlEnd(c) /\ 17 \in 1..DohEnd(c) /\ 1 \in 1..tl
      BY <1>8, <1>11, <2>1
    <3>2. abx[17] = x[1]
      BY <1>10, <3>1
    <3> QED
      BY <1>12, <1>13, <3>1, <3>2
  <2> QED
    BY <2>1
<1>18. c.doh => /\ all[TtlEnd(c) + 1] = y[1] /\ all[TtlEnd(c) + 2] = y[2] /\ all[TtlEnd(c) + 3] = y[3]
  <2>1. ASSUME c.doh
        PROVE  all[TtlEnd(c) + 1] = y[1] /\ all[TtlEnd(c) + 2] = y[2] /\ all[TtlEnd(c) + 3] = y[3]
    <3>1. dl = 3 /\ {1, 2, 3} \subseteq 1..dl
          /\ {TtlEnd(c) + 1, TtlEnd(c) + 2, TtlEnd(c) + 3} \subseteq 1..DohEnd(c)
      BY <1>8, <1>11, <2>1
    <3>2. abxy[TtlEnd(c) + 1] = y[1] /\ abxy[TtlEnd(c) + 2] = y[2] /\ abxy[TtlEnd(c) + 3] = y[3]
      BY <1>12, <3>1
    <3> QED
      BY <1>13, <3>1, <3>2
  <2> QED
    BY <2>1
<1>19. c.kill_switch => /\ all[DohEnd(c) + 1] = z[1] /\ all[DohEnd(c) + 2] = z[2] /\ all[DohEnd(c) + 3] = z[3]
  <2>1. ASSUME c.kill_switch
        PROVE  {1, 2, 3} \subseteq 1..kl
    <3>1. kl = 3
      BY <1>8, <2>1
    <3> QED
      BY <3>1
  <2> QED
    BY <1>13, <2>1
<1>20. \A k \in 1..11 : ApplyRules(c)[k] = RemoveRules(c)[k]
  BY <1>14, <1>16 DEF a
<1> QED
  BY <1>4, <1>7, <1>13, <1>14, <1>16, <1>17, <1>18, <1>19, <1>20

-----------------------------------------------------------------------------
(* Where the rules of a chain come from.                                     *)

LEMMA LeastOf ==
    ASSUME NEW T, T \subseteq Nat, T # {}
    PROVE  \E m \in T : \A x \in T : m <= x
<1> DEFINE R == OpToRel(<, Nat)
<1>1. IsWellFoundedOn(R, Nat)
  BY NatLessThanWellFounded
<1> HIDE DEF R
<1>2. \E m \in T : \A x \in T : ~(<<x, m>> \in R)
  BY <1>1, WFMin
<1>3. PICK m \in T : \A x \in T : ~(x < m)
  BY <1>2 DEF R, OpToRel
<1> QED
  BY <1>3

(* A sequence of rules without its i-th, with one more at its end or front.  *)
LEMMA Without ==
    ASSUME NEW s \in Seq(Rule), NEW i \in 1..Len(s)
    PROVE  LET t == SubSeq(s, 1, i - 1) \o SubSeq(s, i + 1, Len(s)) IN
           /\ t \in Seq(Rule) /\ Len(t) = Len(s) - 1
           /\ \A k \in 1..(i - 1) : t[k] = s[k]
           /\ \A k \in i..(Len(s) - 1) : t[k] = s[k + 1]
<1> DEFINE a == SubSeq(s, 1, i - 1)
           b == SubSeq(s, i + 1, Len(s))
<1>1. Len(s) \in Nat /\ i \in Int /\ i - 1 \in Int /\ i + 1 \in Int /\ \A j \in 1..Len(s) : s[j] \in Rule
  BY ElementOfSeq, LenProperties
<1>2. a \in Seq(Rule) /\ Len(a) = i - 1 /\ \A k \in 1..(i - 1) : a[k] = s[k]
  <2>1. /\ a \in Seq(Rule) /\ Len(a) = IF 1 <= i - 1 THEN (i - 1) - 1 + 1 ELSE 0
        /\ \A k \in 1 .. ((i - 1) - 1 + 1) : a[k] = s[1 + k - 1]
    <3>1. \A j \in 1..(i - 1) : s[j] \in Rule
      BY <1>1
    <3> QED
      BY <1>1, <3>1, SubSeqProperties
  <2>2. \A k \in 1..(i - 1) : k \in 1 .. ((i - 1) - 1 + 1) /\ 1 + k - 1 = k
    BY <1>1
  <2>3. Len(a) = i - 1
    BY <1>1, <2>1
  <2> QED
    BY <2>1, <2>2, <2>3
<1>3. b \in Seq(Rule) /\ Len(b) = Len(s) - i /\ \A k \in 1..(Len(s) - i) : b[k] = s[i + k]
  <2>1. /\ b \in Seq(Rule) /\ Len(b) = IF i + 1 <= Len(s) THEN Len(s) - (i + 1) + 1 ELSE 0
        /\ \A k \in 1 .. (Len(s) - (i + 1) + 1) : b[k] = s[(i + 1) + k - 1]
    <3>1. \A j \in (i + 1)..Len(s) : s[j] \in Rule
      BY <1>1
    <3> QED
      BY <1>1, <3>1, SubSeqProperties
  <2>2. \A k \in 1..(Len(s) - i) : k \in 1 .. (Len(s) - (i + 1) + 1) /\ (i + 1) + k - 1 = i + k
    BY <1>1
  <2>3. Len(b) = Len(s) - i
    BY <1>1, <2>1
  <2> QED
    BY <2>1, <2>2, <2>3
<1> HIDE DEF a, b
<1> DEFINE t == a \o b
<1>4. /\ t \in Seq(Rule) /\ Len(t) = Len(a) + Len(b)
      /\ \A k \in 1..(Len(a) + Len(b)) : t[k] = IF k <= Len(a) THEN a[k] ELSE b[k - Len(a)]
  BY <1>2, <1>3, ConcatProperties
<1>5. /\ Len(t) = Len(s) - 1
      /\ \A k \in 1..(Len(s) - 1) : t[k] = IF k <= i - 1 THEN a[k] ELSE b[k - (i - 1)]
  <2>1. Len(a) + Len(b) = Len(s) - 1
    BY <1>1, <1>2, <1>3
  <2>2. Len(a) = i - 1
    BY <1>2
  <2> QED
    BY ONLY <1>4, <2>1, <2>2
<1> HIDE DEF t
<1>6. ASSUME NEW k \in 1..(i - 1)
      PROVE  t[k] = s[k]
  <2>1. k \in 1..(Len(s) - 1) /\ k <= i - 1
    BY <1>1
  <2> QED
    BY <1>2, <1>5, <2>1
<1>7. ASSUME NEW k \in i..(Len(s) - 1)
      PROVE  t[k] = s[k + 1]
  <2>1. k \in 1..(Len(s) - 1) /\ ~(k <= i - 1) /\ k - (i - 1) \in 1..(Len(s) - i)
        /\ i + (k - (i - 1)) = k + 1
    BY <1>1
  <2>2. t[k] = b[k - (i - 1)]
    BY <1>5, <2>1
  <2>3. b[k - (i - 1)] = s[i + (k - (i - 1))]
    BY <1>3, <2>1
  <2> QED
    BY <2>1, <2>2, <2>3
<1>8. t \in Seq(Rule)
  BY <1>4 DEF t
<1> QED
  BY <1>5, <1>6, <1>7, <1>8 DEF t, a, b

LEMMA Within ==
    ASSUME NEW s \in Seq(Rule), NEW r \in Rule
    PROVE  /\ Len(<<r>> \o s) = Len(s) + 1 /\ (<<r>> \o s)[1] = r
           /\ \A k \in 2..(Len(s) + 1) : (<<r>> \o s)[k] = s[k - 1]
           /\ Len(Append(s, r)) = Len(s) + 1 /\ Append(s, r)[Len(s) + 1] = r
           /\ \A k \in 1..Len(s) : Append(s, r)[k] = s[k]
<1>1. <<r>> \in Seq(Rule) /\ Len(<<r>>) = 1 /\ <<r>>[1] = r /\ Len(s) \in Nat
  BY LenProperties
<1>2. /\ Len(<<r>> \o s) = Len(<<r>>) + Len(s)
      /\ \A i \in 1..(Len(<<r>>) + Len(s)) :
           (<<r>> \o s)[i] = IF i <= Len(<<r>>) THEN <<r>>[i] ELSE s[i - Len(<<r>>)]
  BY <1>1, ConcatProperties
<1>3. /\ Len(<<r>> \o s) = 1 + Len(s)
      /\ \A i \in 1..(1 + Len(s)) : (<<r>> \o s)[i] = IF i <= 1 THEN <<r>>[i] ELSE s[i - 1]
  BY <1>1, <1>2
<1>4. ASSUME NEW k \in 2..(Len(s) + 1)
      PROVE  (<<r>> \o s)[k] = s[k - 1]
  <2>1. k \in 1..(1 + Len(s)) /\ ~(k <= 1)
    BY <1>1
  <2> QED
    BY <1>3, <2>1
<1>5. Len(<<r>> \o s) = Len(s) + 1
  BY <1>1, <1>3
<1> QED
  BY <1>4, <1>5, AppendsOne, AppendProperties

(* A rule is one that was there, or the one the command adds.                *)
LEMMA Origins ==
    ASSUME Tables, NEW cmd \in CommandType,
           Execute(cmd) \/ (cmd.op = "D*" /\ DeleteFirst(cmd.chain, cmd.rule)),
           NEW d \in Chain, NEW i \in 1..Len(rules'[d])
    PROVE  \/ \E j \in 1..Len(rules[d]) : rules'[d][i] = rules[d][j]
           \/ /\ rules'[d][i] = cmd.rule /\ d = cmd.chain
              /\ cmd.op \in {"A", "I"} /\ CanAdd(cmd.chain, cmd.rule)
<1> DEFINE s == rules[d]
<1>1. cmd.chain \in Chain /\ cmd.rule \in Rule /\ s \in Seq(Rule) /\ Len(s) \in Nat
  BY LenProperties DEF CommandType, Tables
<1>2. CASE rules'[d] = s
  BY <1>2
<1>3. CASE d = cmd.chain /\ cmd.op = "A" /\ CanAdd(cmd.chain, cmd.rule) /\ rules'[d] = Append(s, cmd.rule)
  <2>1. i \in 1..(Len(s) + 1)
    BY <1>1, <1>3, Within
  <2>2. i \in 1..Len(s) \/ i = Len(s) + 1
    BY <1>1, <2>1
  <2> QED
    BY <1>1, <1>3, <2>2, Within
<1>4. CASE d = cmd.chain /\ cmd.op = "I" /\ CanAdd(cmd.chain, cmd.rule) /\ rules'[d] = <<cmd.rule>> \o s
  <2>1. i \in 1..(Len(s) + 1)
    BY <1>1, <1>4, Within
  <2>2. i = 1 \/ (i \in 2..(Len(s) + 1) /\ i - 1 \in 1..Len(s))
    BY <1>1, <2>1
  <2> QED
    BY <1>1, <1>4, <2>2, Within
<1>5. CASE rules'[d] = <<>>
  BY <1>5
<1>6. ASSUME NEW k \in 1..Len(s), rules'[d] = SubSeq(s, 1, k - 1) \o SubSeq(s, k + 1, Len(s))
      PROVE  \E j \in 1..Len(s) : rules'[d][i] = s[j]
  <2>1. /\ Len(rules'[d]) = Len(s) - 1
        /\ \A j \in 1..(k - 1) : rules'[d][j] = s[j]
        /\ \A j \in k..(Len(s) - 1) : rules'[d][j] = s[j + 1]
    <3> HIDE DEF s
    <3> DEFINE t == SubSeq(s, 1, k - 1) \o SubSeq(s, k + 1, Len(s))
    <3>1. /\ Len(t) = Len(s) - 1
          /\ \A j \in 1..(k - 1) : t[j] = s[j]
          /\ \A j \in k..(Len(s) - 1) : t[j] = s[j + 1]
      BY <1>1, Without
    <3>2. rules'[d] = t
      BY <1>6
    <3> QED
      BY ONLY <3>1, <3>2
  <2>2. i \in 1..(k - 1) \/ i \in k..(Len(s) - 1)
    BY <1>1, <2>1
  <2>3. i \in 1..Len(s) /\ i + 1 \in 1..Len(s)
    BY <1>1, <2>1
  <2> QED
    BY <2>1, <2>2, <2>3
<1>7. \/ rules'[d] = s \/ rules'[d] = <<>>
      \/ d = cmd.chain /\ cmd.op = "A" /\ CanAdd(cmd.chain, cmd.rule) /\ rules'[d] = Append(s, cmd.rule)
      \/ d = cmd.chain /\ cmd.op = "I" /\ CanAdd(cmd.chain, cmd.rule) /\ rules'[d] = <<cmd.rule>> \o s
      \/ \E k \in 1..Len(s) : rules'[d] = SubSeq(s, 1, k - 1) \o SubSeq(s, k + 1, Len(s))
  <2>1. CASE Execute(cmd)
    BY <1>1, <2>1 DEF Execute, Flush, Create, Fails, nfvars, Tables
  <2>2. CASE DeleteFirst(cmd.chain, cmd.rule)
    <3>1. CASE d # cmd.chain
      BY <1>1, <2>2, <3>1, DeletesOne
    <3>2. CASE d = cmd.chain
      BY <1>1, <2>2, <3>2 DEF DeleteFirst, Tables
    <3> QED
      BY <3>1, <3>2
  <2> QED
    BY <2>1, <2>2
<1> QED
  BY <1>2, <1>3, <1>4, <1>5, <1>6, <1>7

-----------------------------------------------------------------------------
(* What the scripts add to FORWARD and to the kill-switch chain.             *)

LEMMA ApplyPlaces ==
    ASSUME NEW c \in ConfigType, NEW k \in 1..Len(ApplyRules(c))
    PROVE  \/ k \in 1..11 \/ k \in {12, 13, 14, 15, 16} \/ (c.ttl_enabled /\ k = 17)
           \/ (c.doh /\ k \in {TtlEnd(c) + 1, TtlEnd(c) + 2, TtlEnd(c) + 3})
           \/ c.kill_switch /\ k \in {DohEnd(c) + 1, DohEnd(c) + 2, DohEnd(c) + 3}
<1>1. k \in 1..ApplyEnd(c)
  BY ApplyAt
<1>2. k \in 1..11 \/ k \in {12, 13, 14, 15, 16} \/ k > 16
  BY <1>1
<1>3. k > 16 /\ k <= TtlEnd(c) => c.ttl_enabled /\ k = 17
  BY <1>1 DEF TtlEnd
<1>4. k > TtlEnd(c) /\ k <= DohEnd(c) => c.doh /\ k \in {TtlEnd(c) + 1, TtlEnd(c) + 2, TtlEnd(c) + 3}
  BY <1>1 DEF TtlEnd, DohEnd
<1>5. k > DohEnd(c) /\ k <= ApplyEnd(c) => c.kill_switch /\ k \in {DohEnd(c) + 1, DohEnd(c) + 2, DohEnd(c) + 3}
  BY <1>1 DEF TtlEnd, DohEnd, ApplyEnd
<1>6. TtlEnd(c) \in Nat /\ DohEnd(c) \in Nat
  BY DEF TtlEnd, DohEnd
<1>7. CASE k > TtlEnd(c)
  <2>1. CASE k <= DohEnd(c)
    BY <1>4, <1>7, <2>1
  <2>2. CASE ~(k <= DohEnd(c))
    <3>1. k > DohEnd(c) /\ k <= ApplyEnd(c)
      BY <1>1, <1>6, <2>2
    <3> QED
      BY <1>5, <3>1
  <2> QED
    BY <2>1, <2>2
<1>8. CASE ~(k > TtlEnd(c)) /\ k > 16
  <2>1. k <= TtlEnd(c)
    BY <1>1, <1>6, <1>8
  <2> QED
    BY <1>3, <1>8, <2>1
<1>9. CASE k \in 1..11 \/ k \in {12, 13, 14, 15, 16}
  BY ONLY <1>9, Zenon
<1> QED
  BY <1>2, <1>7, <1>8, <1>9, Zenon

AddsRight(name, c, cmd) ==
    /\ cmd.op = "D*" => cmd.chain \in BuiltIn
    /\ cmd.op \in {"A", "I"} /\ cmd.chain = "FORWARD" =>
          \/ name = "apply" /\ cmd.rule \in {DnsDrop(c), EstAccept(c)}
          \/ name = "kill_on" /\ cmd.rule = KillJump(c)
    /\ cmd.op \in {"A", "I"} /\ cmd.chain = "CAMOFOX_KILLSW" =>
          /\ cmd.op = "A"
          /\ \/ name \in {"apply", "kill_off"} /\ cmd.rule = KillReturn
             \/ name = "kill_on" /\ cmd.rule = KillDrop

LEMMA Adds ==
    ASSUME NEW name \in ScriptName \cup {"none"}, NEW c \in ConfigType, NEW k \in 1..Len(Script(name, c))
    PROVE  AddsRight(name, c, Script(name, c)[k])
<1> DEFINE cmd == Script(name, c)[k]
<1>1. ASSUME NEW j \in 1..11
      PROVE  LET x == RemoveRules(c)[j] IN
             x.op \in {"D*", "F", "X"} /\ (x.op = "D*" => x.chain \in BuiltIn)
  BY RemoveCommands, CmIs DEF BuiltIn
<1>2. CASE name = "remove"
  <2>1. cmd = RemoveRules(c)[k] /\ k \in 1..11
    BY <1>2, RemoveCommands DEF Script
  <2> QED
    BY <1>1, <2>1 DEF AddsRight
<1>3. CASE name = "apply"
  <2>0. cmd = ApplyRules(c)[k] /\ k \in 1..Len(ApplyRules(c))
    BY <1>3 DEF Script
  <2>1. CASE k \in 1..11
    <3>1. cmd = RemoveRules(c)[k]
      BY <2>0, <2>1, ApplyAt
    <3> QED
      BY <1>1, <2>1, <3>1 DEF AddsRight
  <2>2. CASE k \in {12, 13, 14, 15, 16}
    <3>1. cmd \in {Cm("N", "REDSOCKS", NoRule), Cm("A", "REDSOCKS", PrivateReturn), Cm("A", "REDSOCKS", ProxyReturn(c)),
                   Cm("A", "REDSOCKS", Redirect), Cm("A", "PREROUTING", RedsocksJump(c))}
      BY <2>0, <2>2, ApplyAt
    <3>2. cmd.op # "D*" /\ cmd.chain \in {"REDSOCKS", "PREROUTING"}
      BY <3>1, CmIs
    <3> QED
      BY <3>2 DEF AddsRight
  <2>3. CASE c.ttl_enabled /\ k = 17
    <3>1. cmd = Cm("A", "POSTROUTING", TtlRule(c))
      BY <2>0, <2>3, ApplyAt
    <3>2. cmd.op # "D*" /\ cmd.chain = "POSTROUTING"
      BY <3>1, CmIs
    <3> QED
      BY <3>2 DEF AddsRight
  <2>4. CASE c.doh /\ k \in {TtlEnd(c) + 1, TtlEnd(c) + 2, TtlEnd(c) + 3}
    <3>1. cmd \in {Cm("I", "INPUT", DnsUdpAccept(c)), Cm("I", "INPUT", DnsTcpAccept(c)), Cm("A", "FORWARD", DnsDrop(c))}
      BY <2>0, <2>4, ApplyAt
    <3>2. cmd.op # "D*" /\ (cmd.chain = "INPUT" \/ (cmd.chain = "FORWARD" /\ cmd.rule = DnsDrop(c)))
      BY <3>1, CmIs
    <3> QED
      BY <1>3, <3>2 DEF AddsRight
  <2>5. CASE c.kill_switch /\ k \in {DohEnd(c) + 1, DohEnd(c) + 2, DohEnd(c) + 3}
    <3>1. cmd \in {Cm("N|F", "CAMOFOX_KILLSW", NoRule), Cm("A", "CAMOFOX_KILLSW", KillReturn), Cm("I", "FORWARD", EstAccept(c))}
      BY <2>0, <2>5, ApplyAt
    <3>2. \/ cmd.op = "N|F"
          \/ cmd.op = "A" /\ cmd.chain = "CAMOFOX_KILLSW" /\ cmd.rule = KillReturn
          \/ cmd.op = "I" /\ cmd.chain = "FORWARD" /\ cmd.rule = EstAccept(c)
      BY <3>1, CmIs
    <3> QED
      BY <1>3, <3>2 DEF AddsRight
  <2> QED
    BY <2>0, <2>1, <2>2, <2>3, <2>4, <2>5, ApplyPlaces
<1>4. CASE name = "kill_on"
  <2>0. Script(name, c) = ActivateKillSwitch(c) /\ Len(ActivateKillSwitch(c)) = 4
    BY <1>4, KillCommands DEF Script
  <2>1. cmd = ActivateKillSwitch(c)[k] /\ k \in {1, 2, 3, 4}
    BY <2>0
  <2>2. cmd \in {Cm("F", "CAMOFOX_KILLSW", NoRule), Cm("A", "CAMOFOX_KILLSW", KillDrop), Cm("D*", "FORWARD", KillJump(c)),
                 Cm("I", "FORWARD", KillJump(c))}
    BY <2>1, KillCommands
  <2>3. \/ cmd.op = "F"
        \/ cmd.op = "A" /\ cmd.chain = "CAMOFOX_KILLSW" /\ cmd.rule = KillDrop
        \/ cmd.op = "D*" /\ cmd.chain = "FORWARD"
        \/ cmd.op = "I" /\ cmd.chain = "FORWARD" /\ cmd.rule = KillJump(c)
    BY <2>2, CmIs
  <2> QED
    BY <1>4, <2>3 DEF AddsRight, BuiltIn
<1>5. CASE name = "kill_off"
  <2>1. Script(name, c) = DeactivateKillSwitch(c)
    BY <1>5 DEF Script
  <2>2. /\ Len(DeactivateKillSwitch(c)) = 2
        /\ DeactivateKillSwitch(c)[1] = Cm("F", "CAMOFOX_KILLSW", NoRule)
        /\ DeactivateKillSwitch(c)[2] = Cm("A", "CAMOFOX_KILLSW", KillReturn)
    BY DEF DeactivateKillSwitch
  <2>3. k \in {1, 2}
    BY <2>1, <2>2
  <2>4. \/ cmd.op = "F"
        \/ cmd.op = "A" /\ cmd.chain = "CAMOFOX_KILLSW" /\ cmd.rule = KillReturn
    BY <2>1, <2>2, <2>3, CmIs
  <2> QED
    BY <1>5, <2>4 DEF AddsRight
<1>6. CASE name = "none"
  <2>1. Script(name, c) = <<>>
    BY <1>6 DEF Script
  <2> QED
    BY <2>1
<1> QED
  BY <1>2, <1>3, <1>4, <1>5, <1>6 DEF ScriptName

(* FORWARD decides by itself only about DNS and established connections.     *)
ForwardFits ==
    \A i \in 1..Len(rules["FORWARD"]) :
        /\ rules["FORWARD"][i].to = "DROP" => rules["FORWARD"][i].match = "udp53"
        /\ rules["FORWARD"][i].to = "ACCEPT" => rules["FORWARD"][i].match = "established"

LEMMA ForwardFitsRun ==
    ASSUME FirewallFits, ForwardFits, NEW p \in Proc, Command(p)
    PROVE  ForwardFits'
<1>1. PICK cmd \in CommandType :
         /\ cmd = Script(job[p].name, job[p].cfg)[job[p].at]
         /\ job[p].at \in 1..Len(Script(job[p].name, job[p].cfg))
         /\ Execute(cmd) \/ (cmd.op = "D*" /\ DeleteFirst(cmd.chain, cmd.rule))
  BY CommandDoes
<1>2. job[p].name \in ScriptName \cup {"none"} /\ job[p].cfg \in ConfigType /\ Tables
  BY DEF FirewallFits, JobType
<1>3. AddsRight(job[p].name, job[p].cfg, cmd)
  BY <1>1, <1>2, Adds
<1>4. "FORWARD" \in Chain
  BY DEF Chain, BuiltIn
<1>5. ASSUME NEW i \in 1..Len(rules'["FORWARD"])
      PROVE  \/ \E j \in 1..Len(rules["FORWARD"]) : rules'["FORWARD"][i] = rules["FORWARD"][j]
             \/ rules'["FORWARD"][i] \in {DnsDrop(job[p].cfg), EstAccept(job[p].cfg), KillJump(job[p].cfg)}
  BY <1>1, <1>2, <1>3, <1>4, Origins DEF AddsRight
<1>6. /\ DnsDrop(job[p].cfg).to = "DROP" /\ DnsDrop(job[p].cfg).match = "udp53"
      /\ EstAccept(job[p].cfg).to = "ACCEPT" /\ EstAccept(job[p].cfg).match = "established"
      /\ KillJump(job[p].cfg).to = "CAMOFOX_KILLSW"
  BY DEF DnsDrop, EstAccept, KillJump, Rl
<1> QED
  BY <1>5, <1>6 DEF ForwardFits

(* So other datagrams are dropped by the kill-switch chain alone.            *)
DroppedByChain ==
    \A lan : Dropped(lan, "udp") <=>
        /\ KillChainDrops
        /\ \E i \in 1..Len(rules["FORWARD"]) :
              /\ Matches(rules["FORWARD"][i], lan, "udp")
              /\ rules["FORWARD"][i].to = "CAMOFOX_KILLSW"

LEMMA DroppedBy == Tables /\ ForwardFits => DroppedByChain
<1> SUFFICES ASSUME Tables, ForwardFits, NEW lan
             PROVE  Dropped(lan, "udp") <=>
                      /\ KillChainDrops
                      /\ \E i \in 1..Len(rules["FORWARD"]) :
                            /\ Matches(rules["FORWARD"][i], lan, "udp")
                            /\ rules["FORWARD"][i].to = "CAMOFOX_KILLSW"
  BY DEF DroppedByChain
<1> DEFINE f == rules["FORWARD"]
           T == {i \in 1..Len(f) : Matches(f[i], lan, "udp") /\ f[i].to = "CAMOFOX_KILLSW"}
<1>0. \A i \in 1..Len(f) : Matches(f[i], lan, "udp") => f[i].to \notin {"DROP", "ACCEPT"}
  BY DEF ForwardFits, Matches
<1>1. ASSUME Dropped(lan, "udp")
      PROVE  KillChainDrops /\ T # {}
  BY <1>0, <1>1 DEF Dropped, Drops
<1>2. ASSUME KillChainDrops, T # {}
      PROVE  Dropped(lan, "udp")
  <2>1. Len(f) \in Nat
    BY LenProperties DEF Tables, Chain, BuiltIn
  <2>2. T \subseteq Nat
    BY <2>1
  <2>3. PICK m \in T : \A x \in T : m <= x
    BY <1>2, <2>2, LeastOf
  <2>4. ASSUME NEW j \in 1..(m - 1)
        PROVE  ~(Matches(f[j], lan, "udp") /\ Decides(f[j]))
    <3>1. j \in 1..Len(f) /\ ~(m <= j)
      BY <2>1, <2>3
    <3>2. j \notin T
      BY <2>3, <3>1
    <3> QED
      BY <1>0, <3>1, <3>2 DEF Decides, Drops
  <2>5. m \in 1..Len(f) /\ Matches(f[m], lan, "udp") /\ Drops(f[m])
    BY <1>2, <2>3 DEF Drops
  <2> QED
    BY <2>4, <2>5 DEF Dropped
<1> QED
  BY <1>1, <1>2

(* Only kill_on makes the chain drop, and only kill_on jumps to it.          *)
LEMMA BlocksOnlyByKillOn ==
    ASSUME FirewallFits, ForwardFits, NEW p \in Proc, Command(p), job[p].name # "kill_on",
           NEW lan, Dropped(lan, "udp")'
    PROVE  Dropped(lan, "udp")
<1>1. PICK cmd \in CommandType :
         /\ cmd = Script(job[p].name, job[p].cfg)[job[p].at]
         /\ job[p].at \in 1..Len(Script(job[p].name, job[p].cfg))
         /\ Execute(cmd) \/ (cmd.op = "D*" /\ DeleteFirst(cmd.chain, cmd.rule))
         /\ FirewallFits'
  BY CommandDoes
<1>2. job[p].name \in ScriptName \cup {"none"} /\ job[p].cfg \in ConfigType /\ Tables /\ Tables'
  BY <1>1 DEF FirewallFits, JobType
<1>3. AddsRight(job[p].name, job[p].cfg, cmd)
  BY <1>1, <1>2, Adds
<1>4. {"FORWARD", "CAMOFOX_KILLSW"} \subseteq Chain /\ "CAMOFOX_KILLSW" \notin BuiltIn
  BY DEF Chain, BuiltIn, UserChain
<1>5. KillChainDrops' /\ \E i \in 1..Len(rules'["FORWARD"]) :
         Matches(rules'["FORWARD"][i], lan, "udp") /\ rules'["FORWARD"][i].to = "CAMOFOX_KILLSW"
  <2>1. ForwardFits'
    BY ForwardFitsRun
  <2>2. DroppedByChain'
    BY <1>2, <2>1, DroppedBy, PTL
  <2> QED
    BY <2>2 DEF DroppedByChain, Matches
<1>6. \E i \in 1..Len(rules["FORWARD"]) :
         Matches(rules["FORWARD"][i], lan, "udp") /\ rules["FORWARD"][i].to = "CAMOFOX_KILLSW"
  <2>1. PICK i \in 1..Len(rules'["FORWARD"]) :
           Matches(rules'["FORWARD"][i], lan, "udp") /\ rules'["FORWARD"][i].to = "CAMOFOX_KILLSW"
    BY <1>5
  <2>2. rules'["FORWARD"][i] \notin {DnsDrop(job[p].cfg), EstAccept(job[p].cfg)}
    BY <2>1 DEF DnsDrop, EstAccept, Rl
  <2>3. \E j \in 1..Len(rules["FORWARD"]) : rules'["FORWARD"][i] = rules["FORWARD"][j]
    BY <1>1, <1>2, <1>3, <1>4, <2>2, Origins DEF AddsRight
  <2> QED
    BY <2>1, <2>3
<1>7. KillChainDrops
  <2> DEFINE s == rules["CAMOFOX_KILLSW"]
             t == rules'["CAMOFOX_KILLSW"]
  <2>1. Len(t) > 0 /\ t[1].to = "DROP" /\ s \in Seq(Rule) /\ Len(s) \in Nat
    BY <1>2, <1>4, <1>5, LenProperties DEF KillChainDrops, Tables
  <2>2. \/ t = s \/ t = <<>> \/ t = Append(s, KillReturn)
    <3>1. CASE cmd.chain # "CAMOFOX_KILLSW"
      BY <1>1, <1>2, <1>4, <3>1, ExecutesElsewhere, DeletesOne DEF CommandType
    <3>2. CASE cmd.chain = "CAMOFOX_KILLSW"
      BY <1>1, <1>2, <1>3, <1>4, <3>2 DEF AddsRight, Execute, Flush, Create, Fails, nfvars, Tables
    <3> QED
      BY <3>1, <3>2
  <2>3. t # <<>>
    BY <2>1
  <2>4. CASE t = Append(s, KillReturn)
    <3>1. KillReturn \in Rule /\ KillReturn.to = "RETURN"
      BY <1>2, RulesAreRules DEF KillReturn, Rl
    <3>2. Append(s, KillReturn)[Len(s) + 1] = KillReturn /\ \A k \in 1..Len(s) : Append(s, KillReturn)[k] = s[k]
      BY <2>1, <3>1, Within
    <3>3. Len(s) # 0
      BY <2>1, <2>4, <3>1, <3>2
    <3>4. 1 \in 1..Len(s)
      BY <2>1, <3>3
    <3> QED
      BY <2>1, <2>4, <3>2, <3>4 DEF KillChainDrops
  <2> QED
    BY <2>1, <2>2, <2>3, <2>4 DEF KillChainDrops
<1> QED
  BY <1>2, <1>6, <1>7, DroppedBy DEF DroppedByChain

(* A monitor that blocks has counted up to the threshold, and still has the  *)
(* count while its kill_on runs, even when it has been killed meanwhile.     *)
CountFits ==
    \A m \in Monitor :
        /\ pc[m] = "bad" => fail[m] = FailThreshold
        /\ job[m].name = "kill_on" /\ ~Finished(m) => fail[m] = FailThreshold

LEMMA CountFitsKept ==
    ASSUME FirewallFits, ServiceFits, MonitorsFit, ScriptsFit, CountFits, [RouterNext]_rvars
    PROVE  CountFits'
<1>0. InitProc \in Proc /\ InitProc \notin Monitor /\ Monitor \subseteq Proc
  BY InitProcAssumption, MonitorAssumption
<1>1. CASE Calls
  <2>1. CASE \E m \in Monitor : /\ \/ pc[m] = "bad" /\ pc' = [pc EXCEPT ![m] = "kill_on"] /\ Call(m, "kill_on")
                                   \/ pc[m] = "restore" /\ pc' = [pc EXCEPT ![m] = "kill_off"] /\ Call(m, "kill_off")
                                /\ UNCHANGED <<ipc, fail>>
    <3>1. PICK m \in Monitor, name \in {"kill_on", "kill_off"} :
             /\ pc' = [pc EXCEPT ![m] = name] /\ Call(m, name) /\ UNCHANGED fail
             /\ name = "kill_on" => pc[m] = "bad"
      BY <2>1
    <3>2. job'[m].name = name /\ \A q \in Proc \ {m} : job'[q] = job[q]
      BY <1>0, <3>1, CalledIs DEF ScriptName
    <3>3. pc'[m] = name /\ \A n \in Monitor \ {m} : pc'[n] = pc[n]
      BY <3>1 DEF MonitorsFit
    <3> QED
      BY <1>0, <3>1, <3>2, <3>3 DEF CountFits, Finished, Commands
  <2>2. CASE StartLoad \/ RemoveState
    <3>1. UNCHANGED <<pc, fail>>
      BY <2>2 DEF StartLoad, RemoveState, monvars
    <3>2. \A q \in Monitor : job'[q] = job[q]
      <4>1. UNCHANGED job \/ \E name \in ScriptName : Call(InitProc, name)
        BY <2>2 DEF StartLoad, RemoveState, ScriptName, fwvars
      <4> QED
        BY <1>0, <4>1, CalledIs
    <3> QED
      BY <3>1, <3>2 DEF CountFits, Finished, Commands
  <2>3. CASE ipc # ipc' /\ ~(StartLoad \/ RemoveState)
    <3>1. CASE InitStep
      BY <1>1, <2>3, <3>1 DEF Calls, InitStep, Acquire, Applied, ConfigureDoh, ReadPid, KillByPid, RemovePid, SpawnMonitor,
         ProcdSet, ProcdEmpty, BeltKill, BeltRemove, Removed, ProcdKill, InGoto, AfterHealthStop
    <3>2. CASE ~InitStep
      <4>1. ipc' = ipc
        BY <3>2 DEF RouterNext, UserStep, CmdStart, CmdStop, CmdRestart, Reconfigure, Setup, CmdEnable, Submit, HotplugStep,
           HotplugStart, HotplugDetect, HotplugDone, PhoneConnects, ProxyToggles, Background, rvars, initvars
      <4> QED
        BY <2>3, <4>1
    <3> QED
      BY <3>1, <3>2
  <2> QED
    BY <1>1, <2>1, <2>2, <2>3 DEF Calls
<1>2. CASE Runs
  <2>1. PICK p \in Proc : LoadConfig(p) \/ Command(p)
    BY <1>2 DEF Runs
  <2>2. job'[p].name = job[p].name /\ ~Finished(p) /\ \A q \in Proc \ {p} : job'[q] = job[q]
    BY <2>1, LoadedIs, CommandDoes
  <2>3. UNCHANGED <<pc, fail>>
    BY <1>2 DEF Runs
  <2>4. \A q \in Monitor : job'[q].name = job[q].name /\ (Finished(q) => Finished(q)')
    BY <1>0, <2>2 DEF Finished, Commands
  <2> QED
    BY <2>3, <2>4 DEF CountFits
<1>3. CASE UNCHANGED job
  <2>1. CASE UNCHANGED <<pc, fail>>
    BY <1>3, <2>1 DEF CountFits, Finished, Commands
  <2>2. CASE InitStep
    <3>1. CASE \E m \in Monitor : SpawnMonitor(m)
      <4>1. PICK m \in Monitor : SpawnMonitor(m)
        BY <3>1
      <4>2. Finished(m) /\ pc'[m] = "load" /\ \A n \in Monitor \ {m} : pc'[n] = pc[n] /\ fail'[n] = fail[n]
        BY <4>1 DEF SpawnMonitor, MonitorsFit
      <4> QED
        BY <1>3, <4>2 DEF CountFits, Finished, Commands
    <3>2. CASE KillByPid \/ BeltKill
      <4>1. fail' = fail /\ \A m \in Monitor : pc'[m] \in {"dead", pc[m]}
        BY <3>2 DEF KillByPid, BeltKill, KillMonitor, MonitorsFit
      <4> QED
        BY <1>3, <4>1 DEF CountFits, Finished, Commands
    <3>3. CASE ~(\E m \in Monitor : SpawnMonitor(m)) /\ ~KillByPid /\ ~BeltKill
      BY <2>1, <2>2, <3>3 DEF InitStep, Acquire, StartLoad, Applied, ConfigureDoh, ReadPid, RemovePid, ProcdSet, ProcdEmpty,
         BeltRemove, RemoveState, Removed, ProcdKill, vars, monvars
    <3> QED
      BY <3>1, <3>2, <3>3
  <2>3. CASE UserStep \/ HotplugStep \/ PhoneConnects \/ ProxyToggles \/ UNCHANGED rvars
    BY <2>1, <2>3 DEF UserStep, CmdStart, CmdStop, CmdRestart, Reconfigure, Setup, CmdEnable, Submit, HotplugStep, HotplugStart,
       HotplugDetect, HotplugDone, PhoneConnects, ProxyToggles, rvars, vars, monvars
  <2>4. CASE Background
    <3>1. CASE \E p \in Proc : ScriptStep(p)
      BY <2>1, <3>1 DEF ScriptStep, monvars
    <3>2. ASSUME NEW m \in Monitor, MonitorStep(m)
          PROVE  CountFits'
      <4>1. \A n \in Monitor \ {m} : pc'[n] = pc[n] /\ fail'[n] = fail[n]
        BY <3>2 DEF MonitorStep, Load, WritePid, Starting, Probe, ProxyOk, Restore, ChildDone, SetUp, ProxyBad, SetDown, Goto, MonitorsFit
      <4>2. ~Finished(m) => pc[m] \in {"dead", "kill_on", "kill_off"}
        BY <1>0 DEF ScriptsFit, MonitorsFit, PC
      <4>3. ~Finished(m) => UNCHANGED <<pc, fail>>
        BY <3>2, <4>2 DEF MonitorStep, Load, WritePid, Starting, Probe, ProxyOk, Restore, ChildDone, SetUp, ProxyBad, SetDown, Goto
      <4>4. pc'[m] = "bad" => fail'[m] = FailThreshold
        BY <3>2 DEF MonitorStep, Load, WritePid, Starting, Probe, ProxyOk, Restore, ChildDone, SetUp, ProxyBad, SetDown, Goto, MonitorsFit
      <4> QED
        BY <1>3, <4>1, <4>3, <4>4 DEF CountFits, Finished, Commands
    <3> QED
      BY <2>4, <3>1, <3>2 DEF Background
  <2> QED
    BY <2>2, <2>3, <2>4 DEF RouterNext
<1> QED
  BY <1>1, <1>2, <1>3, FirewallSteps

LEMMA ForwardFitsKept ==
    ASSUME FirewallFits, ServiceFits, ForwardFits, [RouterNext]_rvars
    PROVE  ForwardFits'
<1>1. ASSUME UNCHANGED rules
      PROVE  ForwardFits'
  BY <1>1 DEF ForwardFits
<1>2. Calls => UNCHANGED rules
  BY InitProcAssumption, MonitorAssumption DEF Calls, Call
<1>3. ASSUME NEW p \in Proc, LoadConfig(p)
      PROVE  UNCHANGED rules
  BY <1>3, LoadedIs
<1> QED
  BY <1>1, <1>2, <1>3, ForwardFitsRun, FirewallSteps DEF Runs

KillInv == RInv /\ ForwardFits /\ CountFits

LEMMA KillHolds == RouterSafeSpec => []KillInv
<1>1. ASSUME RouterInit
      PROVE  KillInv
  <2>1. ForwardFits
    BY <1>1 DEF RouterInit, FirewallInit, ForwardFits, Chain, BuiltIn
  <2>2. CountFits
    BY <1>1, MonitorAssumption DEF RouterInit, FirewallInit, CountFits
  <2> QED
    BY <1>1, <2>1, <2>2, RouterBegins DEF KillInv
<1>2. ASSUME KillInv, [RouterNext]_rvars
      PROVE  KillInv'
  BY <1>2, RouterKeeps, ForwardFitsKept, CountFitsKept DEF KillInv, RInv
<1> QED
  BY <1>1, <1>2, PTL DEF RouterSafeSpec

(* In the whole router too, with the monitors killed and replaced at any     *)
(* time, traffic becomes blocked only by a kill_on that a monitor started    *)
(* after FailThreshold failed probes in a row (health_check.sh:160-166).     *)
THEOREM RouterBlocksOnlyAfterThreshold == RouterSafeSpec => BlocksOnlyAfterThreshold
<1>1. ASSUME KillInv, [RouterNext]_rvars
      PROVE  [\A lan \in Lan : ~Dropped(lan, "udp") /\ Dropped(lan, "udp")' =>
                 \E m \in Monitor : /\ job[m].name = "kill_on" /\ ~Finished(m)
                                    /\ fail[m] = FailThreshold]_vars
  <2> SUFFICES ASSUME NEW lan \in Lan, ~Dropped(lan, "udp"), Dropped(lan, "udp")'
               PROVE  \E m \in Monitor : /\ job[m].name = "kill_on" /\ ~Finished(m)
                                         /\ fail[m] = FailThreshold
    OBVIOUS
  <2>0. FirewallFits /\ ServiceFits /\ ScriptsFit /\ ForwardFits /\ CountFits
    BY <1>1 DEF KillInv, RInv
  <2>1. rules' # rules
    <3>1. rules' = rules => (Dropped(lan, "udp")' <=> Dropped(lan, "udp"))
      BY DEF Dropped, Matches, Drops, Decides, KillChainDrops
    <3> QED
      BY <3>1
  <2>2. PICK p \in Proc : Command(p)
    <3>1. Calls => UNCHANGED rules
      BY InitProcAssumption, MonitorAssumption DEF Calls, Call
    <3>2. ASSUME NEW p \in Proc, LoadConfig(p)
          PROVE  UNCHANGED rules
      BY <3>2 DEF LoadConfig
    <3> QED
      BY <1>1, <2>0, <2>1, <3>1, <3>2, FirewallSteps DEF Runs
  <2>3. job[p].name = "kill_on"
    BY <2>0, <2>2, BlocksOnlyByKillOn
  <2>4. ~Finished(p)
    BY <2>2 DEF Command
  <2>5. p \in Monitor
    BY <2>0, <2>3, <2>4 DEF ScriptsFit
  <2> QED
    BY <2>0, <2>3, <2>4, <2>5 DEF CountFits
<1> QED
  BY <1>1, KillHolds, PTL DEF RouterSafeSpec, BlocksOnlyAfterThreshold

-----------------------------------------------------------------------------
(* One monitor.  A monitor that lives is named by the PID file, unless it    *)
(* has not come to write it, and the init script waits for that; so to kill  *)
(* the process the file names is to kill the only one.                       *)
BootsInTime == "slow boot" \notin Allowed
Young(m)    == pc[m] \in {"load", "write_pid"}

One ==
    /\ AtMostOneMonitor
    /\ \A m \in Monitor : pc[m] # "dead" => Young(m) \/ pidFile = m
    /\ ipc \notin {"idle", "procd_set"} => \A m \in Monitor : ~Young(m)
    /\ ipc = "kill" => ipid = pidFile
    /\ ipc \in Stopping \cup {"rm_pid", "spawn"} => \A m \in Monitor : pc[m] = "dead"

(* What the other steps do to the monitors.                                  *)
LEMMA MonitorsMove ==
    ASSUME MonitorsFit, [RouterNext]_rvars, ~InitStep
    PROVE  \/ UNCHANGED <<pc, pidFile>>
           \/ \E m \in Monitor :
                /\ pc[m] # "dead" /\ \A n \in Monitor \ {m} : pc'[n] = pc[n]
                /\ \/ pc[m] = "load" /\ pc'[m] = "write_pid" /\ pidFile' = pidFile
                   \/ pc[m] = "write_pid" /\ pc'[m] = "starting" /\ pidFile' = m
                   \/ ~Young(m) /\ ~Young(m)' /\ pc'[m] # "dead" /\ pidFile' = pidFile
<1>1. CASE UserStep \/ HotplugStep \/ PhoneConnects \/ ProxyToggles \/ UNCHANGED rvars
  BY <1>1 DEF UserStep, CmdStart, CmdStop, CmdRestart, Reconfigure, Setup, CmdEnable, Submit, HotplugStep, HotplugStart,
     HotplugDetect, HotplugDone, PhoneConnects, ProxyToggles, rvars, vars, monvars
<1>2. CASE Background /\ \E p \in Proc : ScriptStep(p)
  BY <1>2 DEF ScriptStep, monvars
<1>3. ASSUME NEW m \in Monitor, MonitorStep(m)
      PROVE  /\ pc[m] # "dead" /\ \A n \in Monitor \ {m} : pc'[n] = pc[n]
             /\ \/ pc[m] = "load" /\ pc'[m] = "write_pid" /\ pidFile' = pidFile
                \/ pc[m] = "write_pid" /\ pc'[m] = "starting" /\ pidFile' = m
                \/ ~Young(m) /\ ~Young(m)' /\ pc'[m] # "dead" /\ pidFile' = pidFile
  <2>1. CASE Load(m) \/ WritePid(m)
    BY <2>1 DEF Load, WritePid, Goto, MonitorsFit
  <2>2. CASE Starting(m) \/ Probe(m) \/ ProxyOk(m) \/ ChildDone(m) \/ SetUp(m) \/ SetDown(m)
    BY <2>2 DEF Starting, Probe, ProxyOk, ChildDone, SetUp, SetDown, Goto, MonitorsFit, Young
  <2>3. CASE Restore(m) \/ ProxyBad(m)
    BY <2>3 DEF Restore, ProxyBad, Goto, MonitorsFit, Young
  <2> QED
    BY <1>3, <2>1, <2>2, <2>3 DEF MonitorStep
<1> QED
  BY <1>1, <1>2, <1>3 DEF RouterNext, Background

LEMMA OneKept ==
    ASSUME BootsInTime, FirewallFits, ServiceFits, MonitorsFit, Path, One, [RouterNext]_rvars
    PROVE  One'
<1>0. NoPid \notin Monitor
  BY NoPidAssumption
<1>1. CASE ~InitStep
  <2>1. UNCHANGED <<ipc, ipid>>
    BY <1>1, BesideMoves
  <2>2. CASE UNCHANGED <<pc, pidFile>>
    BY <2>1, <2>2 DEF One, AtMostOneMonitor, Young, Stopping
  <2>3. ASSUME NEW m \in Monitor,
               pc[m] # "dead", \A n \in Monitor \ {m} : pc'[n] = pc[n],
               \/ pc[m] = "load" /\ pc'[m] = "write_pid" /\ pidFile' = pidFile
               \/ pc[m] = "write_pid" /\ pc'[m] = "starting" /\ pidFile' = m
               \/ ~Young(m) /\ ~Young(m)' /\ pc'[m] # "dead" /\ pidFile' = pidFile
        PROVE  One'
    <3>1. \A n \in Monitor \ {m} : pc[n] = "dead" /\ pc'[n] = "dead"
      BY <2>3 DEF One, AtMostOneMonitor
    <3>2. ipc \notin Stopping \cup {"rm_pid", "spawn"}
      BY <2>3 DEF One
    <3>3. AtMostOneMonitor'
      BY <3>1 DEF AtMostOneMonitor
    <3>4. pc'[m] # "dead" => Young(m)' \/ pidFile' = m
      BY <2>3 DEF One, Young
    <3>5. ipc' \notin {"idle", "procd_set"} => ~Young(m)'
      BY <2>1, <2>3 DEF One, Young
    <3>6. ipc' = "kill" => pidFile' = pidFile
      BY <2>1, <2>3 DEF One, Young
    <3> QED
      BY <2>1, <3>1, <3>2, <3>3, <3>4, <3>5, <3>6 DEF One, Young, Stopping
  <2> QED
    BY <1>1, <2>2, <2>3, MonitorsMove
<1>2. CASE \E c \in Caller : Acquire(c)
  <2>1. /\ UNCHANGED <<pc, pidFile, ipid>> /\ ipc' \in {"load", "read_pid"}
        /\ \A m \in Monitor : ~Young(m)
    BY <1>2 DEF Acquire, InGoto, vars, Young, BootsInTime
  <2> QED
    BY <2>1 DEF One, AtMostOneMonitor, Young, Stopping
<1>3. CASE StartLoad \/ Applied \/ ConfigureDoh
  <2>1. /\ UNCHANGED <<pc, pidFile, ipid>> /\ ipc \in {"load", "applying", "doh"}
        /\ ipc' \in {"applying", "procd_empty", "doh", "read_pid"}
    BY <1>3 DEF StartLoad, Applied, ConfigureDoh, InGoto, vars, monvars
  <2> QED
    BY <2>1 DEF One, AtMostOneMonitor, Young, Stopping
<1>4. CASE ReadPid
  <2>1. /\ UNCHANGED <<pc, pidFile>> /\ ipid' = pidFile /\ ipc = "read_pid"
        /\ ipc' \in {"spawn", "belt_kill", "kill"} /\ (ipc' # "kill" => pidFile = NoPid)
    BY <1>4 DEF ReadPid, InGoto, vars, AfterHealthStop
  <2>2. ipc' # "kill" => \A m \in Monitor : pc[m] = "dead"
    BY <1>0, <2>1 DEF One
  <2> QED
    BY <2>1, <2>2 DEF One, AtMostOneMonitor, Young, Stopping
<1>5. CASE KillByPid
  <2>1. ipc = "kill" /\ ipc' = "rm_pid" /\ \A n \in Monitor : pc'[n] = IF n = ipid THEN "dead" ELSE pc[n]
    BY <1>5 DEF KillByPid, KillMonitor, InGoto
  <2>2. \A n \in Monitor : pc'[n] = "dead"
    BY <2>1 DEF One
  <2> QED
    BY <2>1, <2>2 DEF One, AtMostOneMonitor, Young
<1>6. CASE RemovePid \/ BeltRemove \/ BeltKill \/ RemoveState \/ Removed
  <2>1. /\ ipc \in Stopping \cup {"rm_pid"}
        /\ ipc' \in (Stopping \cup {"spawn"})
        /\ \A m \in Monitor : pc'[m] \in {"dead", pc[m]}
    BY <1>6 DEF RemovePid, BeltRemove, BeltKill, RemoveState, Removed, InGoto, AfterHealthStop, Stopping, KillMonitor, vars, monvars
  <2>2. \A m \in Monitor : pc'[m] = "dead"
    BY <2>1 DEF One
  <2> QED
    BY <2>1, <2>2 DEF One, AtMostOneMonitor, Young, Stopping
<1>7. CASE \E m \in Monitor : SpawnMonitor(m)
  <2>1. PICK m \in Monitor : SpawnMonitor(m)
    BY <1>7
  <2>2. ipc = "spawn" /\ ipc' = "procd_set" /\ pc'[m] = "load" /\ \A n \in Monitor \ {m} : pc'[n] = pc[n]
    BY <2>1 DEF SpawnMonitor, InGoto, MonitorsFit
  <2>3. \A n \in Monitor \ {m} : pc'[n] = "dead"
    BY <2>2 DEF One
  <2> QED
    BY <2>2, <2>3 DEF One, AtMostOneMonitor, Young, Stopping
<1>8. CASE ProcdSet \/ ProcdEmpty \/ ProcdKill
  <2>1. /\ UNCHANGED <<pc, pidFile, ipid>> /\ ipc' \in {"idle", "load"} /\ (ipc' = "load" => ipc = "procd_kill")
    BY <1>8 DEF ProcdSet, ProcdEmpty, ProcdKill, InGoto, vars
  <2> QED
    BY <2>1 DEF One, AtMostOneMonitor, Young, Stopping
<1> QED
  BY <1>1, <1>2, <1>3, <1>4, <1>5, <1>6, <1>7, <1>8 DEF InitStep

LEMMA OneHolds ==
    ASSUME BootsInTime
    PROVE  RouterSafeSpec => [](RInv /\ One)
<1>1. RouterInit => One
  BY DEF RouterInit, One, AtMostOneMonitor, Young, Stopping
<1>2. RInv /\ One /\ [RouterNext]_rvars => One'
  BY OneKept DEF RInv
<1> QED
  BY <1>1, <1>2, RouterHolds, PTL DEF RouterSafeSpec

(* A start kills the monitor before it (init.d/camofox:140), so there never  *)
(* are two, if a monitor has written its PID file before the next operation  *)
(* begins: the file is all the init script knows of it.                      *)
THEOREM OneMonitorAtMost ==
    ASSUME "slow boot" \notin Allowed
    PROVE  RouterSafeSpec => []AtMostOneMonitor
<1>1. BootsInTime
  BY DEF BootsInTime
<1>2. One => AtMostOneMonitor
  BY DEF One
<1>3. RouterSafeSpec => [](RInv /\ One)
  BY <1>1, OneHolds
<1> QED
  BY <1>2, <1>3, PTL

-----------------------------------------------------------------------------
(* How often a rule stands in a chain: not at all, or once.                  *)
Absent(s, q) == \A i \in 1..Len(s) : s[i] # q
Single(s, q) == \E i \in 1..Len(s) : \A j \in 1..Len(s) : s[j] = q <=> j = i

LEMMA AppendCounts ==
    ASSUME NEW s \in Seq(Rule), NEW r \in Rule, NEW q
    PROVE  /\ q # r /\ Absent(s, q) => Absent(Append(s, r), q)
           /\ q # r /\ Single(s, q) => Single(Append(s, r), q)
           /\ q = r /\ Absent(s, q) => Single(Append(s, r), q)
<1> DEFINE n == Len(s)
           t == Append(s, r)
<1>1. n \in Nat /\ Len(t) = n + 1 /\ t[n + 1] = r /\ \A k \in 1..n : t[k] = s[k]
  BY Within, LenProperties
<1>2. 1..(n + 1) = 1..n \cup {n + 1} /\ n + 1 \notin 1..n
  BY <1>1
<1> HIDE DEF n, t
<1>3. ASSUME q # r, Absent(s, q)
      PROVE  Absent(t, q)
  BY <1>1, <1>2, <1>3 DEF Absent, n
<1>4. ASSUME q # r, Single(s, q)
      PROVE  Single(t, q)
  <2>1. PICK i \in 1..n : \A j \in 1..n : s[j] = q <=> j = i
    BY <1>4 DEF Single, n
  <2>2. i \in 1..(n + 1) /\ \A j \in 1..(n + 1) : t[j] = q <=> j = i
    BY <1>1, <1>2, <1>4, <2>1
  <2>3. i \in 1..Len(t) /\ \A j \in 1..Len(t) : t[j] = q <=> j = i
    BY ONLY <1>1, <2>2
  <2> QED
    BY <2>3 DEF Single
<1>5. ASSUME q = r, Absent(s, q)
      PROVE  Single(t, q)
  <2>1. n + 1 \in 1..(n + 1) /\ \A j \in 1..(n + 1) : t[j] = q <=> j = n + 1
    BY <1>1, <1>2, <1>5 DEF Absent, n
  <2>2. n + 1 \in 1..Len(t) /\ \A j \in 1..Len(t) : t[j] = q <=> j = n + 1
    BY ONLY <1>1, <2>1
  <2> QED
    BY <2>2 DEF Single
<1> QED
  BY <1>3, <1>4, <1>5 DEF t

LEMMA InsertCounts ==
    ASSUME NEW s \in Seq(Rule), NEW r \in Rule, NEW q
    PROVE  /\ q # r /\ Absent(s, q) => Absent(<<r>> \o s, q)
           /\ q # r /\ Single(s, q) => Single(<<r>> \o s, q)
           /\ q = r /\ Absent(s, q) => Single(<<r>> \o s, q)
<1> DEFINE n == Len(s)
           t == <<r>> \o s
<1>1. n \in Nat /\ Len(t) = n + 1 /\ t[1] = r /\ \A k \in 2..(n + 1) : t[k] = s[k - 1]
  BY Within, LenProperties
<1>2. \A k \in 1..(n + 1) : k = 1 \/ (k \in 2..(n + 1) /\ k - 1 \in 1..n)
  BY <1>1
<1> HIDE DEF n, t
<1>3. ASSUME q # r, Absent(s, q)
      PROVE  Absent(t, q)
  BY <1>1, <1>2, <1>3 DEF Absent, n
<1>4. ASSUME q # r, Single(s, q)
      PROVE  Single(t, q)
  <2>1. PICK i \in 1..n : \A j \in 1..n : s[j] = q <=> j = i
    BY <1>4 DEF Single, n
  <2>2. i + 1 \in 1..(n + 1) /\ i \in Nat /\ i # 0
    BY <1>1, <2>1
  <2>3. ASSUME NEW j \in 1..(n + 1)
        PROVE  t[j] = q <=> j = i + 1
    <3>1. CASE j = 1
      BY <1>1, <1>4, <2>2, <3>1
    <3>2. CASE j # 1
      <4>1. j \in 2..(n + 1) /\ j - 1 \in 1..n /\ (j - 1 = i <=> j = i + 1)
        BY <1>2, <2>2, <3>2
      <4> QED
        BY <1>1, <2>1, <4>1
    <3> QED
      BY <3>1, <3>2
  <2>4. i + 1 \in 1..Len(t) /\ \A j \in 1..Len(t) : t[j] = q <=> j = i + 1
    BY ONLY <1>1, <2>2, <2>3
  <2> QED
    BY <2>4 DEF Single
<1>5. ASSUME q = r, Absent(s, q)
      PROVE  Single(t, q)
  <2>1. ASSUME NEW j \in 1..(n + 1)
        PROVE  t[j] = q <=> j = 1
    BY <1>1, <1>2, <1>5 DEF Absent, n
  <2>2. 1 \in 1..(n + 1)
    BY <1>1
  <2>3. 1 \in 1..Len(t) /\ \A j \in 1..Len(t) : t[j] = q <=> j = 1
    BY ONLY <1>1, <2>1, <2>2
  <2> QED
    BY <2>3 DEF Single
<1> QED
  BY <1>3, <1>4, <1>5 DEF t

LEMMA DeleteCounts ==
    ASSUME NEW s \in Seq(Rule), NEW m \in 1..Len(s), NEW q, s[m] # q
    PROVE  LET t == SubSeq(s, 1, m - 1) \o SubSeq(s, m + 1, Len(s)) IN
           (Absent(s, q) => Absent(t, q)) /\ (Single(s, q) => Single(t, q))
<1> DEFINE n == Len(s)
           t == SubSeq(s, 1, m - 1) \o SubSeq(s, m + 1, Len(s))
<1>1. /\ n \in Nat /\ Len(t) = n - 1
      /\ \A k \in 1..(m - 1) : t[k] = s[k]
      /\ \A k \in m..(n - 1) : t[k] = s[k + 1]
  BY Without, LenProperties
<1>2. m \in 1..n
  OBVIOUS
<1> HIDE DEF n, t
<1>3. \A k \in 1..(n - 1) : \/ k \in 1..(m - 1) /\ k \in 1..n
                            \/ k \in m..(n - 1) /\ k + 1 \in 1..n
  BY <1>1, <1>2
<1>4. ASSUME Absent(s, q)
      PROVE  Absent(t, q)
  BY <1>1, <1>3, <1>4 DEF Absent, n
<1>5. ASSUME Single(s, q)
      PROVE  Single(t, q)
  <2>1. PICK i \in 1..n : \A j \in 1..n : s[j] = q <=> j = i
    BY <1>5 DEF Single, n
  <2>2. i # m
    BY <1>2, <2>1
  <2>3. CASE i < m
    <3>1. i \in 1..(n - 1) /\ i \in Nat
      BY <1>1, <1>2, <2>1, <2>3
    <3>2. ASSUME NEW j \in 1..(n - 1)
          PROVE  t[j] = q <=> j = i
      <4>1. CASE j \in 1..(m - 1)
        BY <1>1, <1>3, <2>1, <4>1
      <4>2. CASE j \in m..(n - 1)
        <5>1. j + 1 \in 1..n /\ j + 1 # i /\ j # i
          BY <1>1, <1>2, <2>3, <3>1, <4>2
        <5> QED
          BY <1>1, <2>1, <4>2, <5>1
      <4> QED
        BY <1>3, <4>1, <4>2
    <3>3. i \in 1..Len(t) /\ \A j \in 1..Len(t) : t[j] = q <=> j = i
      BY ONLY <1>1, <3>1, <3>2
    <3> QED
      BY <3>3 DEF Single
  <2>4. CASE i > m
    <3>1. i - 1 \in 1..(n - 1) /\ i \in Nat
      BY <1>1, <1>2, <2>1, <2>4
    <3>2. ASSUME NEW j \in 1..(n - 1)
          PROVE  t[j] = q <=> j = i - 1
      <4>1. CASE j \in 1..(m - 1)
        <5>1. j \in 1..n /\ j # i /\ j # i - 1
          BY <1>1, <1>2, <2>4, <3>1, <4>1
        <5> QED
          BY <1>1, <2>1, <4>1, <5>1
      <4>2. CASE j \in m..(n - 1)
        <5>1. j + 1 \in 1..n /\ (j + 1 = i <=> j = i - 1)
          BY <1>1, <1>2, <3>1, <4>2
        <5> QED
          BY <1>1, <2>1, <4>2, <5>1
      <4> QED
        BY <1>3, <4>1, <4>2
    <3>3. i - 1 \in 1..Len(t) /\ \A j \in 1..Len(t) : t[j] = q <=> j = i - 1
      BY ONLY <1>1, <3>1, <3>2
    <3> QED
      BY <3>3 DEF Single
  <2> QED
    BY <1>1, <1>2, <2>1, <2>2, <2>3, <2>4
<1> QED
  BY <1>4, <1>5 DEF t

(* What a command on a built-in chain does to the number of one rule.        *)
LEMMA CellRun ==
    ASSUME Tables, NEW cmd \in CommandType, NEW d \in BuiltIn, NEW q,
           Execute(cmd) \/ (cmd.op = "D*" /\ DeleteFirst(cmd.chain, cmd.rule)),
           cmd.chain = d => cmd.op \in {"A", "I", "D*"}
    PROVE  /\ cmd.chain # d \/ cmd.rule # q =>
                /\ Absent(rules[d], q) => Absent(rules'[d], q)
                /\ Single(rules[d], q) => Single(rules'[d], q)
           /\ /\ cmd.chain = d /\ cmd.rule = q /\ cmd.op \in {"A", "I"} /\ CanAdd(d, q)
              /\ Absent(rules[d], q)
              => Single(rules'[d], q)
           /\ cmd.chain = d /\ cmd.rule = q /\ cmd.op = "D*" /\ Execute(cmd) /\ ~Holds(d, q)
              => Absent(rules'[d], q)
<1>1. cmd.chain \in Chain /\ cmd.rule \in Rule /\ d \in Chain /\ rules[d] \in Seq(Rule)
  BY DEF CommandType, Tables, Chain
<1>2. CASE rules'[d] = rules[d] /\ ~(cmd.chain = d /\ cmd.op \in {"A", "I"} /\ CanAdd(d, cmd.rule))
  BY <1>2 DEF Absent, Holds
<1>3. CASE cmd.chain = d /\ cmd.op = "A" /\ rules'[d] = Append(rules[d], cmd.rule)
  BY <1>1, <1>3, AppendCounts
<1>4. CASE cmd.chain = d /\ cmd.op = "I" /\ rules'[d] = <<cmd.rule>> \o rules[d]
  BY <1>1, <1>4, InsertCounts
<1>5. CASE cmd.chain = d /\ cmd.op = "D*" /\ DeleteFirst(d, cmd.rule)
  <2>1. PICK m \in 1..Len(rules[d]) :
           /\ rules[d][m] = cmd.rule
           /\ rules' = [rules EXCEPT ![d] = SubSeq(@, 1, m - 1) \o SubSeq(@, m + 1, Len(@))]
    BY <1>5 DEF DeleteFirst, FirstAt
  <2>2. rules'[d] = SubSeq(rules[d], 1, m - 1) \o SubSeq(rules[d], m + 1, Len(rules[d]))
    BY <1>1, <2>1 DEF Tables
  <2>3. cmd.rule # q =>
           /\ Absent(rules[d], q) => Absent(rules'[d], q)
           /\ Single(rules[d], q) => Single(rules'[d], q)
    BY <1>1, <2>1, <2>2, DeleteCounts
  <2>4. Holds(d, cmd.rule)
    BY <2>1 DEF Holds
  <2> QED
    BY <1>5, <2>3, <2>4
<1>6. CASE cmd.chain # d
  BY <1>1, <1>2, <1>6, ExecutesElsewhere, DeletesOne
<1>7. CASE cmd.chain = d /\ Execute(cmd)
  <2>1. \/ cmd.op \in {"A", "I"} /\ CanAdd(d, cmd.rule)
             /\ (rules'[d] = IF cmd.op = "A" THEN Append(rules[d], cmd.rule) ELSE <<cmd.rule>> \o rules[d])
        \/ rules' = rules /\ ~(cmd.op \in {"A", "I"} /\ CanAdd(d, cmd.rule))
    BY <1>1, <1>7 DEF Execute, Fails, nfvars, Tables
  <2> QED
    BY <1>2, <1>3, <1>4, <1>7, <2>1
<1> QED
  BY <1>5, <1>6, <1>7

-----------------------------------------------------------------------------
(* The place of one rule q in chain d while a script runs: its command       *)
(* `from` removes the rule, and, if it has it, its command `to` adds it.      *)
CellFits(d, q, from, to, has, k) ==
    k > from => IF has /\ k > to THEN Single(rules[d], q) ELSE Absent(rules[d], q)

Serves(cmd, d, q, from, to, has, k) ==
    /\ k = from => cmd.chain = d /\ cmd.rule = q /\ cmd.op = "D*"
    /\ has /\ k = to => cmd.chain = d /\ cmd.rule = q /\ cmd.op \in {"A", "I"}
    /\ k # from /\ ~(has /\ k = to) => cmd.chain # d \/ cmd.rule # q

LEMMA CellStep ==
    ASSUME Tables, NEW cmd \in CommandType, NEW d \in BuiltIn, NEW q, NEW from \in Nat, NEW to \in Nat,
           from < to, NEW has \in BOOLEAN, NEW k \in Nat,
           cmd.chain = d => cmd.op \in {"A", "I", "D*"},
           Serves(cmd, d, q, from, to, has, k),
           has /\ k = to => CanAdd(d, q),
           CellFits(d, q, from, to, has, k)
    PROVE  /\ Execute(cmd) /\ ~(cmd.op = "D*" /\ Holds(cmd.chain, cmd.rule))
                => CellFits(d, q, from, to, has, k + 1)'
           /\ cmd.op = "D*" /\ DeleteFirst(cmd.chain, cmd.rule) => CellFits(d, q, from, to, has, k)'
<1>1. ASSUME Execute(cmd), ~(cmd.op = "D*" /\ Holds(cmd.chain, cmd.rule))
      PROVE  CellFits(d, q, from, to, has, k + 1)'
  <2>1. CASE k = from
    <3>1. Absent(rules'[d], q)
      BY <1>1, <2>1, CellRun DEF Serves
    <3>2. ~(k + 1 > to)
      BY <2>1
    <3> QED
      BY <3>1, <3>2 DEF CellFits
  <2>2. CASE has /\ k = to
    <3>1. Absent(rules[d], q)
      <4>1. k > from /\ ~(k > to)
        BY <2>2
      <4> QED
        BY <4>1 DEF CellFits
    <3>2. Single(rules'[d], q)
      BY <1>1, <2>2, <3>1, CellRun DEF Serves
    <3>3. k + 1 > to
      BY <2>2
    <3> QED
      BY <2>2, <3>2, <3>3 DEF CellFits
  <2>3. CASE k # from /\ ~(has /\ k = to)
    <3>1. /\ Absent(rules[d], q) => Absent(rules'[d], q)
          /\ Single(rules[d], q) => Single(rules'[d], q)
      BY <1>1, <2>3, CellRun DEF Serves
    <3>2. (k + 1 > from <=> k > from) /\ (has => (k + 1 > to <=> k > to))
      BY <2>3
    <3> QED
      BY <3>1, <3>2 DEF CellFits
  <2> QED
    BY <2>1, <2>2, <2>3
<1>2. ASSUME cmd.op = "D*", DeleteFirst(cmd.chain, cmd.rule)
      PROVE  CellFits(d, q, from, to, has, k)'
  <2>1. CASE k = from
    BY <2>1 DEF CellFits
  <2>2. CASE k # from
    <3>1. ~(has /\ k = to)
      BY <1>2 DEF Serves
    <3>2. /\ Absent(rules[d], q) => Absent(rules'[d], q)
          /\ Single(rules[d], q) => Single(rules'[d], q)
      BY <1>2, <2>2, <3>1, CellRun DEF Serves
    <3> QED
      BY <3>2 DEF CellFits
  <2> QED
    BY <2>1, <2>2
<1> QED
  BY <1>1, <1>2

(* The commands of apply_rules, seen from four of the rules it adds.         *)
LEMMA Places ==
    ASSUME NEW c \in ConfigType
    PROVE  /\ TtlEnd(c) \in Nat /\ DohEnd(c) \in Nat /\ ApplyEnd(c) \in Nat
           /\ TtlEnd(c) >= 16 /\ DohEnd(c) >= TtlEnd(c) /\ ApplyEnd(c) >= DohEnd(c)
           /\ c.ttl_enabled \in BOOLEAN /\ c.doh \in BOOLEAN /\ c.kill_switch \in BOOLEAN
           /\ IF c.ttl_enabled THEN TtlEnd(c) = 17 ELSE TtlEnd(c) = 16
           /\ IF c.doh THEN DohEnd(c) = TtlEnd(c) + 3 ELSE DohEnd(c) = TtlEnd(c)
           /\ IF c.kill_switch THEN ApplyEnd(c) = DohEnd(c) + 3 ELSE ApplyEnd(c) = DohEnd(c)
BY DEF TtlEnd, DohEnd, ApplyEnd, ConfigType

ApplyServes(c, cmd, k) ==
    /\ cmd.chain \in BuiltIn => cmd.op \in {"A", "I", "D*"}
    /\ Serves(cmd, "PREROUTING", RedsocksJump(c), 1, 16, TRUE, k)
    /\ Serves(cmd, "FORWARD", DnsDrop(c), 5, DohEnd(c), c.doh, k)
    /\ Serves(cmd, "INPUT", DnsUdpAccept(c), 6, TtlEnd(c) + 1, c.doh, k)
    /\ Serves(cmd, "FORWARD", EstAccept(c), 8, ApplyEnd(c), c.kill_switch, k)

LEMMA ApplyCells ==
    ASSUME NEW c \in ConfigType, NEW k \in 1..Len(ApplyRules(c))
    PROVE  ApplyServes(c, ApplyRules(c)[k], k)
<1> DEFINE cmd == ApplyRules(c)[k]
<1>1. /\ DnsDrop(c) # EstAccept(c) /\ DnsDrop(c) # KillJump(c) /\ EstAccept(c) # KillJump(c)
      /\ DnsUdpAccept(c) # DnsTcpAccept(c)
  BY DEF DnsDrop, EstAccept, KillJump, DnsUdpAccept, DnsTcpAccept, Rl
<1>2. /\ TtlEnd(c) \in Nat /\ DohEnd(c) \in Nat /\ ApplyEnd(c) \in Nat
      /\ TtlEnd(c) >= 16 /\ DohEnd(c) >= TtlEnd(c) /\ ApplyEnd(c) >= DohEnd(c)
      /\ IF c.doh THEN DohEnd(c) = TtlEnd(c) + 3 ELSE DohEnd(c) = TtlEnd(c)
      /\ IF c.kill_switch THEN ApplyEnd(c) = DohEnd(c) + 3 ELSE ApplyEnd(c) = DohEnd(c)
  BY Places
<1>3. k \in Nat
  BY ApplyIsThis, LenProperties
<1>4. CASE k \in 1..11
  <2>1. cmd = RemoveRules(c)[k]
    BY <1>4, ApplyAt
  <2>2. k # TtlEnd(c) + 1 /\ k # DohEnd(c) /\ k # ApplyEnd(c) /\ k # 16
    BY <1>2, <1>4
  <2>3. k \in {1, 2, 3, 4, 5, 6, 7, 8, 9, 10, 11}
    BY <1>4
  <2>4. /\ cmd.chain \in BuiltIn => cmd.op = "D*"
        /\ IF k = 1 THEN cmd.chain = "PREROUTING" /\ cmd.rule = RedsocksJump(c) /\ cmd.op = "D*" ELSE cmd.chain # "PREROUTING"
        /\ IF k = 5 THEN cmd.chain = "FORWARD" /\ cmd.rule = DnsDrop(c) /\ cmd.op = "D*"
                    ELSE cmd.chain # "FORWARD" \/ cmd.rule \in {EstAccept(c), KillJump(c)}
        /\ IF k = 6 THEN cmd.chain = "INPUT" /\ cmd.rule = DnsUdpAccept(c) /\ cmd.op = "D*"
                    ELSE cmd.chain # "INPUT" \/ cmd.rule = DnsTcpAccept(c)
        /\ IF k = 8 THEN cmd.chain = "FORWARD" /\ cmd.rule = EstAccept(c) /\ cmd.op = "D*"
                    ELSE cmd.chain # "FORWARD" \/ cmd.rule \in {DnsDrop(c), KillJump(c)}
    BY <2>1, <2>3, RemoveCommands, CmIs DEF BuiltIn
  <2> HIDE DEF cmd
  <2>5. ApplyServes(c, cmd, k)
    BY <1>1, <2>2, <2>4 DEF ApplyServes, Serves
  <2> QED
    BY <2>5 DEF cmd
<1>5. CASE k \in {12, 13, 14, 15, 16}
  <2>1. k \notin {1, 5, 6, 8} /\ ~(c.doh /\ k = TtlEnd(c) + 1) /\ ~(c.doh /\ k = DohEnd(c))
        /\ ~(c.kill_switch /\ k = ApplyEnd(c))
    BY <1>2, <1>5
  <2>2. IF k = 16 THEN cmd.op = "A" /\ cmd.chain = "PREROUTING" /\ cmd.rule = RedsocksJump(c)
                  ELSE cmd.chain = "REDSOCKS"
    <3>1. CASE k = 16
      <4>1. cmd = Cm("A", "PREROUTING", RedsocksJump(c))
        BY <3>1, ApplyAt
      <4> QED
        BY <3>1, <4>1, CmIs
    <3>2. CASE k \in {12, 13, 14, 15}
      <4>1. cmd \in {Cm("N", "REDSOCKS", NoRule), Cm("A", "REDSOCKS", PrivateReturn),
                     Cm("A", "REDSOCKS", ProxyReturn(c)), Cm("A", "REDSOCKS", Redirect)}
        BY <3>2, ApplyAt
      <4>2. cmd.chain = "REDSOCKS" /\ k # 16
        BY <3>2, <4>1, CmIs
      <4> QED
        BY <4>2
    <3> QED
      BY <1>5, <3>1, <3>2
  <2> HIDE DEF cmd
  <2>3. ApplyServes(c, cmd, k)
    BY <2>1, <2>2 DEF ApplyServes, Serves, BuiltIn
  <2> QED
    BY <2>3 DEF cmd
<1>6. CASE c.ttl_enabled /\ k = 17
  <2>1. k \notin {1, 5, 6, 8, 16} /\ k # TtlEnd(c) + 1 /\ ~(c.doh /\ k = DohEnd(c))
        /\ ~(c.kill_switch /\ k = ApplyEnd(c))
    BY <1>2, <1>6, Places
  <2>2. cmd.op = "A" /\ cmd.chain = "POSTROUTING"
    BY <1>6, ApplyAt, CmIs
  <2> HIDE DEF cmd
  <2>3. ApplyServes(c, cmd, k)
    BY <2>1, <2>2 DEF ApplyServes, Serves, BuiltIn
  <2> QED
    BY <2>3 DEF cmd
<1>7. CASE c.doh /\ k \in {TtlEnd(c) + 1, TtlEnd(c) + 2, TtlEnd(c) + 3}
  <2>1. k \notin {1, 5, 6, 8, 16} /\ ~(c.kill_switch /\ k = ApplyEnd(c))
        /\ (k = DohEnd(c) <=> k = TtlEnd(c) + 3) /\ TtlEnd(c) + 3 # TtlEnd(c) + 1 /\ TtlEnd(c) + 2 # TtlEnd(c) + 1
    BY <1>2, <1>7
  <2>2. \/ k = TtlEnd(c) + 1 /\ cmd.op = "I" /\ cmd.chain = "INPUT" /\ cmd.rule = DnsUdpAccept(c)
        \/ k = TtlEnd(c) + 2 /\ cmd.op = "I" /\ cmd.chain = "INPUT" /\ cmd.rule = DnsTcpAccept(c)
        \/ k = TtlEnd(c) + 3 /\ cmd.op = "A" /\ cmd.chain = "FORWARD" /\ cmd.rule = DnsDrop(c)
    BY <1>7, ApplyAt, CmIs
  <2>3. TtlEnd(c) + 3 # TtlEnd(c) + 2
    BY <1>2
  <2> HIDE DEF cmd
  <2>4. ApplyServes(c, cmd, k)
    BY <1>1, <1>7, <2>1, <2>2, <2>3 DEF ApplyServes, Serves, BuiltIn
  <2> QED
    BY <2>4 DEF cmd
<1>8. CASE c.kill_switch /\ k \in {DohEnd(c) + 1, DohEnd(c) + 2, DohEnd(c) + 3}
  <2>1. k \notin {1, 5, 6, 8, 16} /\ ~(c.doh /\ k = TtlEnd(c) + 1) /\ k # DohEnd(c)
        /\ (k = ApplyEnd(c) <=> k = DohEnd(c) + 3)
    BY <1>2, <1>8
  <2>2. \/ k # DohEnd(c) + 3 /\ cmd.chain = "CAMOFOX_KILLSW"
        \/ k = DohEnd(c) + 3 /\ cmd.op = "I" /\ cmd.chain = "FORWARD" /\ cmd.rule = EstAccept(c)
    <3>1. DohEnd(c) + 1 # DohEnd(c) + 3 /\ DohEnd(c) + 2 # DohEnd(c) + 3
      BY <1>2
    <3> QED
      BY <1>8, <3>1, ApplyAt, CmIs
  <2> HIDE DEF cmd
  <2>3. ApplyServes(c, cmd, k)
    BY <1>1, <1>8, <2>1, <2>2 DEF ApplyServes, Serves, BuiltIn
  <2> QED
    BY <2>3 DEF cmd
<1> QED
  BY <1>4, <1>5, <1>6, <1>7, <1>8, ApplyPlaces

-----------------------------------------------------------------------------
(* Four of the rules apply adds, wherever it is; and how the commands move   *)
(* them: its own, and those of kill_on and kill_off beside it.               *)
Cells(c, k) ==
    /\ CellFits("PREROUTING", RedsocksJump(c), 1, 16, TRUE, k)
    /\ CellFits("FORWARD", DnsDrop(c), 5, DohEnd(c), c.doh, k)
    /\ CellFits("INPUT", DnsUdpAccept(c), 6, TtlEnd(c) + 1, c.doh, k)
    /\ CellFits("FORWARD", EstAccept(c), 8, ApplyEnd(c), c.kill_switch, k)

LEMMA CellsRun ==
    ASSUME Tables, NEW c \in ConfigType, NEW k \in 1..Len(ApplyRules(c)), Cells(c, k), Building(c, k)
    PROVE  LET cmd == ApplyRules(c)[k] IN
           /\ Execute(cmd) /\ ~(cmd.op = "D*" /\ Holds(cmd.chain, cmd.rule)) => Cells(c, k + 1)'
           /\ cmd.op = "D*" /\ DeleteFirst(cmd.chain, cmd.rule) => Cells(c, k)'
<1> DEFINE cmd == ApplyRules(c)[k]
<1>1. cmd \in CommandType /\ k \in Nat
  BY ApplyIsThis, ElementOfSeq, LenProperties
<1>2. ApplyServes(c, cmd, k)
  BY ApplyCells
<1>3. /\ TtlEnd(c) + 1 \in Nat /\ DohEnd(c) \in Nat /\ ApplyEnd(c) \in Nat
      /\ 5 < DohEnd(c) /\ 6 < TtlEnd(c) + 1 /\ 8 < ApplyEnd(c)
      /\ c.doh \in BOOLEAN /\ c.kill_switch \in BOOLEAN
  BY Places
<1>4. /\ k = 16 => CanAdd("PREROUTING", RedsocksJump(c))
      /\ CanAdd("FORWARD", DnsDrop(c)) /\ CanAdd("INPUT", DnsUdpAccept(c)) /\ CanAdd("FORWARD", EstAccept(c))
  <2>1. k = 16 => "REDSOCKS" \in chains
    BY DEF Building
  <2> QED
    BY <2>1 DEF CanAdd, Exists, BuiltIn, UserChain, RedsocksJump, DnsDrop, DnsUdpAccept, EstAccept, Rl
<1>5. {"PREROUTING", "FORWARD", "INPUT"} \subseteq BuiltIn
  BY DEF BuiltIn
<1> HIDE DEF cmd
<1>6. /\ Execute(cmd) /\ ~(cmd.op = "D*" /\ Holds(cmd.chain, cmd.rule))
           => CellFits("PREROUTING", RedsocksJump(c), 1, 16, TRUE, k + 1)'
      /\ cmd.op = "D*" /\ DeleteFirst(cmd.chain, cmd.rule) => CellFits("PREROUTING", RedsocksJump(c), 1, 16, TRUE, k)'
  <2> DEFINE from == 1
             to == 16
             has == TRUE
  <2>1. from \in Nat /\ to \in Nat /\ from < to /\ has \in BOOLEAN
    OBVIOUS
  <2>2. /\ Serves(cmd, "PREROUTING", RedsocksJump(c), from, to, has, k)
        /\ has /\ k = to => CanAdd("PREROUTING", RedsocksJump(c))
        /\ CellFits("PREROUTING", RedsocksJump(c), from, to, has, k)
        /\ cmd.chain = "PREROUTING" => cmd.op \in {"A", "I", "D*"}
    BY <1>2, <1>4, <1>5 DEF ApplyServes, Cells
  <2> HIDE DEF from, to, has
  <2>3. /\ Execute(cmd) /\ ~(cmd.op = "D*" /\ Holds(cmd.chain, cmd.rule))
             => CellFits("PREROUTING", RedsocksJump(c), from, to, has, k + 1)'
        /\ cmd.op = "D*" /\ DeleteFirst(cmd.chain, cmd.rule)
             => CellFits("PREROUTING", RedsocksJump(c), from, to, has, k)'
    BY <1>1, <1>5, <2>1, <2>2, CellStep
  <2> QED
    BY <2>3 DEF from, to, has
<1>7. /\ Execute(cmd) /\ ~(cmd.op = "D*" /\ Holds(cmd.chain, cmd.rule))
           => CellFits("FORWARD", DnsDrop(c), 5, DohEnd(c), c.doh, k + 1)'
      /\ cmd.op = "D*" /\ DeleteFirst(cmd.chain, cmd.rule) => CellFits("FORWARD", DnsDrop(c), 5, DohEnd(c), c.doh, k)'
  BY <1>1, <1>2, <1>3, <1>4, <1>5, CellStep DEF ApplyServes, Cells
<1>8. /\ Execute(cmd) /\ ~(cmd.op = "D*" /\ Holds(cmd.chain, cmd.rule))
           => CellFits("INPUT", DnsUdpAccept(c), 6, TtlEnd(c) + 1, c.doh, k + 1)'
      /\ cmd.op = "D*" /\ DeleteFirst(cmd.chain, cmd.rule)
           => CellFits("INPUT", DnsUdpAccept(c), 6, TtlEnd(c) + 1, c.doh, k)'
  BY <1>1, <1>2, <1>3, <1>4, <1>5, CellStep DEF ApplyServes, Cells
<1>9. /\ Execute(cmd) /\ ~(cmd.op = "D*" /\ Holds(cmd.chain, cmd.rule))
           => CellFits("FORWARD", EstAccept(c), 8, ApplyEnd(c), c.kill_switch, k + 1)'
      /\ cmd.op = "D*" /\ DeleteFirst(cmd.chain, cmd.rule)
           => CellFits("FORWARD", EstAccept(c), 8, ApplyEnd(c), c.kill_switch, k)'
  BY <1>1, <1>2, <1>3, <1>4, <1>5, CellStep DEF ApplyServes, Cells
<1>10. /\ Execute(cmd) /\ ~(cmd.op = "D*" /\ Holds(cmd.chain, cmd.rule)) => Cells(c, k + 1)'
       /\ cmd.op = "D*" /\ DeleteFirst(cmd.chain, cmd.rule) => Cells(c, k)'
  BY <1>6, <1>7, <1>8, <1>9 DEF Cells
<1> QED
  BY <1>10 DEF cmd

(* kill_on and kill_off touch the kill-switch chain and its jump only.       *)
KillMoves(cmd) ==
    /\ cmd.chain \in {"CAMOFOX_KILLSW", "FORWARD"}
    /\ cmd.chain = "FORWARD" => cmd.op \in {"D*", "I"} /\ cmd.rule.to = "CAMOFOX_KILLSW"

LEMMA KillTouches ==
    ASSUME NEW name \in {"kill_on", "kill_off", "none"}, NEW c \in ConfigType, NEW k \in 1..Len(Script(name, c))
    PROVE  KillMoves(Script(name, c)[k])
<1>1. KillJump(c).to = "CAMOFOX_KILLSW"
  BY DEF KillJump, Rl
<1>2. CASE name = "kill_on"
  <2>1. Script(name, c) = ActivateKillSwitch(c) /\ Len(ActivateKillSwitch(c)) = 4
    BY <1>2, KillCommands DEF Script
  <2>2. k \in {1, 2, 3, 4}
    BY <2>1
  <2>3. Script(name, c)[k] \in {Cm("F", "CAMOFOX_KILLSW", NoRule), Cm("A", "CAMOFOX_KILLSW", KillDrop),
                                 Cm("D*", "FORWARD", KillJump(c)), Cm("I", "FORWARD", KillJump(c))}
    BY <2>1, <2>2, KillCommands
  <2> QED
    BY <1>1, <2>3, CmIs DEF KillMoves
<1>3. CASE name = "kill_off"
  <2>1. Script(name, c) = DeactivateKillSwitch(c) /\ Len(DeactivateKillSwitch(c)) = 2
    BY <1>3, KillCommands DEF Script
  <2>2. k \in {1, 2}
    BY <2>1
  <2>3. Script(name, c)[k] \in {Cm("F", "CAMOFOX_KILLSW", NoRule), Cm("A", "CAMOFOX_KILLSW", KillReturn)}
    BY <2>1, <2>2, KillCommands
  <2> QED
    BY <2>3, CmIs DEF KillMoves
<1>4. CASE name = "none"
  <2>1. Script(name, c) = <<>>
    BY <1>4 DEF Script
  <2> QED
    BY <2>1
<1> QED
  BY <1>2, <1>3, <1>4

LEMMA CellsBeside ==
    ASSUME Tables, NEW cmd \in CommandType, KillMoves(cmd),
           Execute(cmd) \/ (cmd.op = "D*" /\ DeleteFirst(cmd.chain, cmd.rule))
    PROVE  /\ rules'["REDSOCKS"] = rules["REDSOCKS"] /\ ("REDSOCKS" \in chains <=> "REDSOCKS" \in chains')
           /\ \A d \in BuiltIn : \A q :
                q.to # "CAMOFOX_KILLSW" =>
                    /\ Absent(rules[d], q) => Absent(rules'[d], q)
                    /\ Single(rules[d], q) => Single(rules'[d], q)
<1>1. "REDSOCKS" \in Chain /\ cmd.chain \in Chain
  BY DEF Chain, UserChain, CommandType
<1>2. cmd.chain # "REDSOCKS"
  BY DEF KillMoves
<1>3. rules'["REDSOCKS"] = rules["REDSOCKS"] /\ ("REDSOCKS" \in chains <=> "REDSOCKS" \in chains')
  BY <1>1, <1>2, ExecutesElsewhere, DeletesOne
<1>4. ASSUME NEW d \in BuiltIn, NEW q, q.to # "CAMOFOX_KILLSW"
      PROVE  /\ Absent(rules[d], q) => Absent(rules'[d], q)
             /\ Single(rules[d], q) => Single(rules'[d], q)
  <2>1. cmd.chain # d \/ cmd.rule # q
    BY <1>4 DEF KillMoves, BuiltIn
  <2>2. cmd.chain = d => cmd.op \in {"A", "I", "D*"}
    BY DEF KillMoves, BuiltIn
  <2> QED
    BY <2>1, <2>2, CellRun
<1> QED
  BY <1>3, <1>4

(* So whatever part of apply is done stays done beside them.                 *)
LEMMA CellsStay ==
    ASSUME Tables, NEW cmd \in CommandType, KillMoves(cmd),
           Execute(cmd) \/ (cmd.op = "D*" /\ DeleteFirst(cmd.chain, cmd.rule)),
           NEW c \in ConfigType, NEW k \in Nat, Cells(c, k), Building(c, k)
    PROVE  Cells(c, k)' /\ Building(c, k)'
<1>1. /\ RedsocksJump(c).to # "CAMOFOX_KILLSW" /\ DnsDrop(c).to # "CAMOFOX_KILLSW"
      /\ DnsUdpAccept(c).to # "CAMOFOX_KILLSW" /\ EstAccept(c).to # "CAMOFOX_KILLSW"
      /\ {"PREROUTING", "FORWARD", "INPUT"} \subseteq BuiltIn
  BY DEF RedsocksJump, DnsDrop, DnsUdpAccept, EstAccept, Rl, BuiltIn
<1>2. /\ rules'["REDSOCKS"] = rules["REDSOCKS"] /\ ("REDSOCKS" \in chains <=> "REDSOCKS" \in chains')
      /\ \A d \in BuiltIn : \A q :
           q.to # "CAMOFOX_KILLSW" =>
               /\ Absent(rules[d], q) => Absent(rules'[d], q)
               /\ Single(rules[d], q) => Single(rules'[d], q)
  BY CellsBeside
<1>3. Building(c, k)'
  BY <1>2 DEF Building
<1>4. Cells(c, k)'
  BY <1>1, <1>2 DEF Cells, CellFits
<1> QED
  BY <1>3, <1>4

-----------------------------------------------------------------------------
(* The apply of a start, while monitors and their scripts run beside it.     *)
ApplyFits ==
    /\ RedirectGuarded
    /\ ipc = "applying" => /\ Building(job[InitProc].cfg, job[InitProc].at)
                           /\ Cells(job[InitProc].cfg, job[InitProc].at)

(* A command of a process that is not the init script's.                     *)
LEMMA OthersCommand ==
    ASSUME FirewallFits, ScriptsFit, NEW p \in Proc \ {InitProc}, Command(p)
    PROVE  \E cmd \in CommandType :
             /\ KillMoves(cmd)
             /\ Execute(cmd) \/ (cmd.op = "D*" /\ DeleteFirst(cmd.chain, cmd.rule))
<1>1. PICK cmd \in CommandType :
         /\ cmd = Script(job[p].name, job[p].cfg)[job[p].at]
         /\ job[p].at \in 1..Len(Script(job[p].name, job[p].cfg))
         /\ Execute(cmd) \/ (cmd.op = "D*" /\ DeleteFirst(cmd.chain, cmd.rule))
  BY CommandDoes
<1>2. job[p].name \in {"kill_on", "kill_off", "none"} /\ job[p].cfg \in ConfigType
  BY DEF ScriptsFit, FirewallFits, JobType
<1>3. KillMoves(cmd)
  BY <1>1, <1>2, KillTouches
<1> QED
  BY <1>1, <1>3

LEMMA ApplyFitsKept ==
    ASSUME RInv, ApplyFits, [RouterNext]_rvars
    PROVE  ApplyFits'
<1>0. /\ FirewallFits /\ ServiceFits /\ Path /\ ScriptsFit /\ Tables
      /\ InitProc \in Proc /\ InitProc \notin Monitor /\ Monitor \subseteq Proc
      /\ job[InitProc] \in JobType
  BY InitProcAssumption, MonitorAssumption DEF RInv, FirewallFits
<1>1. ASSUME UNCHANGED rules, job'[InitProc].at \in {0, 1}
      PROVE  ApplyFits'
  <2>1. RedirectGuarded'
    BY <1>1, SameIsGuarded DEF ApplyFits
  <2>2. Building(job[InitProc].cfg, job[InitProc].at)' /\ Cells(job[InitProc].cfg, job[InitProc].at)'
    BY <1>1 DEF Building, Cells, CellFits
  <2> QED
    BY <2>1, <2>2 DEF ApplyFits
<1>2. ASSUME UNCHANGED <<rules, chains>>, job'[InitProc] = job[InitProc], ipc' = "applying" => ipc = "applying"
      PROVE  ApplyFits'
  <2>1. RedirectGuarded'
    BY <1>2, SameIsGuarded DEF ApplyFits
  <2>2. ASSUME ipc' = "applying"
        PROVE  Building(job[InitProc].cfg, job[InitProc].at)' /\ Cells(job[InitProc].cfg, job[InitProc].at)'
    BY <1>2, <2>2 DEF ApplyFits, Building, Cells, CellFits
  <2> QED
    BY <2>1, <2>2 DEF ApplyFits
<1>3. CASE Calls
  <2>1. CASE \E name \in ScriptName : Call(InitProc, name)
    <3>1. PICK name \in ScriptName : Call(InitProc, name)
      BY <2>1
    <3>2. job'[InitProc] = [name |-> name, cfg |-> uci, at |-> 0] /\ UNCHANGED rules
      BY <1>0, <3>1, CalledIs
    <3>3. job'[InitProc].at = 0
      BY <3>2
    <3> QED
      BY <3>2, <3>3, <1>1
  <2>2. CASE \E m \in Monitor : (Call(m, "kill_on") \/ Call(m, "kill_off")) /\ UNCHANGED ipc
    <3>1. PICK m \in Monitor, name \in ScriptName : Call(m, name)
      BY <2>2 DEF ScriptName
    <3>2. UNCHANGED <<rules, chains>> /\ job'[InitProc] = job[InitProc]
      BY <1>0, <3>1, CalledIs
    <3> QED
      BY <2>2, <3>2, <1>2
  <2> QED
    BY <1>3, <2>1, <2>2 DEF Calls, ScriptName
<1>4. CASE Runs
  <2>1. PICK p \in Proc : LoadConfig(p) \/ Command(p)
    BY <1>4 DEF Runs
  <2>2. UNCHANGED ipc
    BY <1>4 DEF Runs
  <2>3. CASE LoadConfig(p)
    <3>1. /\ UNCHANGED <<rules, chains>> /\ job'[p].at = 1
          /\ \A q \in Proc \ {p} : job'[q] = job[q]
      BY <1>0, <2>3, LoadedIs
    <3> QED
      BY <1>0, <2>2, <3>1, <1>1, <1>2
  <2>4. CASE Command(p) /\ p # InitProc
    <3>1. job'[InitProc] = job[InitProc]
      BY <1>0, <2>4, CommandDoes
    <3>2. PICK cmd \in CommandType :
             /\ KillMoves(cmd)
             /\ Execute(cmd) \/ (cmd.op = "D*" /\ DeleteFirst(cmd.chain, cmd.rule))
      BY <1>0, <2>4, OthersCommand
    <3>3. RedirectGuarded'
      <4>1. cmd.chain # "REDSOCKS"
        BY <3>2 DEF KillMoves
      <4> QED
        BY <1>0, <3>2, <4>1, LeavesGuarded DEF ApplyFits
    <3>4. ASSUME ipc' = "applying"
          PROVE  Building(job[InitProc].cfg, job[InitProc].at)' /\ Cells(job[InitProc].cfg, job[InitProc].at)'
      <4>1. PICK c \in ConfigType, k \in Nat : c = job[InitProc].cfg /\ k = job[InitProc].at
        BY <1>0 DEF JobType
      <4>2. Cells(c, k) /\ Building(c, k)
        BY <2>2, <3>4, <4>1 DEF ApplyFits
      <4>3. Cells(c, k)' /\ Building(c, k)'
        BY <1>0, <3>2, <4>2, CellsStay
      <4> QED
        BY <3>1, <4>1, <4>3
    <3> QED
      BY <3>3, <3>4 DEF ApplyFits
  <2>5. CASE Command(p) /\ p = InitProc
    <3>1. PICK cmd \in CommandType :
             /\ cmd = Script(job[p].name, job[p].cfg)[job[p].at]
             /\ job[p].at \in 1..Len(Script(job[p].name, job[p].cfg))
             /\ ~Finished(p)
             /\ job'[p].cfg = job[p].cfg
             /\ \/ Execute(cmd) /\ job'[p].at = job[p].at + 1
                     /\ ~(cmd.op = "D*" /\ Holds(cmd.chain, cmd.rule))
                \/ cmd.op = "D*" /\ DeleteFirst(cmd.chain, cmd.rule) /\ job' = job
      BY <1>0, <2>5, CommandDoes
    <3>2. PICK c \in ConfigType, k \in Nat : c = job[p].cfg /\ k = job[p].at
      BY <1>0, <2>5 DEF JobType
    <3>3. CASE ipc = "applying"
      <4>1. cmd = ApplyRules(c)[k] /\ k \in 1..Len(ApplyRules(c))
        BY <1>0, <2>5, <3>1, <3>2, <3>3 DEF ScriptsFit, Script
      <4>2. Building(c, k) /\ Cells(c, k) /\ RedirectGuarded
        BY <2>5, <3>2, <3>3 DEF ApplyFits
      <4>3. CASE Execute(cmd) /\ job'[p].at = job[p].at + 1 /\ ~(cmd.op = "D*" /\ Holds(cmd.chain, cmd.rule))
        <5>1. RedirectGuarded' /\ Building(c, k + 1)'
          BY <1>0, <4>1, <4>2, <4>3, ApplyExecutes
        <5>2. Cells(c, k + 1)'
          BY <1>0, <4>1, <4>2, <4>3, CellsRun
        <5>3. job'[p].cfg = c /\ job'[p].at = k + 1
          BY <3>1, <3>2, <4>3
        <5> QED
          BY <2>5, <5>1, <5>2, <5>3 DEF ApplyFits
      <4>4. CASE cmd.op = "D*" /\ DeleteFirst(cmd.chain, cmd.rule) /\ job' = job
        <5>1. RedirectGuarded' /\ Building(c, k)'
          BY <1>0, <4>1, <4>2, <4>4, ApplyDeletes
        <5>2. Cells(c, k)'
          BY <1>0, <4>1, <4>2, <4>4, CellsRun
        <5>3. job'[p].cfg = c /\ job'[p].at = k
          BY <3>1, <3>2, <4>4
        <5> QED
          BY <2>5, <5>1, <5>2, <5>3 DEF ApplyFits
      <4> QED
        BY <3>1, <4>3, <4>4
    <3>4. CASE ipc # "applying"
      <4>1. ipc = "removing"
        BY <1>0, <2>5, <3>1, <3>4 DEF ScriptsFit
      <4>2. cmd = RemoveRules(c)[k] /\ k \in 1..Len(RemoveRules(c))
        BY <1>0, <2>5, <3>1, <3>2, <4>1 DEF ScriptsFit, Script
      <4>3. cmd.chain # "REDSOCKS" \/ cmd.op = "F" \/ cmd.op = "X"
        BY <4>2, RemoveLeaves
      <4>4. RedirectGuarded'
        BY <1>0, <3>1, <4>3, LeavesGuarded DEF ApplyFits
      <4> QED
        BY <2>2, <3>4, <4>4 DEF ApplyFits
    <3> QED
      BY <3>3, <3>4
  <2> QED
    BY <2>1, <2>3, <2>4, <2>5
<1>5. CASE UNCHANGED <<rules, chains, job>>
  <2>1. ipc' = "applying" => ipc = "applying" \/ Call(InitProc, "apply")
    <3>1. CASE ~InitStep
      BY <1>0, <3>1, BesideMoves
    <3>2. CASE InitStep
      BY <3>2 DEF InitStep, Acquire, StartLoad, Applied, ConfigureDoh, ReadPid, KillByPid, RemovePid, SpawnMonitor,
         ProcdSet, ProcdEmpty, BeltKill, BeltRemove, RemoveState, Removed, ProcdKill, InGoto, AfterHealthStop
    <3> QED
      BY <3>1, <3>2
  <2>2. Call(InitProc, "apply") => job'[InitProc].at = 0
    BY <1>0, CalledIs DEF ScriptName
  <2> QED
    BY <1>1, <1>2, <1>5, <2>1, <2>2
<1> QED
  BY <1>0, <1>3, <1>4, <1>5, FirewallSteps

LEMMA ApplyHolds == RouterSafeSpec => [](RInv /\ ApplyFits)
<1>1. RouterInit => ApplyFits
  BY DEF RouterInit, FirewallInit, ApplyFits, RedirectGuarded, Chain, UserChain
<1>2. RInv /\ ApplyFits /\ [RouterNext]_rvars => ApplyFits'
  BY ApplyFitsKept
<1> QED
  BY <1>1, <1>2, RouterHolds, PTL DEF RouterSafeSpec

(* With the monitors' scripts beside the init script's, at any time, traffic *)
(* still is redirected behind the exclusions only (firewall.rules:95-97).    *)
THEOREM RouterRedirectsAreGuarded == RouterSafeSpec => []RedirectGuarded
<1>1. ApplyFits => RedirectGuarded
  BY DEF ApplyFits
<1> QED
  BY <1>1, ApplyHolds, PTL

-----------------------------------------------------------------------------
(* A stop that finds no monitor and no script of one when it comes to remove *)
(* the rules: none lives from then on until the next start, the kill-switch  *)
(* chain drops nothing once remove has emptied it, and no rule drops DNS.    *)
Silent == \A m \in Monitor : pc[m] = "dead" /\ Finished(m)
NoDrop == \A i \in 1..Len(rules["CAMOFOX_KILLSW"]) : rules["CAMOFOX_KILLSW"][i].to # "DROP"

StoppedFits ==
    alone =>
        /\ redsocks = NoIP /\ ipc \notin {"procd_set", "removing"} => Silent /\ NoDrop
        /\ ipc \in {"removing", "procd_kill"} => Silent
        /\ ipc = "removing" /\ job[InitProc].at >= 11 => NoDrop
        /\ ipc = "procd_kill" => NoDrop

(* Only kill_on lets the chain drop; remove empties it by its command 10.    *)
LEMMA KillChainRun ==
    ASSUME FirewallFits, NEW p \in Proc, Command(p), job[p].name # "kill_on"
    PROVE  /\ NoDrop => NoDrop'
           /\ job[p].name = "remove" /\ job'[p].at = 11 /\ job[p].at # 11 => NoDrop'
<1> DEFINE s == Script(job[p].name, job[p].cfg)
<1>1. PICK cmd \in CommandType :
         /\ cmd = s[job[p].at] /\ job[p].at \in 1..Len(s)
         /\ \/ Execute(cmd) /\ job'[p].at = job[p].at + 1
                 /\ ~(cmd.op = "D*" /\ Holds(cmd.chain, cmd.rule))
            \/ cmd.op = "D*" /\ DeleteFirst(cmd.chain, cmd.rule) /\ job' = job
  BY CommandDoes
<1>2. /\ job[p].name \in ScriptName \cup {"none"} /\ job[p].cfg \in ConfigType /\ job[p].at \in Nat /\ Tables
      /\ "CAMOFOX_KILLSW" \in Chain
  BY DEF FirewallFits, JobType, Chain, UserChain
<1>3. AddsRight(job[p].name, job[p].cfg, cmd)
  BY <1>1, <1>2, Adds
<1>4. ASSUME NoDrop, NEW i \in 1..Len(rules'["CAMOFOX_KILLSW"])
      PROVE  rules'["CAMOFOX_KILLSW"][i].to # "DROP"
  <2>1. \/ \E j \in 1..Len(rules["CAMOFOX_KILLSW"]) : rules'["CAMOFOX_KILLSW"][i] = rules["CAMOFOX_KILLSW"][j]
        \/ rules'["CAMOFOX_KILLSW"][i] = KillReturn
    BY <1>1, <1>2, <1>3, Origins DEF AddsRight
  <2>2. KillReturn.to # "DROP"
    BY DEF KillReturn, Rl
  <2> QED
    BY <1>4, <2>1, <2>2 DEF NoDrop
<1>5. ASSUME job[p].name = "remove", job'[p].at = 11, job[p].at # 11
      PROVE  NoDrop'
  <2>1. s = RemoveRules(job[p].cfg)
    BY <1>5 DEF Script
  <2>2. Execute(cmd) /\ job[p].at = 10
    <3>1. job'[p].at = job[p].at + 1 /\ Execute(cmd)
      BY <1>1, <1>5
    <3> QED
      BY <1>2, <1>5, <3>1
  <2>3. cmd = Cm("F", "CAMOFOX_KILLSW", NoRule)
    BY <1>1, <2>1, <2>2, RemoveCommands
  <2>4. rules'["CAMOFOX_KILLSW"] = <<>>
    BY <1>2, <2>2, <2>3, Flushes
  <2> QED
    BY <2>4 DEF NoDrop
<1> QED
  BY <1>4, <1>5 DEF NoDrop

(* While all is silent, it stays silent until a monitor is started.          *)
LEMMA SilentKept ==
    ASSUME FirewallFits, ServiceFits, MonitorsFit, Path, ScriptsFit, Silent, [RouterNext]_rvars,
           ipc # "spawn"
    PROVE  /\ Silent'
           /\ NoDrop => NoDrop'
           /\ ipc = "removing" /\ job'[InitProc].at >= 11 /\ ipc' = ipc => job[InitProc].at >= 11 \/ NoDrop'
<1>0. InitProc \in Proc /\ InitProc \notin Monitor /\ Monitor \subseteq Proc
  BY InitProcAssumption, MonitorAssumption
<1>1. \A m \in Monitor : pc'[m] = "dead"
  <2>1. CASE ~InitStep
    BY <2>1, MonitorsMove DEF Silent
  <2>2. CASE KillByPid \/ BeltKill
    BY <2>2 DEF KillByPid, BeltKill, KillMonitor, Silent
  <2>3. CASE InitStep /\ ~KillByPid /\ ~BeltKill
    <3>1. UNCHANGED pc
      BY <2>3 DEF InitStep, Acquire, StartLoad, Applied, ConfigureDoh, ReadPid, RemovePid, SpawnMonitor, ProcdSet, ProcdEmpty,
         BeltRemove, RemoveState, Removed, ProcdKill, InGoto, vars, monvars
    <3> QED
      BY <3>1 DEF Silent
  <2> QED
    BY <2>1, <2>2, <2>3
<1>2. CASE Calls
  <2>1. \E name \in ScriptName : Call(InitProc, name) /\ ipc' # ipc
    BY <1>2 DEF Calls, ScriptName, Silent
  <2>2. UNCHANGED rules /\ \A m \in Monitor : job'[m] = job[m]
    BY <1>0, <2>1, CalledIs
  <2> QED
    BY <1>1, <2>1, <2>2 DEF Silent, Finished, Commands, NoDrop
<1>3. CASE Runs
  <2>1. PICK p \in Proc : LoadConfig(p) \/ Command(p)
    BY <1>3 DEF Runs
  <2>2. ~Finished(p) /\ \A q \in Proc \ {p} : job'[q] = job[q]
    BY <2>1, LoadedIs, CommandDoes
  <2>3. p = InitProc
    BY <2>2 DEF ScriptsFit, Silent
  <2>4. \A m \in Monitor : job'[m] = job[m]
    BY <1>0, <2>2, <2>3
  <2>5. CASE LoadConfig(p)
    <3>1. UNCHANGED rules /\ job'[InitProc].at = 1
      BY <2>3, <2>5, LoadedIs
    <3> QED
      BY <1>1, <2>4, <3>1 DEF Silent, Finished, Commands, NoDrop
  <2>6. CASE Command(p)
    <3>1. job[p].name # "kill_on"
      BY <2>3 DEF ScriptsFit
    <3>2. /\ NoDrop => NoDrop'
          /\ job[p].name = "remove" /\ job'[p].at = 11 /\ job[p].at # 11 => NoDrop'
      BY <2>6, <3>1, KillChainRun
    <3>3. job'[p].at \in {job[p].at, job[p].at + 1} /\ job[p].at \in Nat
      BY <2>6, CommandDoes DEF FirewallFits, JobType
    <3>4. job'[p].at >= 11 => job[p].at >= 11 \/ (job'[p].at = 11 /\ job[p].at # 11)
      BY <3>3
    <3>5. ipc = "removing" => job[p].name = "remove"
      BY <2>3 DEF ScriptsFit
    <3> QED
      BY <1>1, <2>3, <2>4, <3>2, <3>4, <3>5 DEF Silent, Finished, Commands
  <2> QED
    BY <2>1, <2>5, <2>6
<1>4. CASE UNCHANGED <<rules, job>>
  BY <1>1, <1>4 DEF Silent, Finished, Commands, NoDrop
<1> QED
  BY <1>2, <1>3, <1>4, FirewallSteps

LEMMA StoppedFitsKept ==
    ASSUME RInv, StoppedFits, [RouterNext]_rvars
    PROVE  StoppedFits'
<1>0. /\ FirewallFits /\ ServiceFits /\ MonitorsFit /\ Path /\ ScriptsFit /\ DisabledIsDown
      /\ InitProc \in Proc /\ InitProc \notin Monitor /\ Monitor \subseteq Proc
  BY InitProcAssumption, MonitorAssumption DEF RInv
<1>1. CASE ~InitStep
  <2>1. UNCHANGED <<ipc, redsocks, alone>>
    BY <1>0, <1>1, Beside DEF initvars
  <2>2. CASE ~Silent \/ ~alone
    BY <2>1, <2>2 DEF StoppedFits
  <2>3. CASE Silent /\ ipc # "spawn"
    BY <1>0, <2>1, <2>3, SilentKept DEF StoppedFits
  <2>4. CASE Silent /\ ipc = "spawn"
    <3>1. UNCHANGED pc
      <4>1. \A m \in Monitor : pc[m] = "dead"
        BY <2>4 DEF Silent
      <4> QED
        BY <1>0, <1>1, <4>1, MonitorsMove
    <3>2. ~Calls
      BY <2>1, <2>4 DEF Calls, Silent
    <3>3. ~Runs
      <4>1. \A p \in Proc : Finished(p)
        BY <1>0, <2>4 DEF Silent, ScriptsFit
      <4> QED
        BY <1>0, <4>1, LoadedIs, CommandDoes DEF Runs
    <3>4. UNCHANGED <<rules, job>>
      BY <1>0, <3>2, <3>3, FirewallSteps
    <3> QED
      BY <2>1, <3>1, <3>4 DEF StoppedFits, Silent, NoDrop, Finished, Commands
  <2> QED
    BY <2>2, <2>3, <2>4
<1>2. CASE RemoveState
  <2>1. Call(InitProc, "remove") /\ ipc = "rm_state" /\ ipc' = "removing" /\ redsocks' = redsocks
        /\ (alone' => Silent)
    BY <1>0, <1>2 DEF RemoveState, InGoto, Silent
  <2>2. job'[InitProc] = [name |-> "remove", cfg |-> uci, at |-> 0]
    BY <1>0, <2>1, CalledIs DEF ScriptName
  <2>3. ~(job'[InitProc].at >= 11)
    BY <2>2
  <2>4. Silent => Silent'
    BY <1>0, <2>1, SilentKept
  <2> QED
    BY <2>1, <2>3, <2>4 DEF StoppedFits
<1>3. CASE InitStep /\ ~RemoveState
  <2>0. UNCHANGED alone /\ ipc # "rm_state"
    BY <1>3 DEF InitStep, Acquire, StartLoad, Applied, ConfigureDoh, ReadPid, KillByPid, RemovePid, SpawnMonitor,
       ProcdSet, ProcdEmpty, BeltKill, BeltRemove, Removed, ProcdKill, InGoto
  <2>1. CASE ipc = "spawn"
    <3>1. ipc' = "procd_set"
      BY <1>3, <2>1 DEF InitStep, Acquire, StartLoad, Applied, ConfigureDoh, ReadPid, KillByPid, RemovePid, SpawnMonitor,
         ProcdSet, ProcdEmpty, BeltKill, BeltRemove, Removed, ProcdKill, InGoto
    <3> QED
      BY <3>1 DEF StoppedFits
  <2>2. CASE ipc = "procd_set"
    <3>1. redsocks' # NoIP /\ ipc' = "idle"
      BY <1>0, <1>3, <2>2, InitMoves DEF DisabledIsDown, OnWay
    <3> QED
      BY <3>1 DEF StoppedFits
  <2>3. CASE ipc = "removing" /\ alone
    <3>1. ipc' = "procd_kill" /\ Finished(InitProc) /\ redsocks' = redsocks
      BY <1>0, <1>3, <2>3, InitMoves
    <3>2. Silent /\ Silent' /\ (NoDrop => NoDrop')
      BY <1>0, <2>3, SilentKept DEF StoppedFits
    <3>3. Commands(InitProc) = RemoveRules(job[InitProc].cfg)
      BY <1>0, <2>3 DEF ScriptsFit, Commands, Script
    <3>4. job[InitProc].at > 11 /\ job[InitProc].at \in Nat
      BY <1>0, <3>1, <3>3, RemoveCommands DEF Finished, FirewallFits, JobType
    <3>5. job[InitProc].at >= 11
      BY <3>4
    <3>6. NoDrop
      BY <2>3, <3>5 DEF StoppedFits
    <3> QED
      BY <3>1, <3>2, <3>6 DEF StoppedFits
  <2>4. CASE ipc = "procd_kill" /\ alone
    <3>1. Silent' /\ NoDrop' /\ ipc' \in {"idle", "load"}
      BY <1>0, <1>3, <2>4, SilentKept, InitMoves DEF StoppedFits
    <3> QED
      BY <3>1 DEF StoppedFits
  <2>5. CASE ipc \notin {"spawn", "procd_set", "removing", "procd_kill"} /\ alone
    <3>1. ipc' \notin {"removing", "procd_kill"}
      BY <1>0, <1>3, <2>0, <2>5, InitMoves
    <3>2. redsocks' = NoIP => redsocks = NoIP
      BY <1>0, <1>3, <2>5, InitMoves DEF DisabledIsDown
    <3> QED
      BY <1>0, <2>5, <3>1, <3>2, SilentKept DEF StoppedFits
  <2>6. CASE ~alone
    BY <2>0, <2>6 DEF StoppedFits
  <2> QED
    BY <2>1, <2>2, <2>3, <2>4, <2>5, <2>6
<1> QED
  BY <1>1, <1>2, <1>3

(* What drops in FORWARD drops DNS of one LAN; remove takes its own LAN's    *)
(* rule away with its command 5 and nothing that runs beside it adds one.    *)
RemoveFits ==
    /\ \A i \in 1..Len(rules["FORWARD"]) :
          rules["FORWARD"][i].to = "DROP" => \E lan \in Lan : rules["FORWARD"][i] = Rl(lan, "udp53", "DROP")
    /\ job[InitProc].name = "remove" =>
          CellFits("FORWARD", DnsDrop(job[InitProc].cfg), 5, 12, FALSE, job[InitProc].at)

LEMMA RemoveServes ==
    ASSUME NEW c \in ConfigType, NEW k \in 1..Len(RemoveRules(c))
    PROVE  /\ RemoveRules(c)[k].chain = "FORWARD" => RemoveRules(c)[k].op = "D*"
           /\ Serves(RemoveRules(c)[k], "FORWARD", DnsDrop(c), 5, 12, FALSE, k)
<1>1. DnsDrop(c) # EstAccept(c) /\ DnsDrop(c) # KillJump(c)
  BY DEF DnsDrop, EstAccept, KillJump, Rl
<1>2. k \in 1..11
  BY RemoveCommands
<1>3. CASE k = 5
  BY <1>3, RemoveCommands, CmIs DEF Serves
<1>4. CASE k = 8
  BY <1>1, <1>4, RemoveCommands, CmIs DEF Serves
<1>5. CASE k = 9
  BY <1>1, <1>5, RemoveCommands, CmIs DEF Serves
<1>6. CASE k \in {1, 2, 3, 4, 6, 7, 10, 11}
  <2>1. RemoveRules(c)[k].chain # "FORWARD"
    BY <1>6, RemoveCommands, CmIs
  <2> QED
    BY <1>6, <2>1 DEF Serves
<1>7. k \in {1, 2, 3, 4, 5, 6, 7, 8, 9, 10, 11}
  BY <1>2
<1> QED
  BY <1>3, <1>4, <1>5, <1>6, <1>7

LEMMA RemoveFitsRun ==
    ASSUME FirewallFits, ScriptsFit, RemoveFits, NEW p \in Proc, Command(p)
    PROVE  RemoveFits'
<1>0. InitProc \in Proc /\ {"FORWARD"} \subseteq Chain /\ "FORWARD" \in BuiltIn
  BY InitProcAssumption DEF Chain, BuiltIn
<1>1. PICK cmd \in CommandType :
         /\ cmd = Script(job[p].name, job[p].cfg)[job[p].at]
         /\ job[p].at \in 1..Len(Script(job[p].name, job[p].cfg))
         /\ job'[p].name = job[p].name /\ job'[p].cfg = job[p].cfg
         /\ \A q \in Proc \ {p} : job'[q] = job[q]
         /\ \/ Execute(cmd) /\ job'[p].at = job[p].at + 1
                 /\ ~(cmd.op = "D*" /\ Holds(cmd.chain, cmd.rule))
            \/ cmd.op = "D*" /\ DeleteFirst(cmd.chain, cmd.rule) /\ job' = job
  BY CommandDoes
<1>2. /\ job[p].name \in ScriptName \cup {"none"} /\ job[p].cfg \in ConfigType /\ job[p].at \in Nat /\ Tables
  BY DEF FirewallFits, JobType
<1>3. AddsRight(job[p].name, job[p].cfg, cmd)
  BY <1>1, <1>2, Adds
<1>4. ASSUME NEW i \in 1..Len(rules'["FORWARD"]), rules'["FORWARD"][i].to = "DROP"
      PROVE  \E lan \in Lan : rules'["FORWARD"][i] = Rl(lan, "udp53", "DROP")
  <2>1. \/ \E j \in 1..Len(rules["FORWARD"]) : rules'["FORWARD"][i] = rules["FORWARD"][j]
        \/ rules'["FORWARD"][i] \in {DnsDrop(job[p].cfg), EstAccept(job[p].cfg), KillJump(job[p].cfg)}
    BY <1>0, <1>1, <1>2, <1>3, Origins DEF AddsRight
  <2>2. EstAccept(job[p].cfg).to # "DROP" /\ KillJump(job[p].cfg).to # "DROP"
    BY DEF EstAccept, KillJump, Rl
  <2>3. DnsDrop(job[p].cfg) = Rl(job[p].cfg.lan, "udp53", "DROP") /\ job[p].cfg.lan \in Lan
    BY <1>2 DEF DnsDrop, ConfigType
  <2> QED
    BY <1>4, <2>1, <2>2, <2>3 DEF RemoveFits
<1>5. ASSUME job'[InitProc].name = "remove"
      PROVE  CellFits("FORWARD", DnsDrop(job[InitProc].cfg), 5, 12, FALSE, job[InitProc].at)'
  <2>1. CASE p # InitProc
    <3>1. job'[InitProc] = job[InitProc]
      BY <1>0, <1>1, <2>1
    <3>2. PICK x \in CommandType :
             /\ KillMoves(x)
             /\ Execute(x) \/ (x.op = "D*" /\ DeleteFirst(x.chain, x.rule))
      BY <2>1, OthersCommand
    <3>3. DnsDrop(job[InitProc].cfg).to # "CAMOFOX_KILLSW"
      BY DEF DnsDrop, Rl
    <3>4. Absent(rules["FORWARD"], DnsDrop(job[InitProc].cfg)) => Absent(rules'["FORWARD"], DnsDrop(job[InitProc].cfg))
      BY <1>0, <1>2, <3>2, <3>3, CellsBeside
    <3> QED
      BY <1>5, <3>1, <3>4 DEF RemoveFits, CellFits
  <2>2. CASE p = InitProc
    <3>1. PICK c \in ConfigType, k \in Nat : c = job[p].cfg /\ k = job[p].at
      BY <1>2
    <3>2. job[p].name = "remove" /\ cmd = RemoveRules(c)[k] /\ k \in 1..Len(RemoveRules(c))
      BY <1>1, <1>5, <2>2, <3>1 DEF Script
    <3>3. /\ Serves(cmd, "FORWARD", DnsDrop(c), 5, 12, FALSE, k)
          /\ cmd.chain = "FORWARD" => cmd.op \in {"A", "I", "D*"}
      BY <3>2, RemoveServes
    <3>4. CellFits("FORWARD", DnsDrop(c), 5, 12, FALSE, k)
      BY <2>2, <3>1, <3>2 DEF RemoveFits
    <3>5. /\ Execute(cmd) /\ ~(cmd.op = "D*" /\ Holds(cmd.chain, cmd.rule))
                 => CellFits("FORWARD", DnsDrop(c), 5, 12, FALSE, k + 1)'
          /\ cmd.op = "D*" /\ DeleteFirst(cmd.chain, cmd.rule) => CellFits("FORWARD", DnsDrop(c), 5, 12, FALSE, k)'
      <4> DEFINE from == 5
                 to == 12
                 has == FALSE
      <4>1. from \in Nat /\ to \in Nat /\ from < to /\ has \in BOOLEAN
        OBVIOUS
      <4>2. /\ Serves(cmd, "FORWARD", DnsDrop(c), from, to, has, k)
            /\ has /\ k = to => CanAdd("FORWARD", DnsDrop(c))
            /\ CellFits("FORWARD", DnsDrop(c), from, to, has, k)
        BY <3>3, <3>4
      <4> HIDE DEF from, to, has
      <4>3. /\ Execute(cmd) /\ ~(cmd.op = "D*" /\ Holds(cmd.chain, cmd.rule))
                   => CellFits("FORWARD", DnsDrop(c), from, to, has, k + 1)'
            /\ cmd.op = "D*" /\ DeleteFirst(cmd.chain, cmd.rule)
                   => CellFits("FORWARD", DnsDrop(c), from, to, has, k)'
        BY <1>0, <1>2, <3>3, <4>1, <4>2, CellStep
      <4> QED
        BY <4>3 DEF from, to, has
    <3>6. CASE Execute(cmd) /\ job'[p].at = job[p].at + 1 /\ ~(cmd.op = "D*" /\ Holds(cmd.chain, cmd.rule))
      <4>1. CellFits("FORWARD", DnsDrop(c), 5, 12, FALSE, k + 1)' /\ job'[p].at = k + 1 /\ job'[p].cfg = c
        BY <1>1, <3>1, <3>5, <3>6
      <4> QED
        BY <2>2, <4>1
    <3>7. CASE cmd.op = "D*" /\ DeleteFirst(cmd.chain, cmd.rule) /\ job' = job
      <4>1. CellFits("FORWARD", DnsDrop(c), 5, 12, FALSE, k)' /\ job'[p].at = k /\ job'[p].cfg = c
        BY <1>1, <3>1, <3>5, <3>7
      <4> QED
        BY <2>2, <4>1
    <3> QED
      BY <1>1, <3>6, <3>7
  <2> QED
    BY <2>1, <2>2
<1> QED
  BY <1>4, <1>5 DEF RemoveFits

LEMMA RemoveFitsKept ==
    ASSUME RInv, RemoveFits, [RouterNext]_rvars
    PROVE  RemoveFits'
<1>0. /\ FirewallFits /\ ServiceFits /\ ScriptsFit
      /\ InitProc \in Proc /\ InitProc \notin Monitor /\ Monitor \subseteq Proc
  BY InitProcAssumption, MonitorAssumption DEF RInv
<1>1. ASSUME UNCHANGED rules, job'[InitProc] = job[InitProc] \/ job'[InitProc].at \in {0, 1}
      PROVE  RemoveFits'
  <2>1. job'[InitProc].at \in {0, 1} => ~(job'[InitProc].at > 5)
    OBVIOUS
  <2>2. job'[InitProc].at \in {0, 1} =>
           CellFits("FORWARD", DnsDrop(job[InitProc].cfg), 5, 12, FALSE, job[InitProc].at)'
    BY <2>1 DEF CellFits
  <2>3. job'[InitProc] = job[InitProc] /\ job'[InitProc].name = "remove" =>
           CellFits("FORWARD", DnsDrop(job[InitProc].cfg), 5, 12, FALSE, job[InitProc].at)'
    BY <1>1 DEF RemoveFits, CellFits
  <2> QED
    BY <1>1, <2>2, <2>3 DEF RemoveFits
<1>2. CASE Calls
  <2>1. PICK p \in Proc, name \in ScriptName : Call(p, name)
    BY <1>0, <1>2 DEF Calls, ScriptName
  <2>2. /\ UNCHANGED rules /\ job'[p] = [name |-> name, cfg |-> uci, at |-> 0]
        /\ \A q \in Proc \ {p} : job'[q] = job[q]
    BY <1>0, <2>1, CalledIs
  <2>3. job'[p].at = 0
    BY <2>2
  <2> QED
    BY <1>0, <1>1, <2>2, <2>3
<1>3. CASE Runs
  <2>1. PICK p \in Proc : LoadConfig(p) \/ Command(p)
    BY <1>3 DEF Runs
  <2>2. CASE LoadConfig(p)
    <3>1. UNCHANGED rules /\ job'[p].at = 1 /\ \A q \in Proc \ {p} : job'[q] = job[q]
      BY <1>0, <2>2, LoadedIs
    <3> QED
      BY <1>0, <1>1, <3>1
  <2>3. CASE Command(p)
    BY <1>0, <2>3, RemoveFitsRun
  <2> QED
    BY <2>1, <2>2, <2>3
<1>4. CASE UNCHANGED <<rules, chains, job>>
  BY <1>1, <1>4
<1> QED
  BY <1>0, <1>2, <1>3, <1>4, FirewallSteps

LEMMA StoppedShows ==
    ASSUME RInv, ForwardFits, StoppedFits, RemoveFits
    PROVE  LoneStopOpens
<1> SUFFICES ASSUME Quiet, redsocks = NoIP, alone
             PROVE  /\ \A lan \in Lan : \A kind \in PacketKind \ {"dns"} : ~Dropped(lan, kind)
                    /\ job[InitProc].name = "remove" => ~Dropped(job[InitProc].cfg.lan, "dns")
  BY DEF LoneStopOpens
<1>1. Tables /\ job[InitProc].at \in Nat /\ ScriptsFit /\ job[InitProc].cfg \in ConfigType
  BY InitProcAssumption DEF RInv, FirewallFits, JobType
<1>2. ~KillChainDrops
  <2>1. NoDrop
    BY DEF StoppedFits, Quiet, Busy
  <2>2. Len(rules["CAMOFOX_KILLSW"]) \in Nat
    BY <1>1, LenProperties DEF Tables, Chain, UserChain
  <2>3. Len(rules["CAMOFOX_KILLSW"]) > 0 => 1 \in 1..Len(rules["CAMOFOX_KILLSW"])
    BY <2>2
  <2> QED
    BY <2>1, <2>3 DEF NoDrop, KillChainDrops
<1>3. ASSUME NEW lan \in Lan, NEW kind \in PacketKind \ {"dns"}, Dropped(lan, kind)
      PROVE  FALSE
  <2>1. PICK i \in 1..Len(rules["FORWARD"]) : Matches(rules["FORWARD"][i], lan, kind) /\ Drops(rules["FORWARD"][i])
    BY <1>3 DEF Dropped
  <2>2. rules["FORWARD"][i].to = "DROP"
    BY <1>2, <2>1 DEF Drops
  <2>3. rules["FORWARD"][i].match = "udp53"
    BY <2>2 DEF ForwardFits
  <2> QED
    BY <1>3, <2>1, <2>3 DEF Matches, PacketKind
<1>4. ASSUME job[InitProc].name = "remove", Dropped(job[InitProc].cfg.lan, "dns")
      PROVE  FALSE
  <2>1. PICK i \in 1..Len(rules["FORWARD"]) :
           Matches(rules["FORWARD"][i], job[InitProc].cfg.lan, "dns") /\ Drops(rules["FORWARD"][i])
    BY <1>4 DEF Dropped
  <2>2. rules["FORWARD"][i].to = "DROP"
    BY <1>2, <2>1 DEF Drops
  <2>3. PICK lan \in Lan : rules["FORWARD"][i] = Rl(lan, "udp53", "DROP")
    BY <2>2 DEF RemoveFits
  <2>4. rules["FORWARD"][i] = DnsDrop(job[InitProc].cfg)
    <3>1. lan = job[InitProc].cfg.lan
      BY <2>1, <2>3, LanAssumption DEF Matches, Rl
    <3> QED
      BY <2>3, <3>1 DEF DnsDrop
  <2>5. Finished(InitProc)
    BY <1>1 DEF ScriptsFit, Quiet, Busy
  <2>6. Commands(InitProc) = RemoveRules(job[InitProc].cfg)
    BY <1>4 DEF Commands, Script
  <2>7. job[InitProc].at > 5
    BY <1>1, <2>5, <2>6, RemoveCommands DEF Finished
  <2>8. Absent(rules["FORWARD"], DnsDrop(job[InitProc].cfg))
    BY <1>4, <2>7 DEF RemoveFits, CellFits
  <2> QED
    BY <2>4, <2>8 DEF Absent
<1> QED
  BY <1>3, <1>4

(* A stop undoes what the starts and the kill switch did before it, whatever *)
(* the environment does: if no monitor lives and no script of one runs when  *)
(* it comes to remove the rules, nothing of any LAN is dropped once all has  *)
(* ended, and of the LAN it knew not DNS either (init.d/camofox:207-226).    *)
THEOREM LoneStopLeavesOpen == RouterSafeSpec => []LoneStopOpens
<1>1. ASSUME RouterInit
      PROVE  StoppedFits /\ RemoveFits
  <2>1. \A p \in Proc : job[p].name = "none" /\ job[p].at = 1
    BY <1>1 DEF RouterInit, FirewallInit
  <2>2. \A m \in Monitor : Finished(m)
    <3>1. \A c : Script("none", c) = <<>>
      BY DEF Script
    <3>2. \A p \in Proc : Commands(p) = <<>>
      BY <2>1, <3>1 DEF Commands
    <3>3. \A p \in Proc : Finished(p)
      BY <2>1, <3>2 DEF Finished
    <3> QED
      BY <3>3, MonitorAssumption
  <2>3. Silent /\ NoDrop /\ ipc = "idle"
    BY <1>1, <2>2 DEF RouterInit, FirewallInit, Silent, NoDrop, Chain, UserChain
  <2>4. rules["FORWARD"] = <<>>
    BY <1>1 DEF RouterInit, FirewallInit, Chain, BuiltIn
  <2>5. RemoveFits
    <3>1. job[InitProc].name # "remove"
      BY <2>1, InitProcAssumption
    <3>2. \A i \in 1..Len(rules["FORWARD"]) : FALSE
      BY <2>4
    <3> QED
      BY <3>1, <3>2 DEF RemoveFits
  <2> QED
    BY <2>3, <2>5 DEF StoppedFits
<1>2. KillInv /\ StoppedFits /\ RemoveFits /\ [RouterNext]_rvars => StoppedFits' /\ RemoveFits'
  BY StoppedFitsKept, RemoveFitsKept DEF KillInv
<1>3. KillInv /\ StoppedFits /\ RemoveFits => LoneStopOpens
  BY StoppedShows DEF KillInv
<1> QED
  BY <1>1, <1>2, <1>3, KillHolds, PTL DEF RouterSafeSpec

-----------------------------------------------------------------------------
(* The configuration is adopted.  What a change of it leaves pending is a    *)
(* stop and a start, which has not got past its stop.                        *)
SetupWaits == "setup while running" \notin Allowed

Pending ==
    \/ todo["user"] \in {<<"stop", "start">>, <<"restart">>}
    \/ todo["hotplug"] = <<"restart">>

SameSettings == uci'.ip = uci.ip /\ uci'.lan = uci.lan /\ uci'.doh = uci.doh

LEMMA SettingsMove ==
    ASSUME SetupWaits, FirewallFits, ServiceFits, MonitorsFit, Path, [RouterNext]_rvars, ~Pending'
    PROVE  \/ redsocks' = NoIP /\ ipc' \in {"idle", "load"}
           \/ ~Pending /\ SameSettings
<1>1. CASE CmdStart \/ CmdStop \/ CmdEnable
  <2>1. PICK ops \in {<<>>, <<"start">>, <<"stop">>} : Submit(ops)
    BY <1>1 DEF CmdStart, CmdStop, CmdEnable
  <2>2. todo["user"] = <<>> /\ todo'["hotplug"] = todo["hotplug"]
    BY <1>1, <2>1 DEF CmdStart, CmdStop, CmdEnable, UserFree, Submit, Path, Caller
  <2>3. ~Pending
    BY <2>2, Lists DEF Pending
  <2>4. SameSettings
    BY <1>1 DEF CmdStart, CmdStop, CmdEnable, SameSettings, FirewallFits, ConfigType
  <2> QED
    BY <2>3, <2>4
<1>2. CASE CmdRestart \/ Reconfigure
  <2>1. PICK ops \in {<<"stop", "start">>, <<"restart">>} : Submit(ops)
    BY <1>2 DEF CmdRestart, Reconfigure
  <2>2. todo'["user"] = ops
    BY <2>1 DEF Submit, Path, Caller
  <2> QED
    BY <2>1, <2>2 DEF Pending
<1>3. CASE Setup
  <2>1. redsocks = NoIP /\ HotplugIdle /\ UserFree
    BY <1>3 DEF Setup, SetupWaits
  <2>2. \A c \in Caller : todo[c] = <<>>
    BY <2>1 DEF HotplugIdle, UserFree, Caller
  <2>3. ipc = "idle"
    BY <2>2 DEF Path, Busy, ServiceFits
  <2>4. ipc' = ipc /\ redsocks' = redsocks
    BY <1>3 DEF Setup, Submit, initvars
  <2> QED
    BY <2>1, <2>3, <2>4
<1>4. CASE HotplugDetect
  <2>1. todo'["hotplug"] = <<"restart">>
    BY <1>4 DEF HotplugDetect, Path, Caller
  <2> QED
    BY <2>1 DEF Pending
<1>5. CASE HotplugStart \/ HotplugDone \/ PhoneConnects \/ ProxyToggles \/ Background \/ UNCHANGED rvars
  <2>1. UNCHANGED todo
    BY <1>5 DEF HotplugStart, HotplugDone, PhoneConnects, ProxyToggles, Background, rvars
  <2>2. UNCHANGED uci
    <3>1. CASE HotplugStart \/ HotplugDone \/ PhoneConnects \/ ProxyToggles \/ UNCHANGED rvars
      BY <3>1 DEF HotplugStart, HotplugDone, PhoneConnects, ProxyToggles, rvars, vars, fwvars
    <3>2. CASE Background
      BY <3>2 DEF Background, ScriptStep, LoadConfig, Command, MonitorStep, Load, WritePid, Starting, Probe, ProxyOk,
         Restore, ChildDone, SetUp, ProxyBad, SetDown, Call, fwvars
    <3> QED
      BY <1>5, <3>1, <3>2
  <2> QED
    BY <2>1, <2>2 DEF Pending, SameSettings
<1>6. CASE InitStep
  <2>1. SameSettings
    BY <1>6, InitMoves DEF SameSettings
  <2>2. CASE ipc = "procd_kill"
    BY <1>6, <2>2, InitMoves
  <2>3. CASE ipc # "procd_kill" /\ UNCHANGED todo
    BY <2>1, <2>3 DEF Pending
  <2>4. CASE ipc # "procd_kill" /\ ~UNCHANGED todo
    <3>1. /\ ipc \in {"procd_set", "procd_empty"} /\ todo' = [todo EXCEPT ![holder] = Tail(@)]
          /\ CurrentOp = "start"
      BY <1>6, <2>4, InitMoves
    <3>2. holder \in Caller /\ Busy
      BY <3>1 DEF Path, ServiceFits, Busy
    <3>3. todo[holder] = <<"start">>
      <4>1. todo[holder] \in {<<"start">>, <<"stop">>, <<"stop", "start">>, <<"restart">>}
        BY <3>2 DEF Path
      <4> QED
        BY <3>1, <4>1, Lists DEF CurrentOp
    <3>4. \A c \in Caller : todo'[c] = IF c = holder THEN <<>> ELSE todo[c]
      BY <3>1, <3>2, <3>3, Lists DEF Path
    <3>5. ~Pending
      BY <3>3, <3>4, Lists DEF Pending, Caller
    <3> QED
      BY <2>1, <3>5
  <2> QED
    BY <2>2, <2>3, <2>4
<1> QED
  BY <1>1, <1>2, <1>3, <1>4, <1>5, <1>6 DEF RouterNext, UserStep, HotplugStep

-----------------------------------------------------------------------------
(* The rules of a configuration are in force.                                *)
Serving(c) ==
    /\ Single(rules["PREROUTING"], RedsocksJump(c)) /\ rules["REDSOCKS"] = RedsocksContent(c)
    /\ IF c.doh THEN Single(rules["FORWARD"], DnsDrop(c)) ELSE Absent(rules["FORWARD"], DnsDrop(c))

SameConfig(c, d) == c.ip = d.ip /\ c.lan = d.lan /\ c.doh = d.doh

LEMMA ServesSame ==
    ASSUME NEW c, NEW d, SameConfig(c, d), Serving(c)
    PROVE  Serving(d)
BY DEF Serving, SameConfig, RedsocksJump, RedsocksContent, ProxyReturn, DnsDrop

LEMMA AppliedServes ==
    ASSUME NEW c \in ConfigType, NEW k \in Nat, k > Len(ApplyRules(c)), Building(c, k), Cells(c, k)
    PROVE  Serving(c)
<1>1. /\ DohEnd(c) \in Nat /\ ApplyEnd(c) \in Nat /\ TtlEnd(c) \in Nat
      /\ TtlEnd(c) >= 16 /\ DohEnd(c) >= TtlEnd(c) /\ ApplyEnd(c) >= DohEnd(c) /\ k > ApplyEnd(c)
  BY Places, ApplyAt
<1>2. k >= 16 /\ k > 1 /\ k > 16 /\ k > 5 /\ k > DohEnd(c)
  BY <1>1
<1> QED
  BY <1>2 DEF Building, Cells, CellFits, Serving

(* The scripts of the monitors leave them in force.                          *)
LEMMA ServingStays ==
    ASSUME FirewallFits, ScriptsFit, NEW p \in Proc \ {InitProc}, Command(p), NEW c \in ConfigType, Serving(c)
    PROVE  Serving(c)'
<1>1. PICK cmd \in CommandType :
         /\ KillMoves(cmd)
         /\ Execute(cmd) \/ (cmd.op = "D*" /\ DeleteFirst(cmd.chain, cmd.rule))
  BY OthersCommand
<1>2. Tables /\ {"PREROUTING", "FORWARD"} \subseteq BuiltIn
      /\ RedsocksJump(c).to # "CAMOFOX_KILLSW" /\ DnsDrop(c).to # "CAMOFOX_KILLSW"
  BY DEF FirewallFits, BuiltIn, RedsocksJump, DnsDrop, Rl
<1>3. /\ rules'["REDSOCKS"] = rules["REDSOCKS"]
      /\ \A d \in BuiltIn : \A q :
           q.to # "CAMOFOX_KILLSW" =>
               /\ Absent(rules[d], q) => Absent(rules'[d], q)
               /\ Single(rules[d], q) => Single(rules'[d], q)
  BY <1>1, <1>2, CellsBeside
<1> QED
  BY <1>2, <1>3 DEF Serving

-----------------------------------------------------------------------------
(* Unless a restart is pending every part works with the settings of now, or *)
(* is about to be started, or will load them.                                *)
Watched  == \E m \in Monitor : pc[m] # "dead" /\ (pc[m] = "load" \/ mcfg[m].ip = uci.ip)
Settled  == ipc \notin {"applying", "removing", "procd_kill"}
Guarding == ipc = "procd_set" \/ (redsocks # NoIP /\ ipc \notin Stopping \cup {"rm_pid", "spawn"})

Adopted ==
    ~Pending =>
    /\ redsocks # NoIP => redsocks = uci.ip
    /\ OnWay => conf = uci.ip
    /\ ipc = "applying" => job[InitProc].at = 0 \/ SameConfig(job[InitProc].cfg, uci)
    /\ (redsocks # NoIP \/ OnWay) /\ Settled => Serving(uci)
    /\ Guarding => Watched

(* A monitor that watches the address of now goes on, until it is killed.    *)
LEMMA WatchedStays ==
    ASSUME FirewallFits, MonitorsFit, [RouterNext]_rvars, uci'.ip = uci.ip, Watched,
           ~KillByPid, ~BeltKill
    PROVE  Watched'
<1>1. PICK m \in Monitor : pc[m] # "dead" /\ (pc[m] = "load" \/ mcfg[m].ip = uci.ip)
  BY DEF Watched
<1>2. CASE InitStep
  <2>1. CASE \E n \in Monitor : SpawnMonitor(n)
    <3>1. pc'[m] = pc[m] /\ mcfg' = mcfg
      BY <1>1, <2>1 DEF SpawnMonitor, MonitorsFit
    <3> QED
      BY <1>1, <3>1 DEF Watched
  <2>2. CASE ~ \E n \in Monitor : SpawnMonitor(n)
    <3>1. UNCHANGED <<pc, mcfg>>
      BY <1>2, <2>2 DEF InitStep, Acquire, StartLoad, Applied, ConfigureDoh, ReadPid, RemovePid, ProcdSet, ProcdEmpty,
         BeltRemove, RemoveState, Removed, ProcdKill, vars, monvars
    <3> QED
      BY <1>1, <3>1 DEF Watched
  <2> QED
    BY <2>1, <2>2
<1>3. CASE UserStep \/ HotplugStep \/ PhoneConnects \/ ProxyToggles \/ UNCHANGED rvars
  <2>1. UNCHANGED <<pc, mcfg>>
    BY <1>3 DEF UserStep, CmdStart, CmdStop, CmdRestart, Reconfigure, Setup, CmdEnable, Submit, HotplugStep, HotplugStart,
       HotplugDetect, HotplugDone, PhoneConnects, ProxyToggles, rvars, vars, monvars
  <2> QED
    BY <1>1, <2>1 DEF Watched
<1>4. CASE Background /\ \E p \in Proc : ScriptStep(p)
  <2>1. UNCHANGED <<pc, mcfg>>
    BY <1>4 DEF ScriptStep, monvars
  <2> QED
    BY <1>1, <2>1 DEF Watched
<1>5. ASSUME NEW n \in Monitor, MonitorStep(n)
      PROVE  Watched'
  <2>1. CASE Load(n)
    <3>1. /\ pc[n] = "load" /\ pc' = [pc EXCEPT ![n] = "write_pid"] /\ mcfg' = [mcfg EXCEPT ![n] = uci]
      BY <2>1 DEF Load, Goto
    <3>2. CASE m = n
      <4>1. pc'[m] = "write_pid" /\ mcfg'[m].ip = uci.ip
        BY <3>1, <3>2 DEF MonitorsFit
      <4> QED
        BY <4>1 DEF Watched
    <3>3. CASE m # n
      <4>1. pc'[m] = pc[m] /\ mcfg'[m] = mcfg[m]
        BY <3>1, <3>3 DEF MonitorsFit
      <4> QED
        BY <1>1, <4>1 DEF Watched
    <3> QED
      BY <3>2, <3>3
  <2>2. CASE ~Load(n)
    <3>1. UNCHANGED mcfg /\ \E from, to \in PC \ {"load", "dead"} : Goto(n, from, to)
      BY <1>5, <2>2 DEF MonitorStep, WritePid, Starting, Probe, ProxyOk, Restore, ChildDone, SetUp, ProxyBad, SetDown, PC
    <3>2. pc'[m] # "dead" /\ (pc[m] = "load" => pc'[m] = "load")
      BY <1>1, <3>1 DEF Goto, MonitorsFit
    <3> QED
      BY <1>1, <3>1, <3>2 DEF Watched
  <2> QED
    BY <2>1, <2>2
<1> QED
  BY <1>2, <1>3, <1>4, <1>5 DEF RouterNext, Background

(* The init script's steps.                                                  *)
LEMMA AdoptedByInit ==
    ASSUME RInv, ApplyFits, Adopted, ~Pending, SameSettings, InitStep, ~Pending',
           ~(redsocks' = NoIP /\ ipc' \in {"idle", "load"})
    PROVE  Adopted'
<1>0. /\ FirewallFits /\ ServiceFits /\ MonitorsFit /\ Path /\ ScriptsFit /\ DisabledIsDown
      /\ InitProc \in Proc /\ uci' = uci
  BY InitProcAssumption, InitMoves DEF RInv
<1>1. UNCHANGED <<rules, chains>>
  BY DEF InitStep, Acquire, StartLoad, Call, Applied, ConfigureDoh, ReadPid, KillByPid, RemovePid, SpawnMonitor, ProcdSet,
     ProcdEmpty, BeltKill, BeltRemove, RemoveState, Removed, ProcdKill, vars, fwvars
<1>2. Serving(uci) => Serving(uci)'
  BY <1>0, <1>1 DEF Serving
<1>3. ~Pending => Adopted
  BY DEF Adopted
<1>4. CASE StartLoad
  <2>1. CASE ipc' = "applying"
    <3>1. /\ ipc = "load" /\ conf' = uci.ip /\ redsocks' = redsocks
      BY <1>0, <1>4, <2>1, InitMoves
    <3>2. job'[InitProc].at = 0
      <4>1. Call(InitProc, "apply")
        BY <1>4, <2>1 DEF StartLoad, InGoto
      <4>2. job'[InitProc] = [name |-> "apply", cfg |-> uci, at |-> 0]
        BY <1>0, <4>1, CalledIs DEF ScriptName
      <4> QED
        BY <4>2
    <3>3. Watched => Watched'
      BY <1>0, <1>4, WatchedStays, <2>1, <3>1 DEF StartLoad, KillByPid, BeltKill, InGoto, RouterNext
    <3>4. Guarding' => Guarding
      BY <2>1, <3>1 DEF Guarding, Stopping
    <3> QED
      BY <1>0, <2>1, <3>1, <3>2, <3>3, <3>4 DEF Adopted, Settled
  <2>2. CASE ipc' # "applying"
    <3>1. /\ ipc = "load" /\ ipc' = "procd_empty" /\ UNCHANGED <<conf, redsocks>>
      BY <1>4, <2>2 DEF StartLoad, InGoto
    <3>2. redsocks' = NoIP
      BY <3>1, <1>0, DisabledIsDownKept DEF DisabledIsDown, RouterNext, RInv
    <3>3. ~OnWay' /\ ~Guarding'
      BY <3>1, <3>2 DEF OnWay, Guarding
    <3> QED
      BY <3>1, <3>2, <3>3 DEF Adopted
  <2> QED
    BY <2>1, <2>2
<1>5. CASE ProcdSet
  <2>1. /\ ipc = "procd_set" /\ ipc' = "idle" /\ redsocks' = (IF redsocks = NoIP THEN conf ELSE redsocks)
    BY <1>5 DEF ProcdSet, InGoto
  <2>2. OnWay /\ Settled /\ Guarding /\ ~OnWay'
    BY <2>1 DEF OnWay, Settled, Guarding
  <2>3. Watched => Watched'
    BY <1>0, <1>5, <2>1, WatchedStays DEF KillByPid, BeltKill, InGoto, RouterNext
  <2>4. conf = uci.ip /\ (redsocks # NoIP => redsocks = uci.ip) /\ Serving(uci) /\ Watched
    BY <2>2 DEF Adopted
  <2> QED
    BY <1>0, <1>2, <2>1, <2>2, <2>3, <2>4 DEF Adopted
<1>6. CASE ProcdEmpty \/ ProcdKill
  <2>1. redsocks' = NoIP /\ ipc' \in {"idle", "load"}
    BY <1>6 DEF ProcdEmpty, ProcdKill, InGoto
  <2> QED
    BY <2>1
<1>7. CASE \E c \in Caller : Acquire(c)
  <2>1. /\ ipc = "idle" /\ ipc' \in {"load", "read_pid"} /\ UNCHANGED <<redsocks, conf>> /\ ~OnWay'
    BY <1>7 DEF Acquire, InGoto, OnWay, CurrentOp
  <2>2. Watched => Watched'
    BY <1>0, <1>7, <2>1, WatchedStays DEF KillByPid, BeltKill, InGoto, RouterNext
  <2>3. Guarding' => Guarding
    BY <2>1 DEF Guarding, Stopping
  <2> QED
    BY <1>0, <1>2, <2>1, <2>2, <2>3 DEF Adopted, Settled
<1>8. CASE Removed
  <2>1. ipc = "removing" /\ ipc' = "procd_kill" /\ redsocks' = redsocks
    BY <1>8 DEF Removed, InGoto
  <2> QED
    BY <1>0, <2>1 DEF Adopted, Settled, Guarding, Stopping, OnWay
<1>9. CASE Applied
  <2>1. ipc = "applying" /\ ipc' = "doh" /\ Finished(InitProc) /\ UNCHANGED <<redsocks, conf>> /\ OnWay
    BY <1>9 DEF Applied, InGoto, OnWay
  <2>2. PICK c \in ConfigType, k \in Nat : c = job[InitProc].cfg /\ k = job[InitProc].at
    BY <1>0 DEF FirewallFits, JobType
  <2>3. Commands(InitProc) = ApplyRules(c) /\ k > Len(ApplyRules(c))
    BY <1>0, <2>1, <2>2 DEF ScriptsFit, Commands, Script, Finished
  <2>4. Serving(c)
    BY <2>1, <2>2, <2>3, AppliedServes DEF ApplyFits
  <2>5. SameConfig(c, uci)
    <3>1. Len(ApplyRules(c)) \in Nat
      BY ApplyIsThis, LenProperties
    <3>2. k # 0
      BY <2>3, <3>1
    <3>3. k = 0 \/ SameConfig(c, uci)
      BY <2>1, <2>2 DEF Adopted
    <3> QED
      BY <3>2, <3>3
  <2>6. Serving(uci)
    BY <2>4, <2>5, ServesSame
  <2>7. Watched => Watched'
    BY <1>0, <1>9, <2>1, WatchedStays DEF KillByPid, BeltKill, InGoto, RouterNext
  <2>8. Guarding' => Guarding
    BY <2>1 DEF Guarding, Stopping
  <2> QED
    BY <1>0, <1>2, <2>1, <2>6, <2>7, <2>8 DEF Adopted
<1>10. CASE \E m \in Monitor : SpawnMonitor(m)
  <2>1. ipc = "spawn" /\ ipc' = "procd_set" /\ UNCHANGED <<redsocks, conf>> /\ OnWay /\ Settled
    BY <1>10 DEF SpawnMonitor, InGoto, OnWay, Settled
  <2>2. Watched'
    <3>1. PICK m \in Monitor : pc' = [pc EXCEPT ![m] = "load"]
      BY <1>10 DEF SpawnMonitor
    <3>2. pc'[m] = "load"
      BY <1>0, <3>1 DEF MonitorsFit
    <3> QED
      BY <3>2 DEF Watched
  <2> QED
    BY <1>0, <1>2, <2>1, <2>2 DEF Adopted
<1>11. CASE ConfigureDoh \/ ReadPid \/ KillByPid \/ RemovePid \/ BeltKill \/ BeltRemove \/ RemoveState
  <2>1. /\ ipc \in {"doh", "read_pid", "kill", "rm_pid", "belt_kill", "belt_rm", "rm_state"}
        /\ UNCHANGED <<redsocks, conf>> /\ ipc' # "applying"
    BY <1>11 DEF ConfigureDoh, ReadPid, KillByPid, RemovePid, BeltKill, BeltRemove, RemoveState, InGoto, AfterHealthStop
  <2>2. OnWay' <=> OnWay
    BY <1>0, <2>1, InitMoves
  <2>3. Settled
    BY <2>1 DEF Settled
  <2>4. Guarding' => Guarding /\ ~KillByPid /\ ~BeltKill
    BY <1>11 DEF ConfigureDoh, ReadPid, KillByPid, RemovePid, BeltKill, BeltRemove, RemoveState, InGoto, AfterHealthStop,
       Guarding, Stopping
  <2>5. Guarding' /\ Watched => Watched'
    BY <1>0, <2>4, WatchedStays DEF RouterNext
  <2> QED
    BY <1>0, <1>2, <2>1, <2>2, <2>3, <2>4, <2>5 DEF Adopted
<1> QED
  BY <1>4, <1>5, <1>6, <1>7, <1>8, <1>9, <1>10, <1>11 DEF InitStep

(* The steps of the others.                                                  *)
LEMMA AdoptedBeside ==
    ASSUME RInv, Adopted, ~Pending, SameSettings, ~InitStep, [RouterNext]_rvars
    PROVE  Adopted'
<1>0. /\ FirewallFits /\ ServiceFits /\ MonitorsFit /\ Path /\ ScriptsFit
      /\ InitProc \in Proc /\ InitProc \notin Monitor /\ Monitor \subseteq Proc
      /\ uci \in ConfigType /\ uci' \in ConfigType
  BY FirewallFitsKept, InitProcAssumption, MonitorAssumption DEF RInv, FirewallFits
<1>1. UNCHANGED <<ipc, redsocks, conf>> /\ (OnWay' <=> OnWay)
  BY <1>0, BesideMoves
<1>2. Guarding /\ Watched => Watched'
  BY <1>0, WatchedStays DEF SameSettings, InitStep
<1>3. ipc = "applying" /\ (job[InitProc].at = 0 \/ SameConfig(job[InitProc].cfg, uci))
         => job'[InitProc].at = 0 \/ SameConfig(job'[InitProc].cfg, uci')
  <2>1. CASE Calls
    <3>1. PICK m \in Monitor, name \in ScriptName : Call(m, name)
      BY <1>1, <2>1 DEF Calls, ScriptName
    <3>2. job'[InitProc] = job[InitProc] /\ uci' = uci
      BY <1>0, <3>1, CalledIs
    <3> QED
      BY <3>2
  <2>2. CASE Runs
    <3>1. PICK p \in Proc : LoadConfig(p) \/ Command(p)
      BY <2>2 DEF Runs
    <3>2. uci' = uci
      BY <1>0, <3>1, LoadedIs, CommandDoes
    <3>3. CASE p # InitProc
      BY <1>0, <3>1, <3>2, <3>3, LoadedIs, CommandDoes
    <3>4. CASE LoadConfig(p) /\ p = InitProc
      <4>1. job'[InitProc].cfg = uci
        BY <1>0, <3>4, LoadedIs
      <4> QED
        BY <3>2, <4>1 DEF SameConfig
    <3>5. CASE Command(p) /\ p = InitProc
      <4>1. /\ job'[InitProc].cfg = job[InitProc].cfg /\ job[InitProc].at # 0
        BY <1>0, <3>5, CommandDoes DEF Command
      <4> QED
        BY <3>2, <4>1
    <3> QED
      BY <3>1, <3>3, <3>4, <3>5
  <2>3. CASE UNCHANGED <<rules, chains, job>>
    BY <2>3 DEF SameConfig, SameSettings
  <2> QED
    BY <1>0, <2>1, <2>2, <2>3, FirewallSteps
<1>4. Settled /\ Serving(uci) => Serving(uci)'
  <2>1. ASSUME Settled, Serving(uci)
        PROVE  Serving(uci)'
    <3>1. PICK c \in ConfigType : c = uci
      BY <1>0
    <3>2. Serving(c)
      BY <2>1, <3>1
    <3>3. Serving(c)'
      <4>1. CASE Calls
        <5>1. \E p \in Proc, name \in ScriptName : Call(p, name)
          BY <1>0, <4>1 DEF Calls, ScriptName
        <5>2. UNCHANGED rules
          BY <1>0, <5>1, CalledIs
        <5> QED
          BY <3>2, <5>2 DEF Serving
      <4>2. CASE Runs
        <5>1. PICK p \in Proc : LoadConfig(p) \/ Command(p)
          BY <4>2 DEF Runs
        <5>2. CASE LoadConfig(p)
          BY <1>0, <3>2, <5>2, LoadedIs DEF Serving
        <5>3. CASE Command(p)
          <6>1. ~Finished(p)
            BY <1>0, <5>3, CommandDoes
          <6>2. p # InitProc
            BY <1>0, <2>1, <6>1 DEF ScriptsFit, Settled
          <6> QED
            BY <1>0, <3>2, <5>3, <6>2, ServingStays
        <5> QED
          BY <5>1, <5>2, <5>3
      <4>3. CASE UNCHANGED <<rules, chains, job>>
        BY <3>2, <4>3 DEF Serving
      <4> QED
        BY <1>0, <4>1, <4>2, <4>3, FirewallSteps
    <3>4. SameConfig(c, uci')
      BY <3>1 DEF SameConfig, SameSettings
    <3> QED
      BY <3>3, <3>4 DEF Serving, SameConfig, RedsocksJump, RedsocksContent, ProxyReturn, DnsDrop
  <2> QED
    BY <2>1
<1>5. (Settled' <=> Settled) /\ (Guarding' <=> Guarding)
  BY <1>1 DEF Settled, Guarding, Stopping
<1> QED
  BY <1>1, <1>2, <1>3, <1>4, <1>5 DEF Adopted, SameSettings

LEMMA AdoptedKept ==
    ASSUME SetupWaits, RInv, ApplyFits, Adopted, [RouterNext]_rvars
    PROVE  Adopted'
<1>0. FirewallFits /\ ServiceFits /\ MonitorsFit /\ Path
  BY DEF RInv
<1>1. CASE Pending'
  BY <1>1 DEF Adopted
<1>2. CASE redsocks' = NoIP /\ ipc' \in {"idle", "load"}
  BY <1>2 DEF Adopted, OnWay, Guarding
<1>3. CASE ~Pending' /\ ~(redsocks' = NoIP /\ ipc' \in {"idle", "load"})
  <2>1. ~Pending /\ SameSettings
    BY <1>0, <1>3, SettingsMove
  <2> QED
    BY <1>3, <2>1, AdoptedByInit, AdoptedBeside
<1> QED
  BY <1>1, <1>2, <1>3

(* When all is over, nothing is pending and the init script is idle.         *)
LEMMA AdoptedShows ==
    ASSUME RInv, Adopted
    PROVE  ConfigAdopted
<1>1. SUFFICES ASSUME Quiet, redsocks # NoIP
               PROVE  /\ redsocks = uci.ip
                      /\ Redirected(uci.lan) /\ Holds("REDSOCKS", ProxyReturn(uci))
                      /\ Holds("FORWARD", DnsDrop(uci)) = uci.doh
                      /\ \E m \in Monitor : pc[m] # "dead" /\ (pc[m] = "load" \/ mcfg[m].ip = uci.ip)
  BY DEF ConfigAdopted
<1>2. ~Pending
  BY <1>1, Lists DEF Quiet, Pending, Caller
<1>3. Settled /\ Guarding
  BY <1>1 DEF Quiet, Busy, Settled, Guarding, Stopping
<1>4. Serving(uci) /\ redsocks = uci.ip /\ Watched
  BY <1>1, <1>2, <1>3 DEF Adopted
<1>5. Redirected(uci.lan)
  <2>1. PICK i \in 1..Len(rules["PREROUTING"]) : rules["PREROUTING"][i] = RedsocksJump(uci)
    BY <1>4 DEF Serving, Single
  <2>2. Matches(RedsocksJump(uci), uci.lan, "tcp") /\ RedsocksJump(uci).to = "REDSOCKS"
    BY DEF Matches, RedsocksJump, Rl
  <2>3. 3 \in 1..Len(rules["REDSOCKS"]) /\ rules["REDSOCKS"][3] = Redirect /\ Redirect.to = "REDIRECT"
    BY <1>4 DEF Serving, RedsocksContent, Redirect, Rl
  <2> QED
    BY <2>1, <2>2, <2>3 DEF Redirected
<1>6. Holds("REDSOCKS", ProxyReturn(uci))
  <2>1. 2 \in 1..Len(rules["REDSOCKS"]) /\ rules["REDSOCKS"][2] = ProxyReturn(uci)
    BY <1>4 DEF Serving, RedsocksContent
  <2> QED
    BY <2>1 DEF Holds
<1>7. Holds("FORWARD", DnsDrop(uci)) = uci.doh
  <2>1. uci.doh \in BOOLEAN
    BY DEF RInv, FirewallFits, ConfigType
  <2>2. Single(rules["FORWARD"], DnsDrop(uci)) => Holds("FORWARD", DnsDrop(uci))
    BY DEF Single, Holds
  <2>3. Absent(rules["FORWARD"], DnsDrop(uci)) => ~Holds("FORWARD", DnsDrop(uci))
    BY DEF Absent, Holds
  <2>4. Holds("FORWARD", DnsDrop(uci)) \in BOOLEAN
    BY DEF Holds
  <2>5. CASE uci.doh = TRUE
    BY <1>4, <2>2, <2>5 DEF Serving
  <2>6. CASE uci.doh = FALSE
    <3>1. ~uci.doh
      BY <2>6
    <3>2. Absent(rules["FORWARD"], DnsDrop(uci))
      BY <1>4, <3>1 DEF Serving
    <3>3. ~Holds("FORWARD", DnsDrop(uci))
      BY <2>3, <3>2
    <3>4. Holds("FORWARD", DnsDrop(uci)) = FALSE
      BY ONLY <2>4, <3>3, Zenon
    <3> QED
      BY ONLY <2>6, <3>4, Zenon
  <2> QED
    BY <2>1, <2>5, <2>6
<1> QED
  BY <1>4, <1>5, <1>6, <1>7 DEF Watched

LEMMA AdoptedHolds ==
    ASSUME SetupWaits
    PROVE  RouterSafeSpec => []ConfigAdopted
<1>1. RouterInit => Adopted
  BY DEF RouterInit, Adopted, OnWay, Guarding, FirewallInit
<1>2. RInv /\ ApplyFits /\ Adopted /\ [RouterNext]_rvars => Adopted'
  BY AdoptedKept
<1>3. RInv /\ Adopted => ConfigAdopted
  BY AdoptedShows
<1> QED
  BY <1>1, <1>2, <1>3, ApplyHolds, PTL DEF RouterSafeSpec

(* When all operations have ended every part of a running service works with *)
(* the committed configuration (init.d/camofox:25, firewall.rules:15,        *)
(* health_check.sh:19, 99-camofox), if setup is used on a stopped service    *)
(* only: on a running one it leaves redsocks with its old address.           *)
THEOREM ConfigIsAdopted ==
    ASSUME "setup while running" \notin Allowed
    PROVE  RouterSafeSpec => []ConfigAdopted
<1>1. SetupWaits
  BY DEF SetupWaits
<1> QED
  BY <1>1, AdoptedHolds

-----------------------------------------------------------------------------
(* AppliedExactlyOnce: two chains beside the four rules.  The TTL rule is    *)
(* appended last to POSTROUTING, and the kill-switch chain is made anew.      *)
TtlLast(c, k) ==
    c.ttl_enabled => (k >= 18 =>
        /\ Len(rules["POSTROUTING"]) \in Nat /\ Len(rules["POSTROUTING"]) > 0
        /\ rules["POSTROUTING"][Len(rules["POSTROUTING"])] = TtlRule(c))

KillOpen(c, k) ==
    c.kill_switch =>
        /\ k >= DohEnd(c) + 2 => "CAMOFOX_KILLSW" \in chains
        /\ k = DohEnd(c) + 2 => rules["CAMOFOX_KILLSW"] = <<>>
        /\ k >= DohEnd(c) + 3 => rules["CAMOFOX_KILLSW"] = <<KillReturn>>

(* Where apply_rules touches the two chains.                                 *)
LEMMA ApplyTouches ==
    ASSUME NEW c \in ConfigType, NEW k \in 1..Len(ApplyRules(c))
    PROVE  /\ k >= 17 /\ k # 17 => ApplyRules(c)[k].chain # "POSTROUTING"
           /\ k >= DohEnd(c) + 3 => ApplyRules(c)[k].chain # "CAMOFOX_KILLSW"
<1> DEFINE cmd == ApplyRules(c)[k]
<1>1. /\ TtlEnd(c) \in Nat /\ DohEnd(c) \in Nat /\ ApplyEnd(c) \in Nat
      /\ TtlEnd(c) >= 16 /\ DohEnd(c) >= TtlEnd(c) /\ ApplyEnd(c) >= DohEnd(c)
      /\ IF c.doh THEN DohEnd(c) = TtlEnd(c) + 3 ELSE DohEnd(c) = TtlEnd(c)
  BY Places
<1>2. CASE k \in 1..11 \/ k \in {12, 13, 14, 15, 16} \/ k = 17
  <2>1. ~(k >= 17 /\ k # 17) /\ ~(k >= DohEnd(c) + 3)
    BY <1>1, <1>2
  <2> QED
    BY <2>1
<1>3. CASE c.doh /\ k \in {TtlEnd(c) + 1, TtlEnd(c) + 2, TtlEnd(c) + 3}
  <2>1. cmd.chain \in {"INPUT", "FORWARD"}
    BY <1>3, ApplyAt, CmIs
  <2> QED
    BY <2>1
<1>4. CASE c.kill_switch /\ k \in {DohEnd(c) + 1, DohEnd(c) + 2, DohEnd(c) + 3}
  <2>1. CASE k \in {DohEnd(c) + 1, DohEnd(c) + 2}
    <3>1. ~(k >= DohEnd(c) + 3)
      BY <1>1, <2>1
    <3>2. cmd.chain = "CAMOFOX_KILLSW"
      BY <1>4, <2>1, ApplyAt, CmIs
    <3> QED
      BY <3>1, <3>2
  <2>2. CASE k = DohEnd(c) + 3
    <3>1. cmd.chain = "FORWARD"
      BY <1>4, <2>2, ApplyAt, CmIs
    <3> QED
      BY <3>1
  <2> QED
    BY <1>4, <2>1, <2>2
<1> QED
  BY <1>2, <1>3, <1>4, ApplyPlaces

LEMMA TtlRun ==
    ASSUME Tables, NEW c \in ConfigType, NEW k \in 1..Len(ApplyRules(c)), TtlLast(c, k)
    PROVE  /\ Execute(ApplyRules(c)[k]) => TtlLast(c, k + 1)'
           /\ DeleteFirst(ApplyRules(c)[k].chain, ApplyRules(c)[k].rule) /\ ApplyRules(c)[k].op = "D*"
                => TtlLast(c, k)'
<1> DEFINE cmd == ApplyRules(c)[k]
           P == "POSTROUTING"
<1>1. cmd \in CommandType /\ k \in Nat
  BY ApplyIsThis, ElementOfSeq, LenProperties
<1>2. P \in Chain /\ P \in BuiltIn /\ rules[P] \in Seq(Rule) /\ cmd.chain \in Chain
  BY <1>1 DEF Chain, BuiltIn, Tables, CommandType
<1>3. TtlRule(c) \in Rule /\ CanAdd(P, TtlRule(c))
  BY <1>2, RulesAreRules DEF CanAdd, Exists, TtlRule, Rl, UserChain
<1>4. ASSUME Execute(cmd), c.ttl_enabled, k + 1 >= 18
      PROVE  /\ Len(rules'[P]) \in Nat /\ Len(rules'[P]) > 0
             /\ rules'[P][Len(rules'[P])] = TtlRule(c)
  <2>1. CASE k = 17
    <3>1. cmd = Cm("A", P, TtlRule(c))
      BY <2>1, <1>4, ApplyAt
    <3>2. rules' = [rules EXCEPT ![P] = Append(@, TtlRule(c))]
      BY <3>1, <1>3, <1>4, CmIs DEF Execute, Fails
    <3>3. rules'[P] = Append(rules[P], TtlRule(c))
      BY <3>2, <1>2 DEF Tables
    <3>4. Len(rules[P]) \in Nat
      BY <1>2, LenProperties
    <3>5. Len(Append(rules[P], TtlRule(c))) = Len(rules[P]) + 1
          /\ Append(rules[P], TtlRule(c))[Len(rules[P]) + 1] = TtlRule(c)
      BY <1>2, <1>3, AppendProperties
    <3> QED
      BY <3>3, <3>4, <3>5
  <2>2. CASE k # 17
    <3>1. k >= 17 /\ k >= 18
      BY <1>1, <1>4, <2>2
    <3>2. cmd.chain # P
      BY <2>2, <3>1, ApplyTouches
    <3>3. rules'[P] = rules[P]
      BY <1>1, <1>2, <1>4, <3>2, ExecutesElsewhere
    <3> QED
      BY <1>4, <3>1, <3>3 DEF TtlLast
  <2> QED
    BY <2>1, <2>2
<1>5. ASSUME DeleteFirst(cmd.chain, cmd.rule), cmd.op = "D*", c.ttl_enabled, k >= 18
      PROVE  /\ Len(rules'[P]) \in Nat /\ Len(rules'[P]) > 0
             /\ rules'[P][Len(rules'[P])] = TtlRule(c)
  <2>1. k >= 17 /\ k # 17
    BY <1>1, <1>5
  <2>2. cmd.chain # P
    BY <2>1, ApplyTouches
  <2>3. rules'[P] = rules[P]
    BY <1>2, <1>5, <2>2, DeletesOne
  <2> QED
    BY <1>5, <2>3 DEF TtlLast
<1> QED
  BY <1>4, <1>5 DEF TtlLast

LEMMA OpenRun ==
    ASSUME Tables, NEW c \in ConfigType, NEW k \in 1..Len(ApplyRules(c)), KillOpen(c, k)
    PROVE  /\ Execute(ApplyRules(c)[k]) => KillOpen(c, k + 1)'
           /\ DeleteFirst(ApplyRules(c)[k].chain, ApplyRules(c)[k].rule) /\ ApplyRules(c)[k].op = "D*"
                => KillOpen(c, k)'
<1> DEFINE cmd == ApplyRules(c)[k]
           K == "CAMOFOX_KILLSW"
           n == DohEnd(c)
<1>1. cmd \in CommandType /\ k \in Nat /\ n \in Nat
  BY ApplyIsThis, ElementOfSeq, LenProperties, Places
<1>2. K \in Chain /\ rules[K] \in Seq(Rule) /\ cmd.chain \in Chain
  BY <1>1 DEF Chain, UserChain, Tables, CommandType
<1>3. KillReturn \in Rule /\ KillReturn.to \notin UserChain
  BY RulesAreRules DEF KillReturn, Rl, UserChain
<1>4. ASSUME Execute(cmd), c.kill_switch
      PROVE  KillOpen(c, k + 1)'
  <2>1. CASE k + 1 < n + 2
    <3>1. ~(k + 1 >= n + 2) /\ k + 1 # n + 2 /\ ~(k + 1 >= n + 3)
      BY <1>1, <2>1
    <3> QED
      BY <3>1 DEF KillOpen
  <2>2. CASE k = n + 1
    <3>1. cmd = Cm("N|F", K, NoRule)
      BY <1>4, <2>2, ApplyAt
    <3>2. rules' = [rules EXCEPT ![K] = <<>>] /\ K \in chains'
      BY <1>4, <3>1, CmIs DEF Execute, Fails, Flush, Create
    <3>3. rules'[K] = <<>>
      BY <1>2, <3>2 DEF Tables
    <3>4. ~(k + 1 >= n + 3)
      BY <1>1, <2>2
    <3> QED
      BY <3>2, <3>3, <3>4 DEF KillOpen
  <2>3. CASE k = n + 2
    <3>1. cmd = Cm("A", K, KillReturn)
      BY <1>4, <2>3, ApplyAt
    <3>2. k >= n + 2
      BY <1>1, <2>3
    <3>3. K \in chains /\ rules[K] = <<>>
      BY <1>4, <2>3, <3>2 DEF KillOpen
    <3>4. K \in chains' /\ rules'[K] = Append(rules[K], KillReturn)
      BY <1>2, <1>3, <1>4, <3>1, <3>3, Appends
    <3>5. rules'[K] = <<KillReturn>>
      BY <3>3, <3>4
    <3>6. k + 1 # n + 2
      BY <1>1, <2>3
    <3> QED
      BY <3>4, <3>5, <3>6 DEF KillOpen
  <2>4. CASE k >= n + 3
    <3>1. cmd.chain # K
      BY <2>4, ApplyTouches
    <3>2. rules'[K] = rules[K] /\ (K \in chains <=> K \in chains')
      BY <1>1, <1>2, <1>4, <3>1, ExecutesElsewhere
    <3>3. k >= n + 2 /\ k + 1 # n + 2
      BY <1>1, <2>4
    <3>4. K \in chains /\ rules[K] = <<KillReturn>>
      BY <1>4, <2>4, <3>3 DEF KillOpen
    <3> QED
      BY <3>2, <3>3, <3>4 DEF KillOpen
  <2>5. k + 1 < n + 2 \/ k = n + 1 \/ k = n + 2 \/ k >= n + 3
    BY <1>1
  <2> QED
    BY <2>1, <2>2, <2>3, <2>4, <2>5
<1>5. ASSUME DeleteFirst(cmd.chain, cmd.rule), cmd.op = "D*", c.kill_switch
      PROVE  KillOpen(c, k)'
  <2>1. CASE k < n + 2
    <3>1. ~(k >= n + 2) /\ k # n + 2 /\ ~(k >= n + 3)
      BY <1>1, <2>1
    <3> QED
      BY <3>1 DEF KillOpen
  <2>2. CASE k >= n + 2
    <3>1. cmd.chain # K
      <4>1. CASE k = n + 2
        BY <1>5, <4>1, ApplyAt, CmIs
      <4>2. CASE k >= n + 3
        BY <4>2, ApplyTouches
      <4> QED
        BY <1>1, <2>2, <4>1, <4>2
    <3>2. rules'[K] = rules[K] /\ chains' = chains
      BY <1>2, <1>5, <3>1, DeletesOne
    <3> QED
      BY <3>2 DEF KillOpen
  <2> QED
    BY <1>1, <2>1, <2>2
<1>6. Execute(cmd) => KillOpen(c, k + 1)'
  BY <1>4 DEF KillOpen
<1>7. DeleteFirst(cmd.chain, cmd.rule) /\ cmd.op = "D*" => KillOpen(c, k)'
  BY <1>5 DEF KillOpen
<1> QED
  BY <1>6, <1>7

-----------------------------------------------------------------------------
(* What apply has done when it reached command k.                            *)
Done(c, k) == Cells(c, k) /\ TtlLast(c, k) /\ KillOpen(c, k)

AInv(p) == FInv(p) /\ (job[p].name = "apply" => Done(job[p].cfg, job[p].at))

LEMMA NothingDone ==
    ASSUME NEW c \in ConfigType, NEW k \in {0, 1}
    PROVE  Done(c, k) /\ Done(c, k)'
<1>1. /\ DohEnd(c) \in Nat /\ DohEnd(c) >= 16 /\ TtlEnd(c) \in Nat
  BY Places
<1>2. /\ ~(k > 1) /\ ~(k > 5) /\ ~(k > 6) /\ ~(k > 8) /\ ~(k >= 18)
      /\ ~(k >= DohEnd(c) + 2) /\ k # DohEnd(c) + 2 /\ ~(k >= DohEnd(c) + 3)
  BY <1>1
<1> QED
  BY <1>2 DEF Done, Cells, CellFits, TtlLast, KillOpen

LEMMA DoneBeginning ==
    ASSUME NEW p \in Proc, job' \in [Proc -> Job], job'[p].at \in {0, 1}
    PROVE  Done(job[p].cfg, job[p].at)'
<1>1. job'[p] \in Job
  OBVIOUS
<1>2. PICK c \in ConfigType, k \in {0, 1} : c = job'[p].cfg /\ k = job'[p].at
  BY <1>1, ConfigAssumption DEF Job
<1>3. Done(c, k)'
  BY NothingDone
<1> QED
  BY <1>2, <1>3

LEMMA DoneMoves ==
    ASSUME Tables, NEW c \in ConfigType, NEW k \in 1..Len(ApplyRules(c)), Done(c, k), Building(c, k)
    PROVE  LET cmd == ApplyRules(c)[k] IN
           /\ Execute(cmd) /\ ~(cmd.op = "D*" /\ Holds(cmd.chain, cmd.rule)) => Done(c, k + 1)'
           /\ cmd.op = "D*" /\ DeleteFirst(cmd.chain, cmd.rule) => Done(c, k)'
<1> DEFINE cmd == ApplyRules(c)[k]
<1>1. Cells(c, k) /\ TtlLast(c, k) /\ KillOpen(c, k)
  BY DEF Done
<1>2. /\ Execute(cmd) /\ ~(cmd.op = "D*" /\ Holds(cmd.chain, cmd.rule)) => Cells(c, k + 1)'
      /\ cmd.op = "D*" /\ DeleteFirst(cmd.chain, cmd.rule) => Cells(c, k)'
  BY <1>1, CellsRun
<1>3. /\ Execute(cmd) => TtlLast(c, k + 1)'
      /\ DeleteFirst(cmd.chain, cmd.rule) /\ cmd.op = "D*" => TtlLast(c, k)'
  BY <1>1, TtlRun
<1>4. /\ Execute(cmd) => KillOpen(c, k + 1)'
      /\ DeleteFirst(cmd.chain, cmd.rule) /\ cmd.op = "D*" => KillOpen(c, k)'
  BY <1>1, OpenRun
<1>5. /\ Execute(cmd) /\ ~(cmd.op = "D*" /\ Holds(cmd.chain, cmd.rule)) => Done(c, k + 1)'
      /\ cmd.op = "D*" /\ DeleteFirst(cmd.chain, cmd.rule) => Done(c, k)'
  <2> HIDE DEF cmd
  <2> QED
    BY <1>2, <1>3, <1>4 DEF Done
<1> QED
  BY <1>5 DEF cmd

(* A command of apply, with what it found.                                   *)
LEMMA CommandFinds ==
    ASSUME NEW p \in Proc, FInv(p), Command(p)
    PROVE  LET cmd == Script(job[p].name, job[p].cfg)[job[p].at] IN
           \/ /\ Execute(cmd) /\ job'[p].at = job[p].at + 1
              /\ ~(cmd.op = "D*" /\ Holds(cmd.chain, cmd.rule))
           \/ cmd.op = "D*" /\ DeleteFirst(cmd.chain, cmd.rule) /\ job'[p].at = job[p].at
<1>1. job[p] \in Job
  BY DEF FInv
<1>2. ASSUME job' = [job EXCEPT ![p].at = @ + 1]
      PROVE  job'[p].at = job[p].at + 1
  <2>1. job' = [job EXCEPT ![p] = [job[p] EXCEPT !.at = job[p].at + 1]]
    BY <1>2 DEF FInv
  <2>2. job'[p] = [job[p] EXCEPT !.at = job[p].at + 1]
    BY <2>1 DEF FInv
  <2> QED
    BY <1>1, <2>2 DEF Job
<1> QED
  BY <1>2 DEF Command, Commands

LEMMA DoneByCommand ==
    ASSUME NEW p \in Proc, AInv(p), Command(p), job'[p].name = "apply"
    PROVE  Done(job[p].cfg, job[p].at)'
<1> DEFINE c == job[p].cfg
           k == job[p].at
           cmd == ApplyRules(c)[k]
<1>0. FInv(p)
  BY DEF AInv
<1>1. /\ c \in ConfigType /\ k \in Nat /\ k > 0 /\ ~(k > Len(Script(job[p].name, c)))
      /\ job'[p].name = job[p].name /\ job'[p].cfg = c
  BY <1>0, CommandIs
<1>2. job[p].name = "apply" /\ Script(job[p].name, c) = ApplyRules(c)
  BY <1>1 DEF Script
<1>3. k \in 1..Len(ApplyRules(c))
  <2>1. Len(ApplyRules(c)) \in Nat
    BY <1>1, ApplyIsThis, LenProperties
  <2> QED
    BY <2>1, <1>1, <1>2
<1>4. Tables /\ Building(c, k) /\ Done(c, k)
  BY <1>2 DEF AInv, FInv
<1>5. \/ Execute(cmd) /\ job'[p].at = k + 1 /\ ~(cmd.op = "D*" /\ Holds(cmd.chain, cmd.rule))
      \/ cmd.op = "D*" /\ DeleteFirst(cmd.chain, cmd.rule) /\ job'[p].at = k
  BY <1>0, <1>2, CommandFinds
<1>6. PICK d \in ConfigType, n \in Nat : d = c /\ n = k
  BY <1>1
<1>7. /\ Execute(cmd) /\ ~(cmd.op = "D*" /\ Holds(cmd.chain, cmd.rule)) => Done(d, n + 1)'
      /\ cmd.op = "D*" /\ DeleteFirst(cmd.chain, cmd.rule) => Done(d, n)'
  BY <1>3, <1>4, <1>6, DoneMoves
<1>8. CASE Execute(cmd) /\ job'[p].at = k + 1 /\ ~(cmd.op = "D*" /\ Holds(cmd.chain, cmd.rule))
  <2>1. Done(d, n + 1)'
    BY <1>7, <1>8
  <2>2. job'[p].cfg = d /\ job'[p].at = n + 1
    BY <1>1, <1>6, <1>8
  <2> QED
    BY <2>1, <2>2
<1>9. CASE cmd.op = "D*" /\ DeleteFirst(cmd.chain, cmd.rule) /\ job'[p].at = k
  <2>1. Done(d, n)'
    BY <1>7, <1>9
  <2>2. job'[p].cfg = d /\ job'[p].at = n
    BY <1>1, <1>6, <1>9
  <2> QED
    BY <2>1, <2>2
<1> QED
  BY <1>5, <1>8, <1>9

LEMMA DoneKept ==
    ASSUME NEW p \in Proc, Proc = {p}, AInv(p), [FirewallNext]_fwvars
    PROVE  AInv(p)'
<1>1. FInv(p) /\ FInv(p)'
  BY StepHolds DEF AInv
<1>2. job' \in [Proc -> Job] /\ job \in [Proc -> Job]
  BY <1>1 DEF FInv
<1>3. ASSUME NEW name \in ScriptName, Call(p, name)
      PROVE  AInv(p)'
  <2>1. job'[p].at = 0
    BY <1>2, <1>3 DEF Call
  <2> QED
    BY <1>1, <1>2, <2>1, DoneBeginning DEF AInv
<1>4. CASE LoadConfig(p)
  <2>1. job' = [job EXCEPT ![p] = [job[p] EXCEPT !.cfg = uci, !.at = 1]]
    BY <1>2, <1>4 DEF LoadConfig
  <2>2. job'[p].at = 1
    BY <1>2, <2>1 DEF Job
  <2> QED
    BY <1>1, <1>2, <2>2, DoneBeginning DEF AInv
<1>5. CASE Command(p)
  BY <1>1, <1>5, DoneByCommand DEF AInv
<1>6. CASE UNCHANGED <<rules, chains, job>>
  BY <1>1, <1>6 DEF AInv, Done, Cells, CellFits, TtlLast, KillOpen
<1> QED
  BY <1>3, <1>4, <1>5, <1>6 DEF FirewallNext, Commit, fwvars

LEMMA Counts ==
    ASSUME NEW d \in Chain, NEW r
    PROVE  /\ Single(rules[d], r) => Count(d, r) = 1
           /\ Absent(rules[d], r) => Count(d, r) = 0
<1>1. ASSUME Single(rules[d], r)
      PROVE  Count(d, r) = 1
  <2>1. PICK i \in 1..Len(rules[d]) : \A j \in 1..Len(rules[d]) : rules[d][j] = r <=> j = i
    BY <1>1 DEF Single
  <2>2. {j \in 1..Len(rules[d]) : rules[d][j] = r} = {i}
    BY <2>1
  <2> QED
    BY <2>2, FS_Singleton DEF Count
<1>2. ASSUME Absent(rules[d], r)
      PROVE  Count(d, r) = 0
  <2>1. {j \in 1..Len(rules[d]) : rules[d][j] = r} = {}
    BY <1>2 DEF Absent
  <2> QED
    BY <2>1, FS_EmptySet DEF Count
<1> QED
  BY <1>1, <1>2

(* At the end of apply everything is done.                                   *)
LEMMA DoneShows ==
    ASSUME Tables, NEW c \in ConfigType, NEW k \in Nat, k > ApplyEnd(c), Done(c, k), Building(c, k)
    PROVE  /\ Count("PREROUTING", RedsocksJump(c)) = 1
           /\ rules["REDSOCKS"] = RedsocksContent(c)
           /\ c.ttl_enabled => rules["POSTROUTING"][Len(rules["POSTROUTING"])] = TtlRule(c)
           /\ Count("FORWARD", DnsDrop(c)) = (IF c.doh THEN 1 ELSE 0)
           /\ Count("INPUT", DnsUdpAccept(c)) = (IF c.doh THEN 1 ELSE 0)
           /\ c.kill_switch => /\ Count("FORWARD", EstAccept(c)) = 1
                               /\ rules["CAMOFOX_KILLSW"] = <<KillReturn>>
<1>0. {"PREROUTING", "FORWARD", "INPUT"} \subseteq Chain
  BY DEF Chain, BuiltIn
<1>1. /\ TtlEnd(c) \in Nat /\ DohEnd(c) \in Nat /\ ApplyEnd(c) \in Nat
      /\ TtlEnd(c) >= 16 /\ DohEnd(c) >= TtlEnd(c) /\ ApplyEnd(c) >= DohEnd(c)
      /\ IF c.ttl_enabled THEN TtlEnd(c) = 17 ELSE TtlEnd(c) = 16
      /\ IF c.doh THEN DohEnd(c) = TtlEnd(c) + 3 ELSE DohEnd(c) = TtlEnd(c)
      /\ IF c.kill_switch THEN ApplyEnd(c) = DohEnd(c) + 3 ELSE ApplyEnd(c) = DohEnd(c)
  BY Places
<1>2. k > 16 /\ k >= 16 /\ k > 1 /\ k > 5 /\ k > 6 /\ k > 8 /\ k > DohEnd(c) /\ k > ApplyEnd(c)
      /\ (c.doh => k > TtlEnd(c) + 1) /\ (c.ttl_enabled => k >= 18) /\ (c.kill_switch => k >= DohEnd(c) + 3)
  BY <1>1
<1>3. /\ Single(rules["PREROUTING"], RedsocksJump(c))
      /\ IF c.doh THEN Single(rules["FORWARD"], DnsDrop(c)) ELSE Absent(rules["FORWARD"], DnsDrop(c))
      /\ IF c.doh THEN Single(rules["INPUT"], DnsUdpAccept(c)) ELSE Absent(rules["INPUT"], DnsUdpAccept(c))
      /\ c.kill_switch => Single(rules["FORWARD"], EstAccept(c))
  BY <1>2 DEF Done, Cells, CellFits
<1>4. rules["REDSOCKS"] = RedsocksContent(c)
  BY <1>2 DEF Building
<1>5. c.ttl_enabled => rules["POSTROUTING"][Len(rules["POSTROUTING"])] = TtlRule(c)
  BY <1>2 DEF Done, TtlLast
<1>6. c.kill_switch => rules["CAMOFOX_KILLSW"] = <<KillReturn>>
  BY <1>2 DEF Done, KillOpen
<1>7. /\ Count("PREROUTING", RedsocksJump(c)) = 1
      /\ Count("FORWARD", DnsDrop(c)) = (IF c.doh THEN 1 ELSE 0)
      /\ Count("INPUT", DnsUdpAccept(c)) = (IF c.doh THEN 1 ELSE 0)
      /\ c.kill_switch => Count("FORWARD", EstAccept(c)) = 1
  BY <1>0, <1>3, Counts
<1> QED
  BY <1>4, <1>5, <1>6, <1>7

(* Used by one process, apply is idempotent: whatever was applied before and *)
(* under whatever configuration, when it ends each of its rules is there     *)
(* exactly once, REDSOCKS has exactly the new content and the last TTL rule  *)
(* is the configured one (firewall.rules:6).                                 *)
THEOREM ApplyIsIdempotent ==
    ASSUME NEW p \in Proc, Proc = {p}
    PROVE  FirewallSpec => []AppliedExactlyOnce
<1>1. FirewallInit => AInv(p)
  <2>1. ASSUME FirewallInit PROVE job[p].name = "none"
    BY <2>1 DEF FirewallInit
  <2> QED
    BY <2>1, InitHolds DEF AInv
<1>2. AInv(p) /\ [FirewallNext]_fwvars => AInv(p)'
  BY DoneKept
<1>3. AInv(p) => AppliedExactlyOnce
  <2> SUFFICES ASSUME AInv(p), Ran(p, "apply")
               PROVE  LET c == job[p].cfg IN
                      /\ Count("PREROUTING", RedsocksJump(c)) = 1
                      /\ rules["REDSOCKS"] = RedsocksContent(c)
                      /\ c.ttl_enabled => rules["POSTROUTING"][Len(rules["POSTROUTING"])] = TtlRule(c)
                      /\ Count("FORWARD", DnsDrop(c)) = (IF c.doh THEN 1 ELSE 0)
                      /\ Count("INPUT", DnsUdpAccept(c)) = (IF c.doh THEN 1 ELSE 0)
                      /\ c.kill_switch => /\ Count("FORWARD", EstAccept(c)) = 1
                                          /\ rules["CAMOFOX_KILLSW"] = <<KillReturn>>
    BY DEF AppliedExactlyOnce
  <2>1. FInv(p) /\ job[p].name = "apply" /\ Finished(p)
    BY DEF AInv, Ran
  <2>2. job[p].cfg \in ConfigType /\ job[p].at \in Nat
    BY <2>1, ConfigAssumption DEF FInv, Job
  <2>3. Tables /\ Building(job[p].cfg, job[p].at) /\ Done(job[p].cfg, job[p].at)
    BY <2>1 DEF AInv, FInv
  <2>4. Commands(p) = ApplyRules(job[p].cfg)
    BY <2>1 DEF Commands, Script
  <2>5. job[p].at > ApplyEnd(job[p].cfg)
    BY <2>1, <2>2, <2>4, ApplyAt DEF Finished
  <2> QED
    BY <2>2, <2>3, <2>5, DoneShows
<1> QED
  BY <1>1, <1>2, <1>3, PTL DEF FirewallSpec

=============================================================================
