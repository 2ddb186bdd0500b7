------------------------------ MODULE MCStreams ------------------------------
(***************************************************************************)
(* What passes through sockets, and the Mac's settings, side by side: a    *)
(* behaviour is one of a proxy session, of DNS over QUIC, of calls of      *)
(* dns.query, of the Mac's helper or of its tool, as part says; the        *)
(* variables of the others stay as they began.                             *)
(*                                                                         *)
(* Session with one chunk of the client and two of the target: enough for  *)
(* the forwarder to the client to wait in drain() (two replies and two     *)
(* chunks over a window of one and a mark of one), and for a request that  *)
(* crosses the answer or comes ahead of the reply.                         *)
(***************************************************************************)
EXTENDS Session, Quic, Query, MCMac, Helper

MCChunks == [x \in End |-> IF x = "client" THEN 1 ELSE 2]

-----------------------------------------------------------------------------
(* Calls over each transport, with a socket of their own and one that is   *)
(* used again; replies to them, wrong ones, and one to the second call.    *)

Family(where, source) == [where |-> where, source |-> source]

ACall == [transport |-> "udp", given |-> FALSE, family |-> Family("v4", "none"), timeout |-> 1,
          ignoreUnexpected |-> FALSE, async |-> FALSE, context |-> FALSE]

MCCalls ==
    { [ACall EXCEPT !.family.source = "v4", !.ignoreUnexpected = TRUE],
      [ACall EXCEPT !.given = TRUE],
      [ACall EXCEPT !.given = TRUE, !.family.where = "host"],
      [ACall EXCEPT !.transport = "tcp", !.given = TRUE],
      [ACall EXCEPT !.transport = "fallback", !.family.where = "v6", !.timeout = Never],
      [ACall EXCEPT !.transport = "tls", !.context = TRUE],
      [ACall EXCEPT !.transport = "tls", !.async = TRUE, !.family.source = "v6"],
      [ACall EXCEPT !.transport = "tls", !.async = TRUE, !.context = TRUE],
      [ACall EXCEPT !.transport = "tls", !.async = TRUE, !.timeout = 0] }

AReply == [id |-> 1, from |-> "server", form |-> "whole", tc |-> FALSE, sig |-> "none"]

MCReplies ==
    { AReply, [AReply EXCEPT !.id = 2, !.sig = "good"], [AReply EXCEPT !.sig = "bad"],
      [AReply EXCEPT !.form = "broken", !.tc = TRUE], [AReply EXCEPT !.from = "elsewhere"] }

FirstSession == Init /\ kind = "GET"
FirstCall == QueryInit /\ me.call.transport = "fallback"

-----------------------------------------------------------------------------
(* Two connections through the Mac's helper, which has one slot.           *)

MCAmounts == [out |-> 0, in |-> 2]

-----------------------------------------------------------------------------
VARIABLE part

OneSetup == setup = (CHOOSE s \in MCSetups : TRUE) /\ ~proxyUp

StreamsInit ==
    /\ QuicInit /\ HelperInit /\ MacInit
    /\ \/ part = "session" /\ Init /\ FirstCall /\ OneSetup
       \/ part \in {"quic", "helper"} /\ FirstSession /\ FirstCall /\ OneSetup
       \/ part = "query" /\ FirstSession /\ QueryInit /\ OneSetup
       \/ part = "mac" /\ FirstSession /\ FirstCall

StreamsNext ==
    /\ UNCHANGED part
    /\ \/ part = "session" /\ Next /\ UNCHANGED <<quicVars, queryVars, helperVars, macvars>>
       \/ part = "quic" /\ QuicNext /\ UNCHANGED <<vars, queryVars, helperVars, macvars>>
       \/ part = "query" /\ QueryNext /\ UNCHANGED <<vars, quicVars, helperVars, macvars>>
       \/ part = "helper" /\ HelperNext /\ UNCHANGED <<vars, quicVars, queryVars, macvars>>
       \/ part = "mac" /\ MacNext /\ UNCHANGED <<vars, quicVars, queryVars, helperVars>>

StreamsSpec == StreamsInit /\ [][StreamsNext]_<<vars, quicVars, queryVars, helperVars, macvars, part>>
==============================================================================
