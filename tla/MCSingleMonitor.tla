--------------------------- MODULE MCSingleMonitor ---------------------------
(* One monitor; the kill switch armed or not, DNS blocking on or off.        *)
EXTENDS SingleMonitor

Cfg(ks, doh) ==
    [enabled |-> TRUE, ip |-> "ip1", ttl |-> "65", ttl_enabled |-> TRUE,
     kill_switch |-> ks, doh |-> doh, lan |-> "br-lan"]

MCConfig == {Cfg(TRUE, TRUE), Cfg(TRUE, FALSE), Cfg(FALSE, TRUE)}
=============================================================================
