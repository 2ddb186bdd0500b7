----------------------------- MODULE ProxyServer -----------------------------
(***************************************************************************)
(* What every handler of lib/proxy_server.py shares: the families of       *)
(* addresses the server may connect from.                                  *)
(***************************************************************************)

VARIABLE
    hosts       \* the families with a connect_host_ipv4 or connect_host_ipv6

Fam == {"v4", "v6"}

(* What a server bound to one interface may use: all, if it is bound to none. *)
Usable == IF hosts = {} THEN Fam ELSE hosts

=============================================================================
