----------------------------- MODULE KillSwitch -----------------------------
(***************************************************************************)
(* What the kill switch promises (README of camofox-router, "Kill Switch"; *)
(* health_check.sh:3-5), without shell processes, files or iptables:       *)
(*                                                                         *)
(*   - traffic is blocked only once Threshold probes in a row have missed; *)
(*   - it is let through again only after a probe has hit;                 *)
(*   - enough misses do lead to blocking, a hit does lead to release.      *)
(***************************************************************************)
EXTENDS Naturals

CONSTANT Threshold   \* health_fail_threshold, a positive number

VARIABLES
    armed,    \* option kill_switch
    misses,   \* probes missed in a row, counted up to Threshold
    blocked   \* forwarded LAN traffic is dropped

vars == <<armed, misses, blocked>>

TypeOK == armed \in BOOLEAN /\ misses \in 0..Threshold /\ blocked \in BOOLEAN

Init == armed \in BOOLEAN /\ misses = 0 /\ blocked = FALSE

Hit  == misses' = 0 /\ UNCHANGED <<armed, blocked>>

Miss ==
    /\ misses' = IF misses < Threshold THEN misses + 1 ELSE misses
    /\ UNCHANGED <<armed, blocked>>

Engage ==
    /\ armed /\ ~blocked /\ misses = Threshold
    /\ blocked' = TRUE
    /\ UNCHANGED <<armed, misses>>

Release ==
    /\ blocked /\ misses = 0
    /\ blocked' = FALSE
    /\ UNCHANGED <<armed, misses>>

Next == Hit \/ Miss \/ Engage \/ Release

SafeSpec == Init /\ [][Next]_vars
Spec     == SafeSpec /\ WF_vars(Engage) /\ WF_vars(Release)
=============================================================================
