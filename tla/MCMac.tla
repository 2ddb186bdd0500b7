-------------------------------- MODULE MCMac --------------------------------
(* Macs with settings of their user's own and without, each DNS mode as it *)
(* is used.                                                                *)
EXTENDS Mac

Mode(root, mode, tool, runs, own) ==
    [root |-> root, mode |-> mode, tool |-> tool, running |-> runs,
     proxy |-> IF own THEN "own" ELSE "off", dns |-> IF own THEN "own" ELSE "auto"]

MCSetups ==
    { Mode(FALSE, "doh", TRUE, FALSE, TRUE), Mode(TRUE, "doh", TRUE, TRUE, FALSE),
      Mode(FALSE, "doh", FALSE, FALSE, TRUE), Mode(TRUE, "doh", TRUE, FALSE, FALSE),
      Mode(TRUE, "proxy", FALSE, FALSE, TRUE), Mode(FALSE, "proxy", FALSE, FALSE, FALSE),
      Mode(FALSE, "system", FALSE, FALSE, TRUE) }
=============================================================================
