------------------------------ MODULE MCRequest ------------------------------
(* Small instances of Request for TLC.  Of the targets of the relay one    *)
(* has two addresses and one an IPv4 address only.                         *)
EXTENDS Request

Names == {"host", "alias"}
Fams == [n \in {"a", "b", "u"} |->
            CASE n = "a" -> "v4" [] n = "b" -> "v6" [] n = "u" -> "url"]

Say(form, tc, rcode, host, alias) ==
    [from |-> "nameserver", form |-> form, header |-> TRUE, question |-> "ours",
     tc |-> tc, rcode |-> rcode, answer |-> [n \in Names |-> IF n = "host" THEN host ELSE alias]]

Sample ==
    { Say("whole", FALSE, "NOERROR", "alias", "address"),
      Say("whole", TRUE, "NOERROR", "nothing", "nothing"),
      Say("whole", FALSE, "NXDOMAIN", "nothing", "nothing"),
      [Say("whole", FALSE, "NOERROR", "address", "nothing") EXCEPT !.from = "elsewhere"] }

Lists == { <<"a", "b">>, <<"u", "a">> }

TargetFams == [a \in {"x4", "x6", "y4"} |-> IF a = "x6" THEN "v6" ELSE "v4"]
=============================================================================
