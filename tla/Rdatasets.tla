------------------------------ MODULE Rdatasets ------------------------------
(***************************************************************************)
(* The data of a zone (dns/set.py, rdataset.py, node.py, serial.py): sets  *)
(* of records of one type with a common TTL, nodes that hold at most one   *)
(* such set per type, and serial numbers that wrap around.                 *)
(*                                                                         *)
(* A node is a function from the types it holds to their sets; a set is a  *)
(* record [ttl, rdatas].  The type "RRSIG(CNAME)" stands for a pair of     *)
(* rdtype and covered type.                                                *)
(***************************************************************************)
EXTENDS Integers, FiniteSets, Functions

CONSTANT SerialBits     \* 32

ASSUME SerialAssumption == SerialBits \in Nat \ {0}

Half == 2 ^ (SerialBits - 1)

SerialLess(a, b) ==
    \/ a < b /\ b - a < Half
    \/ a > b /\ a - b > Half

(* Serial + delta, for a delta of at most MaxDelta.                        *)
MaxDelta == Half - 1
SerialPlus(a, delta) == (a + delta) % (2 * Half)

-----------------------------------------------------------------------------

CnameTypes == {"CNAME", "RRSIG(CNAME)"}
NeutralTypes == {"NSEC", "RRSIG(NSEC)", "KEY"}
Singletons == {"SOA", "CNAME", "DNAME", "NSEC"}

Kind(type) ==
    CASE type \in CnameTypes -> "cname"
      [] type \in NeutralTypes -> "neutral"
      [] OTHER -> "regular"

(* update_ttl: the lesser of two TTLs, unless there was no record.         *)
Minimized(set, ttl) == IF set.rdatas = {} \/ ttl < set.ttl THEN ttl ELSE set.ttl

UnionOf(type, set, other) ==
    [ttl |-> Minimized(set, other.ttl),
     rdatas |-> IF type \in Singletons /\ other.rdatas # {} THEN other.rdatas
                                                           ELSE set.rdatas \cup other.rdatas]

Intersection(set, other) ==
    [ttl |-> Minimized(set, other.ttl), rdatas |-> set.rdatas \cap other.rdatas]

Difference(set, other) == [set EXCEPT !.rdatas = @ \ other.rdatas]

-----------------------------------------------------------------------------

EmptyNode == [type \in {} |-> {}]

WithoutType(node, type) == Restrict(node, DOMAIN node \ {type})

(* _append_rdataset: a CNAME drives out other data, and the other way.     *)
Compatible(type, present) ==
    {Kind(type), Kind(present)} # {"cname", "regular"}

Appended(node, type, set) ==
    LET kept == {present \in DOMAIN node : Compatible(type, present)}
    IN  [present \in kept \cup {type} |-> IF present = type THEN set ELSE node[present]]

Replaced(node, type, set) == Appended(WithoutType(node, type), type, set)

(* The kind of the first set that is not neutral.                          *)
Classify(node) ==
    LET kinds == {Kind(type) : type \in DOMAIN node} \ {"neutral"}
    IN  IF kinds = {} THEN "neutral" ELSE CHOOSE kind \in kinds : TRUE

=============================================================================
