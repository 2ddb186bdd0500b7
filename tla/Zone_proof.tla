----------------------------- MODULE Zone_proof -----------------------------
(***************************************************************************)
(* Proofs about Zone: versions share node objects, writers copy before     *)
(* they write, old versions are pruned and their objects collected, and no *)
(* reader sees any of it.  Nothing is assumed of the data that operations  *)
(* and transfers write, nor of the answers a transfer gets; of the zones a *)
(* server has, only for the proof that a transfer makes the one it was     *)
(* sent (TransfersAreExact, at the end).                                   *)
(*                                                                         *)
(* And about Stub: the ring of an LRUCache stays in order (RingInOrder),   *)
(* and no answer is taken from a cache after its TTL (AnswersFresh).       *)
(***************************************************************************)
EXTENDS Zone, Stub, SequenceTheorems, FiniteSetTheorems, WellFoundedInduction, TLAPS

-----------------------------------------------------------------------------
(* Extremes of sets of naturals, and suffixes.                             *)

LEMMA Least ==
    ASSUME NEW T, T \subseteq Nat, T # {}
    PROVE  Min(T) \in T /\ \A x \in T : Min(T) <= x
<1> DEFINE R == OpToRel(<, Nat)
<1>0. IsWellFoundedOn(R, Nat)
  BY NatLessThanWellFounded
<1> HIDE DEF R
<1>1. \E m \in T : \A x \in T : ~(<<x, m>> \in R)
  BY <1>0, WFMin
<1>2. PICK m \in T : \A x \in T : ~(x < m)
  BY <1>1 DEF R, OpToRel
<1>3. \A x \in T : m <= x
  BY <1>2
<1> QED
  BY <1>3 DEF Min

LEMMA Greatest ==
    ASSUME NEW n \in Nat, NEW T, T \subseteq 0 .. n, T # {}
    PROVE  Max(T) \in T /\ \A x \in T : x <= Max(T)
<1> DEFINE S == {n - x : x \in T}
<1>1. S \subseteq Nat
  OBVIOUS
<1>2. S # {}
  <2>1. PICK x \in T : TRUE
    OBVIOUS
  <2>2. n - x \in S
    BY <2>1
  <2> QED
    BY <2>2
<1>3. PICK y \in S : \A z \in S : y <= z
  BY <1>1, <1>2, Least
<1>4. PICK m \in T : y = n - m
  OBVIOUS
<1>5. \A x \in T : m >= x
  BY <1>3, <1>4
<1> QED
  BY <1>4, <1>5 DEF Max

LEMMA Suffix ==
    ASSUME NEW S, NEW s \in Seq(S), NEW m \in 0 .. Len(s) - 1
    PROVE  LET r == SubSeq(s, m + 1, Len(s))
           IN  /\ r \in Seq(S) /\ Len(r) = Len(s) - m
               /\ \A i \in 1 .. Len(s) - m : r[i] = s[i + m]
<1>1. Len(s) \in Nat /\ m \in Nat /\ m < Len(s)
  OBVIOUS
<1>2. \A i \in m + 1 .. Len(s) : s[i] \in S
  BY <1>1, ElementOfSeq
<1> QED
  BY <1>1, <1>2, SubSeqProperties

-----------------------------------------------------------------------------
(* What a writer works on.                                                 *)

Parts == {"ok", "heap", "id", "nodes", "changed"}

(* The objects of a version's nodes are there, of its age at most, and     *)
(* each made for its name.                                                 *)
NodesFit(nodes, memory, id) ==
    \A name \in DOMAIN nodes :
        /\ nodes[name] \in DOMAIN memory
        /\ nodes[name][1] \in Nat /\ nodes[name][1] <= id
        /\ nodes[name][2] = name

(* Objects that are not the writer's own are as they were.                 *)
Keeps(new, memory, id) ==
    \A o \in DOMAIN memory : o[1] # id => o \in DOMAIN new /\ new[o] = memory[o]

OwnsChanged(w, id) ==
    \A name \in DOMAIN w.nodes : name \in w.changed => w.nodes[name] = <<id, name>>

Fits(w, memory, id) ==
    /\ DOMAIN w = Parts /\ w.id = id
    /\ NodesFit(w.nodes, w.heap, id) /\ OwnsChanged(w, id) /\ Keeps(w.heap, memory, id)

(* Writing an object of the writer's own.                                  *)
LEMMA OwnWriteFits ==
    ASSUME NEW w, NEW memory, NEW id \in Nat, Fits(w, memory, id), NEW o, o[1] = id, NEW value
    PROVE  Fits([w EXCEPT !.heap = [w.heap EXCEPT ![o] = value]], memory, id)
<1> DEFINE v == [w EXCEPT !.heap = [w.heap EXCEPT ![o] = value]]
<1>1. /\ DOMAIN v = Parts /\ v.id = w.id /\ v.nodes = w.nodes /\ v.changed = w.changed
      /\ DOMAIN v.heap = DOMAIN w.heap
      /\ \A p \in DOMAIN w.heap : p[1] # id => v.heap[p] = w.heap[p]
  BY DEF Fits, Parts
<1> HIDE DEF v
<1>2. NodesFit(v.nodes, v.heap, id) /\ OwnsChanged(v, id) /\ Keeps(v.heap, memory, id)
  BY <1>1 DEF Fits, NodesFit, OwnsChanged, Keeps
<1>3. Fits(v, memory, id)
  BY <1>1, <1>2 DEF Fits
<1> QED
  BY <1>3 DEF v

LEMMA RefusedFits ==
    ASSUME NEW w, NEW memory, NEW id \in Nat, Fits(w, memory, id)
    PROVE  Fits(Refused(w), memory, id)
<1> DEFINE v == Refused(w)
<1>1. /\ DOMAIN v = Parts /\ v.id = w.id /\ v.nodes = w.nodes /\ v.changed = w.changed
      /\ v.heap = w.heap
  BY DEF Fits, Parts, Refused
<1> QED
  BY <1>1 DEF Fits, OwnsChanged

LEMMA DropFits ==
    ASSUME NEW w, NEW memory, NEW id \in Nat, Fits(w, memory, id), NEW name
    PROVE  /\ Fits(DropNode(w, name), memory, id)
           /\ Fits([DropNode(w, name) EXCEPT !.changed = @ \cup {name}], memory, id)
<1> DEFINE v == DropNode(w, name)
           u == [v EXCEPT !.changed = @ \cup {name}]
<1>1. /\ DOMAIN v = Parts /\ v.id = w.id /\ v.changed = w.changed /\ v.heap = w.heap
      /\ DOMAIN v.nodes = DOMAIN w.nodes \ {name}
      /\ \A n \in DOMAIN v.nodes : v.nodes[n] = w.nodes[n]
  BY DEF Fits, Parts, DropNode, Restrict
<1> HIDE DEF v
<1>2. /\ DOMAIN u = Parts /\ u.id = w.id /\ u.heap = w.heap /\ u.nodes = v.nodes
      /\ u.changed = w.changed \cup {name}
  BY <1>1 DEF Parts
<1> HIDE DEF u
<1>3. Fits(v, memory, id)
  BY <1>1 DEF Fits, NodesFit, OwnsChanged
<1>4. Fits(u, memory, id)
  BY <1>1, <1>2 DEF Fits, NodesFit, OwnsChanged
<1> QED
  BY <1>3, <1>4 DEF u, v

(* A copy is made unless the writer has made one, and is its own.          *)
LEMMA CowFits ==
    ASSUME NEW w, NEW memory, NEW id \in Nat, Fits(w, memory, id), NEW name
    PROVE  LET copy == MaybeCow(w, name)
           IN  /\ Fits(copy, memory, id)
               /\ name \in DOMAIN copy.nodes /\ copy.nodes[name] = <<id, name>>
<1>1. CASE name \in DOMAIN w.nodes /\ name \in w.changed
  BY <1>1 DEF MaybeCow, Fits, OwnsChanged
<1>2. CASE ~(name \in DOMAIN w.nodes /\ name \in w.changed)
  <2> DEFINE node == IF name \in DOMAIN w.nodes THEN w.heap[w.nodes[name]] ELSE EmptyNode
             o == <<id, name>>
             v == MaybeCow(w, name)
  <2>1. v = [w EXCEPT !.heap = Assign(w.heap, o, node), !.nodes = Assign(w.nodes, name, o),
                      !.changed = w.changed \cup {name}]
    BY <1>2 DEF MaybeCow, Fits, Parts
  <2> HIDE DEF v, node
  <2>2. /\ DOMAIN v = Parts /\ v.id = id /\ v.heap = Assign(w.heap, o, node)
        /\ v.nodes = Assign(w.nodes, name, o) /\ v.changed = w.changed \cup {name}
    BY <2>1 DEF Fits, Parts
  <2>3. /\ DOMAIN v.heap = DOMAIN w.heap \cup {o}
        /\ \A p \in DOMAIN w.heap : p # o => v.heap[p] = w.heap[p]
        /\ DOMAIN v.nodes = DOMAIN w.nodes \cup {name} /\ v.nodes[name] = o
        /\ \A n \in DOMAIN w.nodes : n # name => v.nodes[n] = w.nodes[n]
    BY <2>2 DEF Assign
  <2>4. o[1] = id /\ o[2] = name
    OBVIOUS
  <2> HIDE DEF o
  <2>5. NodesFit(v.nodes, v.heap, id)
    <3>1. ASSUME NEW n \in DOMAIN v.nodes
          PROVE  v.nodes[n] \in DOMAIN v.heap /\ v.nodes[n][1] \in Nat /\ v.nodes[n][1] <= id /\ v.nodes[n][2] = n
      <4>1. CASE n = name
        BY <2>3, <2>4, <4>1
      <4>2. CASE n # name
        BY <2>3, <3>1, <4>2 DEF Fits, NodesFit
      <4> QED
        BY <4>1, <4>2
    <3> QED
      BY <3>1 DEF NodesFit
  <2>6. OwnsChanged(v, id)
    BY <2>2, <2>3 DEF Fits, OwnsChanged, o
  <2>7. Keeps(v.heap, memory, id)
    BY <2>3, <2>4 DEF Fits, Keeps
  <2>8. Fits(v, memory, id)
    BY <2>2, <2>5, <2>6, <2>7 DEF Fits
  <2> QED
    BY <2>3, <2>8 DEF v, o
<1> QED
  BY <1>1, <1>2

LEMMA PutFits ==
    ASSUME NEW w, NEW memory, NEW id \in Nat, Fits(w, memory, id), NEW name, NEW type, NEW set
    PROVE  Fits(PutRdataset(w, name, type, set), memory, id)
<1> DEFINE copy == MaybeCow(w, name)
           o == copy.nodes[name]
           value == Replaced(copy.heap[o], type, set)
<1>1. Fits(copy, memory, id) /\ o = <<id, name>>
  BY CowFits
<1>2. o[1] = id
  BY <1>1
<1>3. PutRdataset(w, name, type, set) = [copy EXCEPT !.heap = [copy.heap EXCEPT ![o] = value]]
  BY DEF PutRdataset
<1> HIDE DEF copy, o, value
<1> QED
  BY <1>1, <1>2, <1>3, OwnWriteFits

LEMMA DeleteRdatasetFits ==
    ASSUME NEW w, NEW memory, NEW id \in Nat, Fits(w, memory, id), NEW name, NEW type
    PROVE  Fits(DeleteRdataset(w, name, type), memory, id)
<1> DEFINE copy == MaybeCow(w, name)
           o == copy.nodes[name]
           value == WithoutType(copy.heap[o], type)
           less == [copy EXCEPT !.heap = [copy.heap EXCEPT ![o] = value]]
<1>1. Fits(copy, memory, id) /\ o = <<id, name>>
  BY CowFits
<1>2. o[1] = id
  BY <1>1
<1>3. DeleteRdataset(w, name, type) =
         IF less.heap[less.nodes[name]] = EmptyNode THEN DropNode(less, name) ELSE less
  BY DEF DeleteRdataset
<1> HIDE DEF copy, o, value
<1>4. Fits(less, memory, id)
  BY <1>1, <1>2, OwnWriteFits
<1> HIDE DEF less
<1>5. Fits(DropNode(less, name), memory, id)
  BY <1>4, DropFits
<1> QED
  BY <1>3, <1>4, <1>5

LEMMA DeleteNodeFits ==
    ASSUME NEW w, NEW memory, NEW id \in Nat, Fits(w, memory, id), NEW name
    PROVE  Fits(DeleteNode(w, name), memory, id)
BY DropFits DEF DeleteNode

-----------------------------------------------------------------------------
(* The operations of a transaction.                                        *)

LEMMA PutCheckedFits ==
    ASSUME NEW w, NEW memory, NEW id \in Nat, Fits(w, memory, id),
           NEW name, NEW type, NEW set, NEW strict
    PROVE  Fits(PutChecked(w, name, type, set, strict), memory, id)
BY PutFits, RefusedFits DEF PutChecked

LEMMA AddFits ==
    ASSUME NEW w, NEW memory, NEW id \in Nat, Fits(w, memory, id),
           NEW name, NEW type, NEW set, NEW strict
    PROVE  Fits(Add(w, name, type, set, strict), memory, id)
BY PutCheckedFits, RefusedFits DEF Add

LEMMA ReplaceFits ==
    ASSUME NEW w, NEW memory, NEW id \in Nat, Fits(w, memory, id),
           NEW name, NEW type, NEW set, NEW strict
    PROVE  Fits(Replace(w, name, type, set, strict), memory, id)
BY PutCheckedFits, RefusedFits DEF Replace

LEMMA DeleteFits ==
    ASSUME NEW w, NEW memory, NEW id \in Nat, Fits(w, memory, id),
           NEW name, NEW type, NEW set, NEW exact
    PROVE  Fits(Delete(w, name, type, set, exact), memory, id)
BY PutFits, DeleteRdatasetFits, RefusedFits DEF Delete

LEMMA UpdateSerialFits ==
    ASSUME NEW w, NEW memory, NEW id \in Nat, Fits(w, memory, id), NEW value, NEW relative
    PROVE  Fits(UpdateSerial(w, value, relative), memory, id)
BY ReplaceFits, RefusedFits DEF UpdateSerial

LEMMA ApplyFits ==
    ASSUME NEW w, NEW memory, NEW id \in Nat, Fits(w, memory, id), NEW o \in Operations
    PROVE  Fits(Apply(w, o), memory, id)
<1>1. CASE o.op \in {"add", "load"}
  BY <1>1, AddFits DEF Apply
<1>2. CASE o.op = "replace"
  BY <1>2, ReplaceFits DEF Apply
<1>3. CASE o.op = "delete"
  BY <1>3, DeleteFits DEF Apply
<1>4. CASE o.op = "deleteType"
  BY <1>4, DeleteRdatasetFits, RefusedFits DEF Apply, DeleteType
<1>5. CASE o.op = "deleteName"
  BY <1>5, DeleteNodeFits, RefusedFits DEF Apply, DeleteName
<1>6. CASE o.op = "serial"
  BY <1>6, UpdateSerialFits DEF Apply
<1> QED
  BY <1>1, <1>2, <1>3, <1>4, <1>5, <1>6, ZoneAssumption

-----------------------------------------------------------------------------
(* Versions and their pruning.                                             *)

Aging(vs) ==
    /\ vs \in Seq(Range(vs)) /\ Len(vs) >= 1
    /\ \A i \in 1 .. Len(vs) : vs[i].id \in Nat
    /\ \A i, j \in 1 .. Len(vs) : i < j => vs[i].id < vs[j].id

LEMMA RangeIs ==
    ASSUME NEW S, NEW s \in Seq(S)
    PROVE  Range(s) = {s[i] : i \in 1 .. Len(s)} /\ s \in Seq(Range(s))
<1>1. DOMAIN s = 1 .. Len(s) /\ Len(s) \in Nat /\ s = [i \in 1 .. Len(s) |-> s[i]]
  BY LenProperties
<1>2. Range(s) = {s[i] : i \in 1 .. Len(s)}
  BY <1>1 DEF Range
<1>3. s \in [1 .. Len(s) -> Range(s)]
  BY <1>1, <1>2
<1>4. s \in Seq(Range(s))
  <2>1. Len(s) \in Nat
    BY <1>1
  <2> QED
    BY <1>3, <2>1, SeqDef, Zenon
<1> QED
  BY <1>2, <1>4

LEMMA NewestIsNewest ==
    ASSUME NEW vs, Aging(vs)
    PROVE  /\ Last(vs) \in Range(vs) /\ Last(vs).id \in Nat
           /\ \A v \in Range(vs) : v.id \in Nat /\ v.id <= Last(vs).id
<1>1. Range(vs) = {vs[i] : i \in 1 .. Len(vs)} /\ Len(vs) \in Nat
  BY RangeIs DEF Aging
<1>2. Len(vs) \in 1 .. Len(vs) /\ Last(vs) = vs[Len(vs)]
  BY <1>1 DEF Aging, Last
<1>3. ASSUME NEW i \in 1 .. Len(vs) PROVE vs[i].id <= vs[Len(vs)].id
  <2>1. i < Len(vs) \/ i = Len(vs)
    BY <1>1
  <2>2. vs[i].id \in Nat /\ vs[Len(vs)].id \in Nat
    BY <1>2 DEF Aging
  <2>3. i < Len(vs) => vs[i].id < vs[Len(vs)].id
    BY <1>2 DEF Aging
  <2> QED
    BY <2>1, <2>2, <2>3
<1> QED
  BY <1>1, <1>2, <1>3 DEF Aging

(* What pruning leaves: the newest version, all that readers have open,    *)
(* and all that are newer than one of these.                               *)
LEMMA PruningKeeps ==
    ASSUME NEW vs, Aging(vs), NEW rs, NEW keep,
           \A x \in Range(rs) : x # None => x \in Range(vs)
    PROVE  LET left == Pruned(vs, rs, keep)
           IN  /\ Aging(left) /\ Last(left) = Last(vs) /\ Range(left) \subseteq Range(vs)
               /\ \A x \in Range(rs), v \in Range(vs) :
                     x # None /\ v.id >= x.id => v \in Range(left)
<1> DEFINE n == Len(vs)
           opened == {r.id : r \in {x \in Range(rs) : x # None}}
           least == IF opened = {} THEN Last(vs).id ELSE Min(opened)
           pruned(k) == \A i \in 1 .. k : vs[i].id < least /\ keep # KeepAll /\ n - i + 1 > keep
           T == {k \in 0 .. n : pruned(k)}
           m == Max(T)
           left == SubSeq(vs, m + 1, n)
<1>1. Pruned(vs, rs, keep) = left
  BY DEF Pruned
<1>2. n \in Nat /\ n >= 1 /\ Range(vs) = {vs[i] : i \in 1 .. n}
  BY RangeIs DEF Aging
<1>3. opened \subseteq Nat /\ opened \subseteq {v.id : v \in Range(vs)}
  BY NewestIsNewest
<1>4. \A x \in opened : least <= x
  <2>1. CASE opened = {}
    BY <2>1
  <2>2. CASE opened # {}
    <3>1. \A x \in opened : Min(opened) <= x
      BY <1>3, <2>2, Least
    <3> HIDE DEF opened
    <3> QED
      BY <2>2, <3>1
  <2> QED
    BY <2>1, <2>2
<1>5. \E i \in 1 .. n : vs[i].id = least
  <2>1. CASE opened = {}
    <3>1. Last(vs) \in Range(vs) /\ least = Last(vs).id
      BY <2>1, NewestIsNewest
    <3>2. PICK i \in 1 .. n : Last(vs) = vs[i]
      BY <1>2, <3>1
    <3> QED
      BY <3>1, <3>2
  <2>2. CASE opened # {}
    <3>1. Min(opened) \in opened
      BY <1>3, <2>2, Least
    <3>2. least = Min(opened)
      BY <2>2
    <3>3. PICK v \in Range(vs) : Min(opened) = v.id
      BY <1>3, <3>1
    <3>4. PICK i \in 1 .. n : v = vs[i]
      BY <1>2
    <3> HIDE DEF opened, least
    <3> QED
      BY <3>2, <3>3, <3>4
  <2> QED
    BY <2>1, <2>2
<1> HIDE DEF opened, least
<1>6. 0 \in T
  BY <1>2
<1>7. m \in T
  <2>1. T \subseteq 0 .. n /\ T # {} /\ n \in Nat
    BY <1>2, <1>6
  <2> HIDE DEF T, n
  <2> QED
    BY <2>1, Greatest
<1>8. m \in 0 .. n /\ \A i \in 1 .. m : vs[i].id < least
  BY <1>7
<1> HIDE DEF m, T
<1>9. m < n
  <2>1. PICK i \in 1 .. n : vs[i].id = least
    BY <1>5
  <2>2. vs[i].id \in Nat
    BY DEF Aging
  <2>3. ~(i <= m)
    BY <2>1, <2>2, <1>8
  <2> QED
    BY <2>3, <1>2, <1>8
<1>10. /\ left \in Seq(Range(vs)) /\ Len(left) = n - m
       /\ \A i \in 1 .. n - m : left[i] = vs[i + m]
  <2>1. m \in 0 .. Len(vs) - 1 /\ vs \in Seq(Range(vs))
    BY <1>2, <1>8, <1>9 DEF Aging
  <2> QED
    BY <2>1, Suffix
<1> HIDE DEF left
<1>11. m \in Nat /\ n - m \in Nat /\ n - m >= 1
  BY <1>2, <1>8, <1>9
<1>12. Range(left) = {left[i] : i \in 1 .. n - m} /\ left \in Seq(Range(left))
  BY <1>10, RangeIs
<1>13. \A i \in 1 .. n - m : i + m \in 1 .. n
  BY <1>2, <1>8, <1>9
<1>14. Aging(left)
  <2>1. \A i, j \in 1 .. n - m : i < j => i + m < j + m
    BY <1>2, <1>8
  <2>2. Len(left) >= 1
    BY <1>10, <1>11
  <2>3. \A i \in 1 .. n - m : left[i].id \in Nat
    BY <1>10, <1>13 DEF Aging, n
  <2>4. \A i, j \in 1 .. n - m : i < j => left[i].id < left[j].id
    BY <1>10, <1>13, <2>1 DEF Aging, n
  <2> QED
    BY <1>10, <1>12, <2>2, <2>3, <2>4 DEF Aging
<1>15. Last(left) = Last(vs)
  <2>1. n - m \in 1 .. n - m /\ (n - m) + m = n
    BY <1>2, <1>8, <1>11
  <2>2. left[n - m] = vs[n]
    BY <2>1, <1>10
  <2> QED
    BY <2>2, <1>10 DEF Last, n
<1>16. Range(left) \subseteq Range(vs)
  BY <1>2, <1>10, <1>12, <1>13
<1>17. ASSUME NEW x \in Range(rs), NEW v \in Range(vs), x # None, v.id >= x.id
       PROVE  v \in Range(left)
  <2>1. PICK i \in 1 .. n : v = vs[i]
    BY <1>2
  <2>2. x.id \in opened
    BY <1>17 DEF opened
  <2>3. v.id \in Nat /\ x.id \in Nat /\ least <= x.id /\ least \in Nat
    BY <1>3, <1>4, <1>5, <2>1, <2>2 DEF Aging, n
  <2>4. ~(v.id < least)
    BY <2>3, <1>17
  <2>5. ~(i <= m)
    BY <2>1, <2>4, <1>8
  <2>6. i - m \in 1 .. n - m /\ (i - m) + m = i
    BY <2>5, <1>2, <1>8
  <2>7. left[i - m] = v
    BY <2>1, <2>6, <1>10
  <2> QED
    BY <2>6, <2>7, <1>12
<1> QED
  BY <1>1, <1>14, <1>15, <1>16, <1>17

(* A new version is the newest.                                            *)
LEMMA AppendingAges ==
    ASSUME NEW vs, Aging(vs), NEW v, v.id = Last(vs).id + 1
    PROVE  LET more == Append(vs, v)
           IN  /\ Aging(more) /\ Last(more) = v /\ Range(more) = Range(vs) \cup {v}
<1> DEFINE n == Len(vs)
           S == Range(vs) \cup {v}
           more == Append(vs, v)
<1>1. n \in Nat /\ n >= 1 /\ Range(vs) = {vs[i] : i \in 1 .. n} /\ vs \in Seq(Range(vs))
  BY RangeIs DEF Aging
<1>2. vs \in Seq(S)
  BY <1>1
<1>3. more \in Seq(S) /\ Len(more) = n + 1 /\ more[n + 1] = v /\ \A i \in 1 .. n : more[i] = vs[i]
  BY <1>2, AppendProperties
<1> HIDE DEF more
<1>4. Range(more) = {more[i] : i \in 1 .. n + 1} /\ more \in Seq(Range(more))
  BY <1>3, RangeIs
<1>5. \A i \in 1 .. n + 1 : i \in 1 .. n \/ i = n + 1
  BY <1>1
<1>6. 1 .. n \subseteq 1 .. n + 1 /\ n + 1 \in 1 .. n + 1
  BY <1>1
<1>7. Range(more) = S
  BY <1>1, <1>3, <1>4, <1>5, <1>6
<1>8. Last(more) = v
  BY <1>3 DEF Last
<1>9. \A i \in 1 .. n : vs[i].id \in Nat /\ vs[i].id < v.id /\ v.id \in Nat
  <2>1. \A i \in 1 .. n : vs[i] \in Range(vs)
    BY <1>1
  <2> QED
    BY <2>1, NewestIsNewest
<1>10. v.id \in Nat
  BY NewestIsNewest
<1>11. \A i \in 1 .. n + 1 : more[i].id \in Nat
  BY <1>3, <1>5, <1>9, <1>10
<1>12. ASSUME NEW i \in 1 .. n + 1, NEW j \in 1 .. n + 1, i < j PROVE more[i].id < more[j].id
  <2>1. i \in 1 .. n
    BY <1>1, <1>12
  <2>2. CASE j \in 1 .. n
    BY <2>1, <2>2, <1>3, <1>12 DEF Aging
  <2>3. CASE j = n + 1
    BY <2>1, <2>3, <1>3, <1>9
  <2> QED
    BY <2>2, <2>3, <1>5
<1>13. Aging(more)
  <2>1. Len(more) >= 1
    BY <1>1, <1>3
  <2> QED
    BY <1>3, <1>4, <1>11, <1>12, <2>1 DEF Aging
<1> QED
  BY <1>7, <1>8, <1>13 DEF more

-----------------------------------------------------------------------------
(* The invariant: versions age, their objects and those of an open writer  *)
(* are there, an open writer is one version ahead, and what readers have   *)
(* open is kept.                                                           *)

Writing(t) ==
    /\ writer.thread = t
    /\ DOMAIN writer = {"thread", "replacement", "id", "nodes", "changed"}
    /\ at[t] = "setup" => writer.changed = {}
    /\ at[t] = "in" => /\ writer.id = Newest.id + 1
                       /\ NodesFit(writer.nodes, heap, writer.id) /\ OwnsChanged(writer, writer.id)

VersionsOK == Aging(versions) /\ \A v \in Range(versions) : NodesFit(v.nodes, heap, v.id)

ReadersOK ==
    /\ DOMAIN reading = Readers
    /\ \A r \in Readers : reading[r] # None => reading[r] \in Range(versions)

WritersOK ==
    /\ DOMAIN at = Writers
    /\ \A t \in Writers : at[t] \in {"setup", "in"} => Writing(t)

ZInv == VersionsOK /\ ReadersOK /\ WritersOK

(* What a step may not do to readers.                                      *)
Undisturbed ==
    \A r \in Readers : reading[r] # None /\ reading'[r] # None =>
        /\ \A v \in Range(versions) : v.id >= reading[r].id => v \in Range(versions')
        /\ Content(heap', reading'[r].nodes) = Content(heap, reading[r].nodes)

(* The objects of a version, in a heap that is as it was but for those of  *)
(* the writer, and once garbage is collected.                              *)
LEMMA OldObjects ==
    ASSUME VersionsOK, NEW m, Keeps(m, heap, Newest.id + 1),
           NEW v \in Range(versions), NEW name \in DOMAIN v.nodes
    PROVE  /\ v.nodes[name] \in DOMAIN m /\ m[v.nodes[name]] = heap[v.nodes[name]]
           /\ v.nodes[name][1] \in Nat /\ v.nodes[name][1] <= v.id /\ v.nodes[name][2] = name
<1> DEFINE o == v.nodes[name]
<1>1. o \in DOMAIN heap /\ o[1] \in Nat /\ o[1] <= v.id /\ o[2] = name
  BY DEF VersionsOK, NodesFit
<1>2. v.id \in Nat /\ v.id <= Newest.id /\ Newest.id \in Nat
  BY NewestIsNewest DEF VersionsOK, Newest
<1>3. o[1] # Newest.id + 1
  BY <1>1, <1>2
<1> HIDE DEF o
<1>4. o \in DOMAIN m /\ m[o] = heap[o]
  BY <1>1, <1>3 DEF Keeps
<1> QED
  BY <1>1, <1>4 DEF o

LEMMA HeapKeepsItself == Keeps(heap, heap, Newest.id + 1)
BY DEF Keeps

Agree(f, g, o) == o \in DOMAIN f /\ o \in DOMAIN g /\ f[o] = g[o]

LEMMA CollectedKeeps ==
    ASSUME NEW m, NEW vs, NEW rs, NEW ws, NEW v \in Range(vs) \cup ws,
           NEW name \in DOMAIN v.nodes, v.nodes[name] \in DOMAIN m
    PROVE  Agree(Collected(m, vs, rs, ws), m, v.nodes[name])
<1>1. v.nodes[name] \in Range(v.nodes)
  BY DEF Range
<1>2. v.nodes[name] \in Reachable(vs, rs, ws)
  BY <1>1 DEF Reachable
<1> QED
  BY <1>2 DEF Collected, Restrict, Agree

(* A step that keeps, of the versions, what readers have open and all that *)
(* is newer, and leaves the objects of versions alone.                     *)
LEMMA ReadersUndisturbed ==
    ASSUME ZInv, NEW m, Keeps(m, heap, Newest.id + 1), NEW ws,
           heap' = Collected(m, versions', reading', ws),
           \A r \in Readers : reading[r] # None /\ reading'[r] # None =>
              /\ reading'[r] = reading[r]
              /\ \A v \in Range(versions) : v.id >= reading[r].id => v \in Range(versions')
    PROVE  Undisturbed
<1> SUFFICES ASSUME NEW r \in Readers, reading[r] # None, reading'[r] # None
             PROVE  Content(heap', reading'[r].nodes) = Content(heap, reading[r].nodes)
  BY DEF Undisturbed
<1> DEFINE v == reading[r]
<1>1. v \in Range(versions) /\ VersionsOK
  BY DEF ZInv, ReadersOK
<1>2. v.id \in Nat
  BY <1>1, NewestIsNewest DEF VersionsOK
<1>3. v \in Range(versions') /\ reading'[r] = v
  <2>1. v.id >= v.id
    BY <1>2
  <2> QED
    BY <1>1, <2>1
<1> HIDE DEF v
<1>4. ASSUME NEW u \in Range(versions), u \in Range(versions'), NEW name \in DOMAIN u.nodes
      PROVE  heap'[u.nodes[name]] = heap[u.nodes[name]]
  <2>1. u.nodes[name] \in DOMAIN m /\ m[u.nodes[name]] = heap[u.nodes[name]]
    BY <1>1, OldObjects
  <2>2. u \in Range(versions') \cup ws
    BY <1>4
  <2>3. Agree(heap', m, u.nodes[name])
    BY <2>1, <2>2, CollectedKeeps
  <2> QED
    BY <2>1, <2>3 DEF Agree
<1>5. Content(heap', v.nodes) = Content(heap, v.nodes)
  BY <1>1, <1>3, <1>4 DEF Content
<1> QED
  BY <1>3, <1>5 DEF v

LEMMA VersionsStayOK ==
    ASSUME VersionsOK, NEW m, Keeps(m, heap, Newest.id + 1), NEW ws,
           heap' = Collected(m, versions', reading', ws), Aging(versions'),
           \A v \in Range(versions') : v \in Range(versions) \/ NodesFit(v.nodes, m, v.id)
    PROVE  VersionsOK'
<1>1. ASSUME NEW v \in Range(versions'), NEW name \in DOMAIN v.nodes
      PROVE  /\ v.nodes[name] \in DOMAIN heap' /\ v.nodes[name][1] \in Nat /\ v.nodes[name][1] <= v.id
             /\ v.nodes[name][2] = name
  <2>1. /\ v.nodes[name] \in DOMAIN m /\ v.nodes[name][1] \in Nat /\ v.nodes[name][1] <= v.id
        /\ v.nodes[name][2] = name
    <3>1. CASE v \in Range(versions)
      BY <3>1, OldObjects
    <3>2. CASE NodesFit(v.nodes, m, v.id)
      BY <3>2 DEF NodesFit
    <3> QED
      BY <3>1, <3>2
  <2>2. v \in Range(versions') \cup ws
    OBVIOUS
  <2>3. Agree(heap', m, v.nodes[name])
    BY <2>1, <2>2, CollectedKeeps
  <2> QED
    BY <2>1, <2>3 DEF Agree
<1> QED
  BY <1>1 DEF VersionsOK, NodesFit

-----------------------------------------------------------------------------
(* Steps of threads that leave versions and heap alone.                    *)

LEMMA NothingDisturbs ==
    ASSUME ZInv, UNCHANGED <<heap, versions, reading>>
    PROVE  VersionsOK' /\ ReadersOK' /\ Undisturbed
BY DEF ZInv, VersionsOK, ReadersOK, NodesFit, Undisturbed

LEMMA WantingKeeps ==
    ASSUME ZInv, NEW t \in Writers, Goes(t, "ask"), UNCHANGED <<heap, versions, writer, reading>>
    PROVE  ZInv' /\ Undisturbed
<1>1. at' = [at EXCEPT ![t] = "ask"]
  BY DEF Goes
<1>2. DOMAIN at' = Writers /\ \A u \in Writers : at'[u] \in {"setup", "in"} => at'[u] = at[u]
  BY <1>1 DEF ZInv, WritersOK
<1>3. WritersOK'
  BY <1>2 DEF ZInv, WritersOK, Writing, Newest
<1> QED
  BY <1>3, NothingDisturbs DEF ZInv

LEMMA AskingKeeps ==
    ASSUME ZInv, NEW t \in Writers, NEW replacement, AskWriter(t, replacement)
    PROVE  ZInv' /\ Undisturbed
<1>1. UNCHANGED <<heap, versions, reading>>
  BY DEF AskWriter
<1>2. CASE /\ writer.thread = None /\ at' = [at EXCEPT ![t] = "setup"]
           /\ writer' = [NoWriter EXCEPT !.thread = t, !.replacement = replacement]
  <2>1. \A u \in Writers : at[u] \notin {"setup", "in"}
    BY <1>2, VersionedAssumption DEF ZInv, WritersOK, Writing
  <2>2. DOMAIN at' = Writers /\ at'[t] = "setup" /\ \A u \in Writers : u # t => at'[u] = at[u]
    BY <1>2 DEF ZInv, WritersOK
  <2>3. /\ writer'.thread = t /\ writer'.changed = {}
        /\ DOMAIN writer' = {"thread", "replacement", "id", "nodes", "changed"}
    BY <1>2 DEF NoWriter
  <2>5. Writing(t)'
    BY <2>2, <2>3 DEF Writing
  <2>6. WritersOK'
    BY <2>1, <2>2, <2>5 DEF WritersOK
  <2> QED
    BY <1>1, <2>6, NothingDisturbs DEF ZInv
<1>3. CASE writer' = writer /\ at' = [at EXCEPT ![t] = "asleep"]
  <2>1. DOMAIN at' = Writers /\ \A u \in Writers : at'[u] \in {"setup", "in"} => at'[u] = at[u]
    BY <1>3 DEF ZInv, WritersOK
  <2>2. WritersOK'
    BY <1>1, <1>3, <2>1 DEF ZInv, WritersOK, Writing, Newest
  <2> QED
    BY <1>1, <2>2, NothingDisturbs DEF ZInv
<1> QED
  BY <1>2, <1>3 DEF AskWriter, Goes

LEMMA SettingUpKeeps ==
    ASSUME ZInv, NEW t \in Writers, SetUpVersion(t)
    PROVE  ZInv' /\ Undisturbed
<1> DEFINE nodes == IF writer.replacement THEN NoNodes ELSE Newest.nodes
           id == Newest.id + 1
<1>1. UNCHANGED <<heap, versions, reading>> /\ at[t] = "setup" /\ Writing(t)
  BY DEF SetUpVersion, ZInv, WritersOK
<1>2. /\ writer' = [writer EXCEPT !.id = id, !.nodes = nodes]
      /\ at' = [at EXCEPT ![t] = "in"]
  BY DEF SetUpVersion, Goes
<1>3. Newest \in Range(versions) /\ Newest.id \in Nat
  BY NewestIsNewest DEF ZInv, VersionsOK, Newest
<1>4. NodesFit(nodes, heap, id)
  <2>1. NodesFit(NoNodes, heap, id)
    BY DEF NodesFit, NoNodes
  <2>2. NodesFit(Newest.nodes, heap, Newest.id)
    BY <1>3 DEF ZInv, VersionsOK
  <2>3. NodesFit(Newest.nodes, heap, id)
    BY <1>3, <2>2 DEF NodesFit
  <2> QED
    BY <2>1, <2>3
<1> HIDE DEF nodes
<1>5. /\ writer'.thread = t /\ writer'.changed = {} /\ writer'.id = id /\ writer'.nodes = nodes
      /\ DOMAIN writer' = {"thread", "replacement", "id", "nodes", "changed"}
  BY <1>1, <1>2 DEF Writing
<1>7. at'[t] = "in" /\ DOMAIN at' = Writers /\ \A u \in Writers : u # t => at'[u] = at[u]
  BY <1>2 DEF ZInv, WritersOK
<1>8. OwnsChanged(writer, writer.id)'
  BY <1>5 DEF OwnsChanged
<1>9. Writing(t)'
  BY <1>1, <1>4, <1>5, <1>7, <1>8 DEF Writing, Newest
<1>10. WritersOK'
  BY <1>1, <1>7, <1>9 DEF ZInv, WritersOK, Writing
<1> QED
  BY <1>1, <1>10, NothingDisturbs DEF ZInv

-----------------------------------------------------------------------------
(* Steps of an open writer.                                                *)

LEMMA WorkingFits ==
    ASSUME ZInv, NEW t \in Writers, at[t] = "in"
    PROVE  Writing(t) /\ Newest.id + 1 \in Nat /\ Fits(Working, heap, Newest.id + 1)
<1>1. Writing(t) /\ Newest.id + 1 \in Nat
  BY NewestIsNewest DEF ZInv, WritersOK, VersionsOK, Newest
<1>2. /\ DOMAIN Working = Parts /\ Working.heap = heap /\ Working.id = writer.id
      /\ Working.nodes = writer.nodes /\ Working.changed = writer.changed
  BY DEF Working, Parts
<1>3. OwnsChanged(Working, writer.id)
  BY <1>1, <1>2 DEF Writing, OwnsChanged
<1> QED
  BY <1>1, <1>2, <1>3, HeapKeepsItself DEF Writing, Fits

LEMMA WorkKeeps ==
    ASSUME ZInv, NEW t \in Writers, NEW w, Fits(w, heap, Newest.id + 1), Work(t, w)
    PROVE  ZInv' /\ Undisturbed
<1> DEFINE id == Newest.id + 1
<1>1. at[t] = "in" /\ Writing(t) /\ Keeps(w.heap, heap, id) /\ w.id = id
  BY DEF Work, ZInv, WritersOK, Fits
<1>2. UNCHANGED <<versions, reading, at>>
  BY DEF Work
<1>3. heap' = Collected(w.heap, versions', reading', {w})
  BY <1>2 DEF Work
<1>4. \A r \in Readers : reading[r] # None /\ reading'[r] # None =>
        /\ reading'[r] = reading[r]
        /\ \A v \in Range(versions) : v.id >= reading[r].id => v \in Range(versions')
  BY <1>2
<1>5. Undisturbed
  BY <1>1, <1>3, <1>4, ReadersUndisturbed
<1>6. Aging(versions') /\ Range(versions') = Range(versions)
  BY <1>2 DEF ZInv, VersionsOK
<1>7. VersionsOK'
  BY <1>1, <1>3, <1>6, VersionsStayOK DEF ZInv
<1>8. /\ writer'.thread = t /\ writer'.id = writer.id
      /\ writer'.nodes = w.nodes /\ writer'.changed = w.changed
      /\ DOMAIN writer' = {"thread", "replacement", "id", "nodes", "changed"}
  BY <1>1 DEF Work, Writing
<1>9. ASSUME NEW name \in DOMAIN w.nodes
      PROVE  /\ w.nodes[name] \in DOMAIN heap' /\ w.nodes[name][1] \in Nat /\ w.nodes[name][1] <= id
             /\ w.nodes[name][2] = name
  <2>1. /\ w.nodes[name] \in DOMAIN w.heap /\ w.nodes[name][1] \in Nat /\ w.nodes[name][1] <= id
        /\ w.nodes[name][2] = name
    BY DEF Fits, NodesFit
  <2>2. w \in Range(versions') \cup {w}
    OBVIOUS
  <2>3. Agree(heap', w.heap, w.nodes[name])
    BY <1>3, <2>1, <2>2, CollectedKeeps
  <2> QED
    BY <2>1, <2>3 DEF Agree
<1>10. writer.id = id
  BY <1>1 DEF Writing
<1>11. NodesFit(writer'.nodes, heap', id)
  BY <1>8, <1>9 DEF NodesFit
<1>12. OwnsChanged(writer', id)
  BY <1>8 DEF Fits, OwnsChanged
<1>13. OwnsChanged(writer, writer.id)'
  BY <1>8, <1>10, <1>12 DEF OwnsChanged
<1>14. Writing(t)'
  BY <1>1, <1>2, <1>8, <1>10, <1>11, <1>13 DEF Writing, Newest
<1>15. WritersOK'
  <2>1. \A u \in Writers : at[u] \in {"setup", "in"} => u = t
    BY <1>1 DEF ZInv, WritersOK, Writing
  <2> QED
    BY <1>2, <1>14, <2>1 DEF ZInv, WritersOK
<1>16. ReadersOK'
  BY <1>2 DEF ZInv, ReadersOK
<1> QED
  BY <1>5, <1>7, <1>15, <1>16 DEF ZInv

(* What is pruned, after a commit or not.                                  *)
LEMMA VersionsAfter ==
    ASSUME ReadersOK, VersionsOK, NEW vs, Aging(vs), Range(versions) \subseteq Range(vs), NEW rs, NEW keep,
           DOMAIN rs = Readers, \A r \in Readers : rs[r] # None => rs[r] \in Range(versions),
           versions' = Pruned(vs, rs, keep), reading' = rs
    PROVE  /\ Aging(versions') /\ Last(versions') = Last(vs) /\ Range(versions') \subseteq Range(vs)
           /\ ReadersOK'
           /\ \A r \in Readers : rs[r] # None =>
                 \A v \in Range(versions) : v.id >= rs[r].id => v \in Range(versions')
<1>1. Range(rs) = {rs[r] : r \in Readers}
  BY DEF Range
<1>2. \A x \in Range(rs) : x # None => x \in Range(vs)
  BY <1>1
<1>3. /\ Aging(versions') /\ Last(versions') = Last(vs) /\ Range(versions') \subseteq Range(vs)
      /\ \A x \in Range(rs), v \in Range(vs) : x # None /\ v.id >= x.id => v \in Range(versions')
  BY <1>2, PruningKeeps
<1>4. \A r \in Readers : rs[r] # None =>
         \A v \in Range(versions) : v.id >= rs[r].id => v \in Range(versions')
  BY <1>1, <1>3
<1>5. \A v \in Range(versions) : v.id >= v.id
  BY NewestIsNewest DEF VersionsOK
<1>6. ReadersOK'
  BY <1>4, <1>5 DEF ReadersOK
<1> QED
  BY <1>3, <1>4, <1>6

LEMMA EndingKeeps ==
    ASSUME ZInv, NEW t \in Writers, NEW commit, NEW w, Fits(w, heap, Newest.id + 1), End(t, commit, w)
    PROVE  ZInv' /\ Undisturbed
<1> DEFINE id == Newest.id + 1
           made == [id |-> w.id, nodes |-> w.nodes]
           more == Append(versions, made)
<1>1. /\ at[t] = "in" /\ Writing(t) /\ Keeps(w.heap, heap, id) /\ w.id = id
      /\ VersionsOK /\ ReadersOK
  BY DEF End, ZInv, WritersOK, Fits
<1>2. heap' = Collected(w.heap, versions', reading', {}) /\ reading' = reading
  BY DEF End
<1>3. /\ Aging(versions') /\ ReadersOK'
      /\ \A v \in Range(versions') : v \in Range(versions) \/ v = made
      /\ \A r \in Readers : reading[r] # None =>
            \A v \in Range(versions) : v.id >= reading[r].id => v \in Range(versions')
  <2>1. CASE versions' = versions
    BY <1>1, <1>2, <2>1 DEF VersionsOK, ReadersOK
  <2>2. CASE versions' = Pruned(more, reading, policy)
    <3>1. made.id = Last(versions).id + 1
      BY <1>1 DEF Newest
    <3>2. Aging(more) /\ Range(more) = Range(versions) \cup {made}
      BY <1>1, <3>1, AppendingAges DEF VersionsOK
    <3>3. DOMAIN reading = Readers /\ \A r \in Readers : reading[r] # None => reading[r] \in Range(versions)
      BY <1>1 DEF ReadersOK
    <3> HIDE DEF more, made
    <3>4. Range(versions) \subseteq Range(more)
      BY <3>2
    <3>5. /\ Aging(versions') /\ Range(versions') \subseteq Range(more) /\ ReadersOK'
          /\ \A r \in Readers : reading[r] # None =>
                \A v \in Range(versions) : v.id >= reading[r].id => v \in Range(versions')
      BY <1>1, <1>2, <2>2, <3>2, <3>3, <3>4, VersionsAfter
    <3> QED
      BY <3>2, <3>5
  <2> QED
    BY <2>1, <2>2 DEF End
<1>4. Undisturbed
  BY <1>1, <1>2, <1>3, ReadersUndisturbed
<1>5. NodesFit(made.nodes, w.heap, made.id)
  BY <1>1 DEF Fits
<1> HIDE DEF made
<1>6. \A v \in Range(versions') : v \in Range(versions) \/ NodesFit(v.nodes, w.heap, v.id)
  BY <1>3, <1>5
<1>7. VersionsOK'
  BY <1>1, <1>2, <1>3, <1>6, VersionsStayOK
<1>8. DOMAIN at' = Writers /\ \A u \in Writers : at'[u] \in {"setup", "in"} => u # t /\ at'[u] = at[u]
  <2>1. \/ at' = [at EXCEPT ![t] = "out", ![Head(waiters)] = "ask"]
        \/ at' = [at EXCEPT ![t] = "out"]
    BY DEF End, EndWrite, Goes
  <2> QED
    BY <2>1 DEF ZInv, WritersOK
<1>9. \A u \in Writers : at'[u] \notin {"setup", "in"}
  BY <1>1, <1>8 DEF ZInv, WritersOK, Writing
<1> QED
  BY <1>3, <1>4, <1>7, <1>8, <1>9 DEF ZInv, WritersOK

-----------------------------------------------------------------------------
(* Readers.                                                                *)

LEMMA OpeningKeeps ==
    ASSUME ZInv, NEW r \in Readers, OpenReader(r)
    PROVE  ZInv' /\ Undisturbed
<1>1. PICK v \in Range(versions) : reading' = [reading EXCEPT ![r] = v]
  BY DEF OpenReader
<1>2. reading[r] = None /\ UNCHANGED <<heap, versions, writer, at>>
  BY DEF OpenReader
<1>3. DOMAIN reading' = Readers /\ reading'[r] = v /\ \A q \in Readers : q # r => reading'[q] = reading[q]
  BY <1>1 DEF ZInv, ReadersOK
<1>4. ReadersOK'
  BY <1>2, <1>3 DEF ZInv, ReadersOK
<1>5. VersionsOK' /\ WritersOK'
  BY <1>2 DEF ZInv, VersionsOK, WritersOK, Writing, Newest
<1>6. Undisturbed
  BY <1>2, <1>3 DEF Undisturbed
<1> QED
  BY <1>4, <1>5, <1>6 DEF ZInv

LEMMA PruningIsUnseen ==
    ASSUME ZInv, NEW rs, NEW keep, PrunesTo(rs, keep), DOMAIN rs = Readers,
           \A r \in Readers : rs[r] # None => rs[r] = reading[r]
    PROVE  ZInv' /\ Undisturbed
<1>1. /\ reading' = rs /\ versions' = Pruned(versions, rs, keep)
      /\ heap' = Collected(heap, versions', reading', {writer}) /\ UNCHANGED <<writer, at>>
  BY DEF PrunesTo
<1>2. VersionsOK /\ ReadersOK /\ Aging(versions)
  BY DEF ZInv, VersionsOK
<1>3. \A r \in Readers : rs[r] # None => rs[r] \in Range(versions)
  BY <1>2 DEF ReadersOK
<1>4. /\ Aging(versions') /\ Last(versions') = Last(versions)
      /\ Range(versions') \subseteq Range(versions) /\ ReadersOK'
      /\ \A r \in Readers : rs[r] # None =>
            \A v \in Range(versions) : v.id >= rs[r].id => v \in Range(versions')
  BY <1>1, <1>2, <1>3, VersionsAfter
<1>5. Undisturbed
  <2>1. \A r \in Readers : reading[r] # None /\ reading'[r] # None =>
           /\ reading'[r] = reading[r]
           /\ \A v \in Range(versions) : v.id >= reading[r].id => v \in Range(versions')
    BY <1>1, <1>4
  <2> QED
    BY <1>1, <2>1, HeapKeepsItself, ReadersUndisturbed
<1>6. VersionsOK'
  BY <1>1, <1>2, <1>4, HeapKeepsItself, VersionsStayOK
<1>7. ASSUME NEW u \in Writers, at'[u] \in {"setup", "in"} PROVE Writing(u)'
  <2>1. Writing(u)
    BY <1>1, <1>7 DEF ZInv, WritersOK
  <2>2. CASE at[u] = "in"
    <3>1. NodesFit(writer.nodes, heap, writer.id)
      BY <2>1, <2>2 DEF Writing
    <3>2. ASSUME NEW name \in DOMAIN writer.nodes
          PROVE  writer.nodes[name] \in DOMAIN heap'
      <4>1. writer.nodes[name] \in DOMAIN heap /\ writer \in Range(versions') \cup {writer}
        BY <3>1 DEF NodesFit
      <4>2. Agree(heap', heap, writer.nodes[name])
        BY <1>1, <4>1, CollectedKeeps
      <4> QED
        BY <4>2 DEF Agree
    <3>3. NodesFit(writer'.nodes, heap', writer'.id)
      BY <1>1, <3>1, <3>2 DEF NodesFit
    <3> QED
      BY <1>1, <1>4, <2>1, <2>2, <3>3 DEF Writing, Newest, OwnsChanged
  <2>3. CASE at[u] = "setup"
    BY <1>1, <2>1, <2>3 DEF Writing
  <2> QED
    BY <1>1, <1>7, <2>2, <2>3
<1>8. WritersOK'
  BY <1>1, <1>7 DEF ZInv, WritersOK
<1> QED
  BY <1>4, <1>5, <1>6, <1>8 DEF ZInv

LEMMA ReadersKeep ==
    ASSUME ZInv, ReadersAct \/ \E keep \in Policies : SetPolicy(keep)
    PROVE  ZInv' /\ Undisturbed
<1>1. CASE \E r \in Readers : OpenReader(r)
  BY <1>1, OpeningKeeps
<1>2. CASE \E r \in Readers : CloseReader(r)
  <2>1. PICK r \in Readers : CloseReader(r)
    BY <1>2
  <2> DEFINE rs == [reading EXCEPT ![r] = None]
  <2>2. DOMAIN rs = Readers /\ \A q \in Readers : rs[q] # None => rs[q] = reading[q]
    BY DEF ZInv, ReadersOK
  <2>3. PrunesTo(rs, policy)
    BY <2>1 DEF CloseReader
  <2> HIDE DEF rs
  <2> QED
    BY <2>2, <2>3, PruningIsUnseen
<1>3. CASE \E keep \in Policies : SetPolicy(keep)
  <2>1. PICK keep \in Policies : PrunesTo(reading, keep)
    BY <1>3 DEF SetPolicy
  <2>2. DOMAIN reading = Readers
    BY DEF ZInv, ReadersOK
  <2> QED
    BY <2>1, <2>2, PruningIsUnseen
<1> QED
  BY <1>1, <1>2, <1>3 DEF ReadersAct

-----------------------------------------------------------------------------
(* Transfers and updates.                                                  *)

LEMMA StutterKeeps == ZInv /\ UNCHANGED zoneVars => ZInv' /\ Undisturbed
<1> SUFFICES ASSUME ZInv, UNCHANGED zoneVars PROVE ZInv' /\ Undisturbed
  OBVIOUS
<1>1. WritersOK'
  BY DEF ZInv, WritersOK, Writing, Newest, zoneVars
<1> QED
  BY <1>1, NothingDisturbs DEF ZInv, zoneVars

(* The writing steps of a transfer: what it writes was made by operations. *)
LEMMA RecordsKeep ==
    ASSUME ZInv, NEW t \in Writers,
           FirstRecord(t) \/ SoaRecord(t) \/ OtherRecord(t) \/ StreamEnds(t)
    PROVE  ZInv' /\ Undisturbed
<1> DEFINE id == Newest.id + 1
<1>1. at[t] = "in"
  BY DEF FirstRecord, SoaRecord, OtherRecord, StreamEnds, Read
<1>2. Fits(Working, heap, id) /\ id \in Nat
  BY <1>1, WorkingFits
<1>3. ASSUME NEW commit, End(t, commit, Working) PROVE ZInv' /\ Undisturbed
  BY <1>2, <1>3, EndingKeeps
<1>4. CASE Fail(t)
  BY <1>3, <1>4 DEF Fail
<1>5. CASE UNCHANGED zoneVars
  BY <1>5, StutterKeeps
<1>6. CASE FirstRecord(t)
  BY <1>3, <1>4, <1>5, <1>6 DEF FirstRecord
<1>7. CASE SoaRecord(t)
  <2>1. \/ Fail(t) \/ UNCHANGED zoneVars
        \/ \E name, set : LET w == Replace(Working, name, "SOA", set, FALSE)
                          IN  Work(t, w) \/ End(t, TRUE, w)
    BY <1>7 DEF SoaRecord
  <2>2. ASSUME NEW name, NEW set, NEW w, w = Replace(Working, name, "SOA", set, FALSE),
               Work(t, w) \/ End(t, TRUE, w)
        PROVE  ZInv' /\ Undisturbed
    <3>1. Fits(w, heap, id)
      BY <1>2, <2>2, ReplaceFits
    <3> QED
      BY <2>2, <3>1, WorkKeeps, EndingKeeps
  <2> QED
    BY <1>4, <1>5, <2>1, <2>2
<1>8. CASE OtherRecord(t)
  <2>1. \/ Fail(t) \/ End(t, FALSE, Working)
        \/ \E name, type, set :
              \/ Work(t, Delete(Working, name, type, set, TRUE))
              \/ Work(t, Add(Working, name, type, set, FALSE))
    BY <1>8 DEF OtherRecord
  <2>2. ASSUME NEW name, NEW type, NEW set, NEW w, Work(t, w),
               \/ w = Delete(Working, name, type, set, TRUE)
               \/ w = Add(Working, name, type, set, FALSE)
        PROVE  ZInv' /\ Undisturbed
    <3>1. Fits(w, heap, id)
      BY <1>2, <2>2, DeleteFits, AddFits
    <3> QED
      BY <2>2, <3>1, WorkKeeps
  <2> QED
    BY <1>3, <1>4, <2>1, <2>2
<1>9. CASE StreamEnds(t)
  BY <1>4, <1>9 DEF StreamEnds
<1> QED
  BY <1>6, <1>7, <1>8, <1>9

LEMMA TransfersKeep ==
    ASSUME ZInv, NEW t \in Writers, TransferActs(t)
    PROVE  ZInv' /\ Undisturbed
<1>1. CASE Begin(t) \/ Unanswered(t)
  BY <1>1, StutterKeeps, Zenon DEF Begin, Unanswered
<1>2. CASE TransferAsks(t)
  BY <1>2, AskingKeeps DEF TransferAsks
<1>3. CASE TransferSetsUp(t)
  BY <1>3, SettingUpKeeps DEF TransferSetsUp
<1>4. CASE FirstMessage(t) \/ AskAgain(t)
  BY <1>4, WantingKeeps DEF FirstMessage, AskAgain
<1> QED
  BY <1>1, <1>2, <1>3, <1>4, RecordsKeep DEF TransferActs

LEMMA UpdatesKeep ==
    ASSUME ZInv, NEW t \in Writers, WantsToUpdate(t) \/ Updates(t)
    PROVE  ZInv' /\ Undisturbed
<1>1. CASE WantsToUpdate(t)
  BY <1>1, WantingKeeps DEF WantsToUpdate
<1>2. CASE UpdaterStarts(t)
  BY <1>2, AskingKeeps, SettingUpKeeps DEF UpdaterStarts
<1>3. CASE Update(t)
  <2>1. at[t] = "in"
    BY <1>3 DEF Update
  <2>2. Fits(Working, heap, Newest.id + 1) /\ Newest.id + 1 \in Nat
    BY <2>1, WorkingFits
  <2>3. PICK o \in Operations :
           \/ Work(t, Apply(Working, o)) \/ End(t, FALSE, Working)
    BY <1>3 DEF Update
  <2>4. Fits(Apply(Working, o), heap, Newest.id + 1)
    BY <2>2, ApplyFits
  <2> QED
    BY <2>2, <2>3, <2>4, WorkKeeps, EndingKeeps
<1>4. CASE EndUpdate(t)
  <2>1. PICK commit \in BOOLEAN : End(t, commit, Working)
    BY <1>4 DEF EndUpdate
  <2>2. at[t] = "in"
    BY <2>1 DEF End
  <2>3. Fits(Working, heap, Newest.id + 1)
    BY <2>2, WorkingFits
  <2> QED
    BY <2>1, <2>3, EndingKeeps
<1> QED
  BY <1>1, <1>2, <1>3, <1>4 DEF Updates

-----------------------------------------------------------------------------

LEMMA ZoneStarts == Init => ZInv
<1> SUFFICES ASSUME Init PROVE ZInv
  OBVIOUS
<1> DEFINE first == [id |-> 1, nodes |-> NoNodes]
<1>1. versions = <<first>> /\ at = [w \in Writers |-> "out"] /\ reading = [r \in Readers |-> None]
  BY DEF Init, VersionedInit
<1> HIDE DEF first
<1>2. versions \in Seq({first}) /\ Len(versions) = 1 /\ versions[1] = first
  BY <1>1
<1>3. Range(versions) = {versions[i] : i \in 1 .. Len(versions)} /\ versions \in Seq(Range(versions))
  BY <1>2, RangeIs
<1>4. \A i \in 1 .. Len(versions) : i = 1
  BY <1>2
<1>5. first.id = 1 /\ first.nodes = NoNodes
  BY DEF first
<1>6. Aging(versions)
  BY <1>2, <1>3, <1>4, <1>5 DEF Aging
<1>7. NodesFit(first.nodes, heap, first.id)
  BY <1>5 DEF NodesFit, NoNodes
<1>8. VersionsOK
  BY <1>2, <1>3, <1>4, <1>6, <1>7 DEF VersionsOK
<1> QED
  BY <1>1, <1>8 DEF ZInv, ReadersOK, WritersOK

LEMMA ZoneStep == ZInv /\ [Next]_vars => ZInv' /\ Undisturbed
<1> SUFFICES ASSUME ZInv, [Next]_vars PROVE ZInv' /\ Undisturbed
  OBVIOUS
<1>1. Updaters \subseteq Writers /\ Secondaries \subseteq Writers
  BY ZoneAssumption
<1>2. CASE \E t \in Updaters : WantsToUpdate(t) \/ Updates(t)
  BY <1>1, <1>2, UpdatesKeep
<1>3. CASE \E t \in Secondaries : TransferActs(t)
  BY <1>1, <1>3, TransfersKeep
<1>4. CASE ReadersAct \/ \E keep \in Policies : SetPolicy(keep)
  BY <1>4, ReadersKeep
<1>5. CASE UNCHANGED zoneVars
  BY <1>5, StutterKeeps
<1> QED
  BY <1>2, <1>3, <1>4, <1>5 DEF Next, ServerAdvances, vars

(* Whatever writers, transfers and changes of the policy do beside it, a   *)
(* reader sees the version it opened: that version and all newer ones are  *)
(* kept while it is open, and the objects it shares with them unchanged.   *)
THEOREM ReadersAreIsolated == Spec => ReadersSeeOneVersion
<1>1. ZInv /\ [Next]_vars => [\A r \in Readers : reading[r] # None /\ reading'[r] # None =>
          /\ \A v \in Range(versions) : v.id >= reading[r].id => v \in Range(versions')
          /\ Content(heap', reading'[r].nodes) = Content(heap, reading[r].nodes)]_zoneVars
  BY ZoneStep DEF Undisturbed
<1>2. ZInv /\ [Next]_vars => ZInv'
  BY ZoneStep
<1> QED
  BY <1>1, <1>2, ZoneStarts, PTL DEF Spec, ReadersSeeOneVersion

-----------------------------------------------------------------------------
(* The caches of the stub resolver: the ring of an LRUCache.                 *)

(* No key is used after itself.                                              *)
Orders(after, keys) == keys \subseteq DOMAIN after /\ \A k \in keys : k \notin after[k]

(* What is before a node of the ring, and what is before the next one.       *)
BeforeIn(keys, after, k)  == IF k = Sentinel THEN keys ELSE after[k] \cap keys
ThroughIn(keys, after, k) == IF k = Sentinel THEN {} ELSE (after[k] \cap keys) \cup {k}

LEMMA RingedIs ==
    ASSUME NEW next, NEW prev, NEW keys, NEW after
    PROVE  Ringed(next, prev, keys, after) <=>
             /\ next \in [keys \cup {Sentinel} -> keys \cup {Sentinel}]
             /\ prev \in [keys \cup {Sentinel} -> keys \cup {Sentinel}]
             /\ \A k \in keys \cup {Sentinel} :
                  /\ prev[next[k]] = k /\ next[prev[k]] = k
                  /\ BeforeIn(keys, after, next[k]) = ThroughIn(keys, after, k)
BY DEF Ringed, BeforeIn, ThroughIn

(* A node that is unlinked leaves a ring of the others.                      *)
LEMMA RingUnlinked ==
    ASSUME NEW next, NEW prev, NEW keys, NEW after, NEW key \in keys, Sentinel \notin keys,
           Orders(after, keys), Ringed(next, prev, keys, after)
    PROVE  Ringed(Without([next EXCEPT ![prev[key]] = next[key]], {key}),
                  Without([prev EXCEPT ![next[key]] = prev[key]], {key}), keys \ {key}, after)
<1> DEFINE ring == keys \cup {Sentinel}
           rest == keys \ {key}
           left == rest \cup {Sentinel}
           n == Without([next EXCEPT ![prev[key]] = next[key]], {key})
           p == Without([prev EXCEPT ![next[key]] = prev[key]], {key})
<1>1. /\ next \in [ring -> ring] /\ prev \in [ring -> ring]
      /\ \A k \in ring : /\ prev[next[k]] = k /\ next[prev[k]] = k
                         /\ BeforeIn(keys, after, next[k]) = ThroughIn(keys, after, k)
  BY RingedIs
<1>2. key \notin after[key] /\ key # Sentinel /\ left = ring \ {key}
  BY DEF Orders
<1>3. next[key] # key /\ prev[key] # key
  <2>1. ASSUME next[key] = key PROVE FALSE
    <3>1. BeforeIn(keys, after, key) = ThroughIn(keys, after, key)
      BY <1>1, <2>1
    <3> QED
      BY <1>2, <3>1 DEF BeforeIn, ThroughIn
  <2>2. next[prev[key]] = key
    BY <1>1
  <2> QED
    BY <2>1, <2>2
<1>4. next[key] \in left /\ prev[key] \in left
  BY <1>1, <1>2, <1>3
<1>5. /\ DOMAIN n = left /\ DOMAIN p = left
      /\ \A k \in left : n[k] = IF k = prev[key] THEN next[key] ELSE next[k]
      /\ \A k \in left : p[k] = IF k = next[key] THEN prev[key] ELSE prev[k]
  BY <1>1, <1>2, <1>4 DEF Without, Restrict
<1>6. \A k \in left : k # prev[key] => next[k] \in left
  BY <1>1, <1>2
<1>7. \A k \in left : k # next[key] => prev[k] \in left
  BY <1>1, <1>2
<1>8. n = [k \in left |-> n[k]] /\ p = [k \in left |-> p[k]]
  BY <1>5 DEF Without, Restrict
<1>9. \A k \in left : n[k] \in left /\ p[k] \in left
  BY <1>4, <1>5, <1>6, <1>7
<1>10. n \in [left -> left] /\ p \in [left -> left]
  BY <1>8, <1>9
<1> SUFFICES Ringed(n, p, rest, after)
  OBVIOUS
<1> HIDE DEF n, p
<1>11. ASSUME NEW k \in left PROVE p[n[k]] = k /\ n[p[k]] = k
  <2>1. ASSUME k = prev[key] PROVE p[n[k]] = k
    BY <1>1, <1>4, <1>5, <2>1
  <2>2. ASSUME k # prev[key] PROVE p[n[k]] = k
    <3>1. n[k] = next[k] /\ next[k] \in left /\ next[k] # next[key] /\ prev[next[k]] = k
      BY <1>1, <1>2, <1>5, <1>6, <2>2
    <3>2. \A x \in left : x # next[key] => p[x] = prev[x]
      BY <1>5
    <3>3. p[next[k]] = prev[next[k]]
      BY <3>1, <3>2
    <3> QED
      BY <3>1, <3>3
  <2>3. p[n[k]] = k
    BY <2>1, <2>2
  <2>4. ASSUME k = next[key] PROVE n[p[k]] = k
    BY <1>1, <1>4, <1>5, <2>4
  <2>5. ASSUME k # next[key] PROVE n[p[k]] = k
    <3>1. p[k] = prev[k] /\ prev[k] \in left /\ prev[k] # prev[key] /\ next[prev[k]] = k
      BY <1>1, <1>2, <1>5, <1>7, <2>5
    <3>2. \A x \in left : x # prev[key] => n[x] = next[x]
      BY <1>5
    <3>3. n[prev[k]] = next[prev[k]]
      BY <3>1, <3>2
    <3> QED
      BY <3>1, <3>3
  <2> QED
    BY <2>3, <2>4, <2>5
<1>12. ASSUME NEW k \in left
       PROVE  /\ BeforeIn(rest, after, k) = BeforeIn(keys, after, k) \ {key}
              /\ ThroughIn(rest, after, k) = ThroughIn(keys, after, k) \ {key}
  BY <1>2 DEF BeforeIn, ThroughIn
<1>13. ASSUME NEW k \in left
       PROVE  BeforeIn(rest, after, n[k]) = ThroughIn(rest, after, k)
  <2>1. CASE k # prev[key]
    <3>1. n[k] = next[k] /\ next[k] \in left /\ BeforeIn(keys, after, next[k]) = ThroughIn(keys, after, k)
      BY <1>1, <1>5, <1>6, <2>1
    <3>2. /\ BeforeIn(rest, after, next[k]) = BeforeIn(keys, after, next[k]) \ {key}
          /\ ThroughIn(rest, after, k) = ThroughIn(keys, after, k) \ {key}
      BY <1>12, <3>1
    <3> QED
      BY <3>1, <3>2
  <2>2. CASE k = prev[key]
    <3>1. BeforeIn(keys, after, next[key]) = ThroughIn(keys, after, key)
      BY <1>1
    <3>2. BeforeIn(keys, after, key) = ThroughIn(keys, after, k)
      BY <1>1, <1>4, <2>2
    <3>3. ThroughIn(keys, after, key) \ {key} = BeforeIn(keys, after, key) \ {key}
      BY <1>2 DEF BeforeIn, ThroughIn
    <3>4. n[k] = next[key]
      BY <1>5, <2>2
    <3>5. BeforeIn(rest, after, next[key]) = BeforeIn(keys, after, next[key]) \ {key}
      BY <1>4, <1>12
    <3>6. ThroughIn(rest, after, k) = ThroughIn(keys, after, k) \ {key}
      BY <1>12
    <3> QED
      BY <3>1, <3>2, <3>3, <3>4, <3>5, <3>6
  <2> QED
    BY <2>1, <2>2
<1> HIDE DEF rest
<1> QED
  BY <1>10, <1>11, <1>13, RingedIs

(* A new node that is linked after the sentinel makes a ring, in which all   *)
(* the others were used before it.                                           *)
LEMMA RingLinked ==
    ASSUME NEW next, NEW prev, NEW keys, NEW after, NEW later, NEW key, key \notin keys, key # Sentinel,
           Sentinel \notin keys, Ringed(next, prev, keys, after),
           later[key] \cap (keys \cup {key}) = {},
           \A k \in keys : later[k] \cap (keys \cup {key}) = (after[k] \cap keys) \cup {key}
    PROVE  Ringed(With(With(next, key, next[Sentinel]), Sentinel, key),
                  With(With(prev, key, Sentinel), next[Sentinel], key), keys \cup {key}, later)
<1> DEFINE ring == keys \cup {Sentinel}
           all == keys \cup {key}
           wide == all \cup {Sentinel}
           first == next[Sentinel]
           n == With(With(next, key, first), Sentinel, key)
           p == With(With(prev, key, Sentinel), first, key)
<1>1. /\ next \in [ring -> ring] /\ prev \in [ring -> ring]
      /\ \A k \in ring : /\ prev[next[k]] = k /\ next[prev[k]] = k
                         /\ BeforeIn(keys, after, next[k]) = ThroughIn(keys, after, k)
  BY RingedIs
<1>2. first \in ring /\ first # key
  BY <1>1
<1>3. /\ DOMAIN n = wide /\ DOMAIN p = wide
      /\ n = [k \in wide |-> n[k]] /\ p = [k \in wide |-> p[k]]
      /\ \A k \in wide : n[k] = IF k = Sentinel THEN key ELSE IF k = key THEN first ELSE next[k]
      /\ \A k \in wide : p[k] = IF k = first THEN key ELSE IF k = key THEN Sentinel ELSE prev[k]
  BY <1>1, <1>2 DEF With
<1>4. \A k \in wide : n[k] \in wide /\ p[k] \in wide
  BY <1>1, <1>2, <1>3
<1>5. n \in [wide -> wide] /\ p \in [wide -> wide]
  BY <1>3, <1>4
<1> SUFFICES Ringed(n, p, all, later)
  OBVIOUS
<1> HIDE DEF n, p
<1>6. ASSUME NEW k \in wide PROVE p[n[k]] = k /\ n[p[k]] = k
  <2>1. CASE k = Sentinel
    <3>1. n[k] = key /\ p[key] = k
      BY <1>2, <1>3, <2>1
    <3>2. CASE first = Sentinel
      BY <1>3, <2>1, <3>1, <3>2
    <3>3. CASE first # Sentinel
      <4>1. prev[Sentinel] \in ring /\ next[prev[Sentinel]] = Sentinel /\ prev[Sentinel] # Sentinel
        BY <1>1, <3>3
      <4>2. p[k] = prev[Sentinel] /\ prev[Sentinel] # key /\ prev[Sentinel] \in wide
        BY <1>3, <2>1, <3>3, <4>1
      <4>3. \A x \in wide : x # Sentinel /\ x # key => n[x] = next[x]
        BY <1>3
      <4>4. n[prev[Sentinel]] = next[prev[Sentinel]]
        BY <4>1, <4>2, <4>3
      <4> QED
        BY <2>1, <3>1, <4>1, <4>2, <4>4
    <3> QED
      BY <3>2, <3>3
  <2>2. CASE k = key
    BY <1>1, <1>2, <1>3, <2>2
  <2>3. CASE k \in keys
    <3>1. n[k] = next[k] /\ next[k] \in ring /\ prev[next[k]] = k /\ next[k] # first
      <4>1. n[k] = next[k]
        BY <1>3, <2>3
      <4>2. next[k] \in ring /\ prev[next[k]] = k /\ prev[first] = Sentinel
        BY <1>1, <2>3
      <4>3. next[k] # first
        BY <2>3, <4>2
      <4> QED
        BY <4>1, <4>2, <4>3
    <3>2. next[k] # key /\ next[k] \in wide
      BY <3>1
    <3>3. p[n[k]] = k
      BY <1>3, <3>1, <3>2
    <3>4. CASE k = first
      BY <1>2, <1>3, <3>3, <3>4
    <3>5. CASE k # first
      <4>1. p[k] = prev[k] /\ prev[k] \in ring /\ next[prev[k]] = k /\ prev[k] # Sentinel
        BY <1>1, <1>3, <2>3, <3>5
      <4>2. prev[k] # key /\ prev[k] \in wide
        BY <4>1
      <4> QED
        BY <1>3, <3>3, <4>1, <4>2
    <3> QED
      BY <3>4, <3>5
  <2> QED
    BY <2>1, <2>2, <2>3
<1>7. \A k \in keys : BeforeIn(all, later, k) = BeforeIn(keys, after, k) \cup {key}
  BY DEF BeforeIn
<1>8. \A k \in keys : ThroughIn(all, later, k) = ThroughIn(keys, after, k) \cup {key}
  BY DEF ThroughIn
<1>9. /\ BeforeIn(all, later, Sentinel) = BeforeIn(keys, after, Sentinel) \cup {key}
      /\ BeforeIn(all, later, key) = {} /\ ThroughIn(all, later, Sentinel) = {}
      /\ ThroughIn(all, later, key) = {key} /\ ThroughIn(keys, after, Sentinel) = {}
  BY DEF BeforeIn, ThroughIn
<1>10. ASSUME NEW k \in wide
       PROVE  BeforeIn(all, later, n[k]) = ThroughIn(all, later, k)
  <2>1. CASE k = Sentinel
    BY <1>3, <1>9, <2>1
  <2>2. CASE k = key
    <3>1. n[k] = first /\ BeforeIn(keys, after, first) = {}
      BY <1>1, <1>3, <1>9, <2>2
    <3>2. BeforeIn(all, later, first) = BeforeIn(keys, after, first) \cup {key}
      BY <1>2, <1>7, <1>9
    <3> QED
      BY <1>9, <2>2, <3>1, <3>2
  <2>3. CASE k \in keys
    <3>1. n[k] = next[k] /\ next[k] \in ring /\ BeforeIn(keys, after, next[k]) = ThroughIn(keys, after, k)
      BY <1>1, <1>3, <2>3
    <3>2. BeforeIn(all, later, next[k]) = BeforeIn(keys, after, next[k]) \cup {key}
      BY <1>7, <1>9, <3>1
    <3> QED
      BY <1>8, <2>3, <3>1, <3>2
  <2> QED
    BY <2>1, <2>2, <2>3
<1> HIDE DEF all
<1> QED
  BY <1>5, <1>6, <1>10, RingedIs

-----------------------------------------------------------------------------
(* An LRUCache whose ring is in order.                                       *)
Record(c) ==
    [kind |-> c.kind, size |-> c.size, data |-> c.data, next |-> c.next, prev |-> c.prev, cleaning |-> c.cleaning]

InRing(c, after) ==
    /\ c = Record(c) /\ c.size \in Nat \ {0}
    /\ IsFiniteSet(DOMAIN c.data) /\ Sentinel \notin DOMAIN c.data
    /\ Orders(after, DOMAIN c.data) /\ Ringed(c.next, c.prev, DOMAIN c.data, after)

(* A cache with no other answers than another one, and of the same kind.     *)
Less(c, than) ==
    /\ c.kind = than.kind /\ DOMAIN c.data \subseteq DOMAIN than.data
    /\ \A k \in DOMAIN c.data : c.data[k] = than.data[k]

LEMMA DroppedIs ==
    ASSUME NEW c, NEW key, c = Record(c)
    PROVE  Dropped(c, key) =
             [kind |-> c.kind, size |-> c.size, data |-> Without(c.data, {key}),
              next |-> Without([c.next EXCEPT ![c.prev[key]] = c.next[key]], {key}),
              prev |-> Without([c.prev EXCEPT ![c.next[key]] = c.prev[key]], {key}), cleaning |-> c.cleaning]
<1>1. PICK kind, size, data, next, prev, cleaning :
        c = [kind |-> kind, size |-> size, data |-> data, next |-> next, prev |-> prev, cleaning |-> cleaning]
  BY DEF Record
<1>2. /\ c.kind = kind /\ c.size = size /\ c.data = data /\ c.next = next /\ c.prev = prev
      /\ c.cleaning = cleaning
  BY <1>1
<1> DEFINE n == Without([next EXCEPT ![prev[key]] = next[key]], {key})
           p == Without([prev EXCEPT ![next[key]] = prev[key]], {key})
           d == Without(data, {key})
<1>3. Unlinked(c, key) = [c EXCEPT !.prev = p, !.next = n]
  BY <1>2 DEF Unlinked
<1>4. Dropped(c, key) = [Unlinked(c, key) EXCEPT !.data = Without(@, {key})]
  BY DEF Dropped
<1> HIDE DEF n, p
<1>5. Unlinked(c, key) = [kind |-> kind, size |-> size, data |-> data, next |-> n, prev |-> p, cleaning |-> cleaning]
  BY <1>1, <1>3
<1>6. Dropped(c, key) = [kind |-> kind, size |-> size, data |-> d, next |-> n, prev |-> p, cleaning |-> cleaning]
  BY <1>4, <1>5
<1> QED
  BY <1>2, <1>6 DEF n, p

LEMMA WithoutIs ==
    ASSUME NEW f, NEW key
    PROVE  /\ DOMAIN Without(f, {key}) = DOMAIN f \ {key}
           /\ \A k \in DOMAIN f \ {key} : Without(f, {key})[k] = f[k]
BY DEF Without, Restrict

LEMMA WithIs ==
    ASSUME NEW f, NEW key, NEW value
    PROVE  /\ DOMAIN With(f, key, value) = DOMAIN f \cup {key} /\ With(f, key, value)[key] = value
           /\ \A k \in DOMAIN f : k # key => With(f, key, value)[k] = f[k]
BY DEF With

LEMMA DroppedRing ==
    ASSUME NEW c, NEW after, NEW key \in DOMAIN c.data, InRing(c, after)
    PROVE  /\ InRing(Dropped(c, key), after) /\ Less(Dropped(c, key), c)
           /\ DOMAIN Dropped(c, key).data = DOMAIN c.data \ {key} /\ Dropped(c, key).size = c.size
<1> DEFINE d == Dropped(c, key)
           keys == DOMAIN c.data
<1>1. /\ c = Record(c) /\ c.size \in Nat \ {0} /\ IsFiniteSet(keys) /\ Sentinel \notin keys
      /\ Orders(after, keys) /\ Ringed(c.next, c.prev, keys, after)
  BY DEF InRing
<1>2. d = [kind |-> c.kind, size |-> c.size, data |-> Without(c.data, {key}),
           next |-> Without([c.next EXCEPT ![c.prev[key]] = c.next[key]], {key}),
           prev |-> Without([c.prev EXCEPT ![c.next[key]] = c.prev[key]], {key}), cleaning |-> c.cleaning]
  BY <1>1, DroppedIs
<1> HIDE DEF d
<1>3. /\ d = Record(d) /\ d.size = c.size /\ d.kind = c.kind /\ d.data = Without(c.data, {key})
      /\ d.next = Without([c.next EXCEPT ![c.prev[key]] = c.next[key]], {key})
      /\ d.prev = Without([c.prev EXCEPT ![c.next[key]] = c.prev[key]], {key})
  BY <1>2 DEF Record
<1>4. DOMAIN d.data = keys \ {key} /\ \A k \in keys \ {key} : d.data[k] = c.data[k]
  <2>1. PICK f : f = c.data
    OBVIOUS
  <2>2. DOMAIN Without(f, {key}) = DOMAIN f \ {key} /\ \A k \in DOMAIN f \ {key} : Without(f, {key})[k] = f[k]
    BY WithoutIs
  <2>3. d.data = Without(f, {key})
    BY <1>3, <2>1
  <2> QED
    BY <2>1, <2>2, <2>3
<1>5. Ringed(d.next, d.prev, keys \ {key}, after)
  <2>1. Ringed(Without([c.next EXCEPT ![c.prev[key]] = c.next[key]], {key}),
               Without([c.prev EXCEPT ![c.next[key]] = c.prev[key]], {key}), keys \ {key}, after)
    BY <1>1, RingUnlinked
  <2> QED
    BY <1>3, <2>1
<1>6. IsFiniteSet(keys \ {key})
  BY <1>1, FS_Subset
<1>7. Orders(after, keys \ {key}) /\ Sentinel \notin keys \ {key}
  BY <1>1 DEF Orders
<1>8. InRing(d, after)
  BY <1>1, <1>3, <1>4, <1>5, <1>6, <1>7 DEF InRing
<1>9. Less(d, c)
  BY <1>3, <1>4 DEF Less
<1> QED
  BY <1>3, <1>4, <1>8, <1>9 DEF d

(* The last of the ring is a key, if there is one.                           *)
LEMMA LastIsKey ==
    ASSUME NEW c, NEW after, InRing(c, after), DOMAIN c.data # {}
    PROVE  c.prev[Sentinel] \in DOMAIN c.data
<1> DEFINE keys == DOMAIN c.data
           last == c.prev[Sentinel]
<1>1. /\ last \in keys \cup {Sentinel} /\ c.next[last] = Sentinel
      /\ BeforeIn(keys, after, c.next[last]) = ThroughIn(keys, after, last)
  BY RingedIs DEF InRing
<1>2. ASSUME last = Sentinel PROVE FALSE
  BY <1>1, <1>2 DEF BeforeIn, ThroughIn
<1> QED
  BY <1>1, <1>2

LEMMA LessTransitive ==
    ASSUME NEW a, NEW b, NEW c, Less(a, b), Less(b, c)
    PROVE  Less(a, c)
BY DEF Less

(* What holds of 0, and of the number after every one it holds of.           *)
LEMMA NoneFails ==
    ASSUME NEW T, T \subseteq Nat, 0 \notin T, \A i \in Nat : i \notin T => i + 1 \notin T
    PROVE  T = {}
<1> SUFFICES ASSUME T # {} PROVE FALSE
  OBVIOUS
<1> DEFINE R == OpToRel(<, Nat)
<1>1. IsWellFoundedOn(R, Nat)
  BY NatLessThanWellFounded
<1> HIDE DEF R
<1>2. \E m \in T : \A x \in T : ~(<<x, m>> \in R)
  BY <1>1, WFMin
<1>3. PICK m \in T : \A x \in T : ~(x < m)
  BY <1>2 DEF R, OpToRel
<1>4. m \in Nat \ {0} /\ m - 1 \in Nat /\ m - 1 < m /\ (m - 1) + 1 = m
  OBVIOUS
<1>5. m - 1 \notin T
  BY <1>3, <1>4
<1> QED
  BY <1>4, <1>5

(* What is left of a cache when so many nodes have gone.                     *)
Left(c, i, f) == f = [j \in 0..i |-> IF j = 0 THEN c ELSE Dropped(f[j - 1], f[j - 1].prev[Sentinel])]

LEMMA LeftExists ==
    ASSUME NEW c, NEW n \in Nat
    PROVE  \E f : Left(c, n, f)
<1> DEFINE Failing == {i \in Nat : ~\E f : Left(c, i, f)}
<1>1. 0 \notin Failing
  <2>1. Left(c, 0, [j \in 0..0 |-> c])
    BY DEF Left
  <2> QED
    BY <2>1
<1>2. ASSUME NEW i \in Nat, i \notin Failing PROVE i + 1 \notin Failing
  <2>1. PICK f : Left(c, i, f)
    BY <1>2
  <2> DEFINE step(x) == Dropped(x, x.prev[Sentinel])
             g == [j \in 0..(i + 1) |-> IF j <= i THEN f[j] ELSE step(f[i])]
  <2> HIDE DEF step
  <2>2. \A j \in 0..i : f[j] = IF j = 0 THEN c ELSE step(f[j - 1])
    BY <2>1 DEF Left, step
  <2>3. ASSUME NEW j \in 0..(i + 1) PROVE g[j] = IF j = 0 THEN c ELSE step(g[j - 1])
    <3>1. CASE j <= i
      <4>1. j \in 0..i /\ (j # 0 => j - 1 \in 0..(i + 1) /\ j - 1 <= i)
        BY <3>1
      <4>2. g[j] = f[j] /\ (j # 0 => g[j - 1] = f[j - 1])
        BY <3>1, <4>1
      <4> QED
        BY <2>2, <4>1, <4>2
    <3>2. CASE ~(j <= i)
      <4>1. j = i + 1 /\ j # 0 /\ j - 1 = i /\ i \in 0..(i + 1) /\ i <= i
        BY <3>2
      <4>2. g[j] = step(f[i]) /\ g[i] = f[i]
        BY <3>2, <4>1
      <4> QED
        BY <4>1, <4>2
    <3> QED
      BY <3>1, <3>2
  <2>4. g = [j \in 0..(i + 1) |-> g[j]]
    OBVIOUS
  <2> HIDE DEF g
  <2>5. g = [j \in 0..(i + 1) |-> IF j = 0 THEN c ELSE step(g[j - 1])]
    BY <2>3, <2>4
  <2>6. Left(c, i + 1, g)
    BY <2>5 DEF Left, step
  <2> QED
    BY <2>6
<1> HIDE DEF Failing
<1>3. Failing \in SUBSET Nat
  BY DEF Failing
<1>4. Failing = {}
  BY <1>1, <1>2, <1>3, NoneFails
<1> QED
  BY <1>4 DEF Failing

-----------------------------------------------------------------------------
LEMMA EnoughLeft ==
    ASSUME NEW i \in Nat, NEW have \in Nat, NEW size \in Nat \ {0}, i + 1 <= have - size + 1
    PROVE  have - i # 0
OBVIOUS

LEMMA LeftInRing ==
    ASSUME NEW c, NEW after, InRing(c, after), NEW n \in Nat, NEW f, Left(c, n, f),
           n <= Cardinality(DOMAIN c.data) - c.size + 1
    PROVE  InRing(f[n], after) /\ Less(f[n], c) /\ f[n].size = c.size
<1> DEFINE size == Cardinality(DOMAIN c.data)
           Fine(i) == /\ InRing(f[i], after) /\ Less(f[i], c) /\ f[i].size = c.size
                      /\ Cardinality(DOMAIN f[i].data) = size - i
           T == {i \in Nat : i <= n /\ ~Fine(i)}
<1>1. IsFiniteSet(DOMAIN c.data) /\ size \in Nat /\ c.size \in Nat \ {0}
  BY FS_CardinalityType DEF InRing
<1>2. \A j \in 0..n : f[j] = IF j = 0 THEN c ELSE Dropped(f[j - 1], f[j - 1].prev[Sentinel])
  BY DEF Left
<1>3. Fine(0)
  <2>1. 0 \in 0..n /\ size - 0 = size
    BY <1>1
  <2>2. f[0] = c
    BY <1>2, <2>1
  <2>3. Less(c, c)
    BY DEF Less
  <2> QED
    BY <2>1, <2>2, <2>3
<1>4. ASSUME NEW i \in Nat, i + 1 <= n, Fine(i) PROVE Fine(i + 1)
  <2> DEFINE b == f[i]
             last == b.prev[Sentinel]
  <2>1. i + 1 \in 0..n /\ i + 1 # 0 /\ (i + 1) - 1 = i
    BY <1>4
  <2>2. f[i + 1] = Dropped(b, last)
    BY <1>2, <2>1
  <2>3. InRing(b, after) /\ Less(b, c) /\ b.size = c.size /\ Cardinality(DOMAIN b.data) = size - i
    BY <1>4
  <2>4. Cardinality(DOMAIN b.data) # 0
    <3>1. i + 1 <= size - c.size + 1
      BY <1>1, <1>4
    <3>2. size - i # 0
      BY <1>1, <3>1, EnoughLeft
    <3> QED
      BY <2>3, <3>2
  <2>5. DOMAIN b.data # {} /\ IsFiniteSet(DOMAIN b.data)
    BY <2>3, <2>4, FS_EmptySet DEF InRing
  <2>6. last \in DOMAIN b.data
    BY <2>3, <2>5, LastIsKey
  <2>7. /\ InRing(Dropped(b, last), after) /\ Less(Dropped(b, last), b)
        /\ DOMAIN Dropped(b, last).data = DOMAIN b.data \ {last} /\ Dropped(b, last).size = b.size
    BY <2>3, <2>6, DroppedRing
  <2>8. Cardinality(DOMAIN b.data \ {last}) = Cardinality(DOMAIN b.data) - 1
    <3>1. PICK S : S = DOMAIN b.data
      OBVIOUS
    <3>2. IsFiniteSet(S) /\ last \in S
      BY <2>5, <2>6, <3>1
    <3> HIDE DEF last, b
    <3>3. Cardinality(S \ {last}) = Cardinality(S) - 1
      BY <3>2, FS_RemoveElement
    <3> QED
      BY <3>1, <3>3
  <2>9. size - i - 1 = size - (i + 1)
    BY <1>1
  <2>10. Less(Dropped(b, last), c)
    BY <2>3, <2>7, LessTransitive
  <2> HIDE DEF b, last
  <2> QED
    BY <2>2, <2>3, <2>7, <2>8, <2>9, <2>10
<1> HIDE DEF Fine
<1>5. 0 \notin T
  BY <1>3
<1>6. ASSUME NEW i \in Nat, i \notin T PROVE i + 1 \notin T
  BY <1>4, <1>6
<1>7. T \subseteq Nat
  OBVIOUS
<1> HIDE DEF T
<1>8. T = {}
  BY <1>5, <1>6, <1>7, NoneFails
<1>9. Fine(n)
  BY <1>8 DEF T
<1> QED
  BY <1>9 DEF Fine

LEMMA EvictedRing ==
    ASSUME NEW c, NEW after, InRing(c, after)
    PROVE  InRing(Evicted(c), after) /\ Less(Evicted(c), c)
<1> DEFINE n == Cardinality(DOMAIN c.data) - c.size + 1
<1>1. n \in Int
  BY FS_CardinalityType DEF InRing
<1>2. CASE n > 0
  <2> DEFINE f == CHOOSE f : f = [i \in 0..n |-> IF i = 0 THEN c ELSE Dropped(f[i - 1], f[i - 1].prev[Sentinel])]
  <2>1. n \in Nat
    BY <1>1, <1>2
  <2>2. Evicted(c) = f[n]
    BY <1>2 DEF Evicted
  <2> HIDE DEF n
  <2>3. \E g : g = [i \in 0..n |-> IF i = 0 THEN c ELSE Dropped(g[i - 1], g[i - 1].prev[Sentinel])]
    <3>1. \E g : Left(c, n, g)
      BY <2>1, LeftExists
    <3> QED
      BY <3>1, Zenon DEF Left
  <2>4. Left(c, n, f)
    BY <2>3, Zenon DEF Left
  <2> HIDE DEF f
  <2>5. n <= Cardinality(DOMAIN c.data) - c.size + 1
    BY <1>1 DEF n
  <2> QED
    BY <2>1, <2>2, <2>4, <2>5, LeftInRing
<1>3. CASE ~(n > 0)
  <2>1. Evicted(c) = c
    BY <1>3 DEF Evicted
  <2> QED
    BY <2>1 DEF Less
<1> QED
  BY <1>2, <1>3

-----------------------------------------------------------------------------
(* The history of the keys of a cache when one has been used.                *)
Later(keys, after, key) == [k \in keys |-> keys \cap (IF k = key THEN {} ELSE after[k] \cup {key})]

LEMMA RingedSame ==
    ASSUME NEW next, NEW prev, NEW keys, NEW after, NEW other, Ringed(next, prev, keys, after),
           \A k \in keys : other[k] \cap keys = after[k] \cap keys
    PROVE  Ringed(next, prev, keys, other)
<1>1. \A k \in keys \cup {Sentinel} : /\ BeforeIn(keys, other, k) = BeforeIn(keys, after, k)
                                      /\ ThroughIn(keys, other, k) = ThroughIn(keys, after, k)
  BY DEF BeforeIn, ThroughIn
<1>2. /\ next \in [keys \cup {Sentinel} -> keys \cup {Sentinel}]
      /\ prev \in [keys \cup {Sentinel} -> keys \cup {Sentinel}]
      /\ \A k \in keys \cup {Sentinel} :
           /\ prev[next[k]] = k /\ next[prev[k]] = k
           /\ BeforeIn(keys, after, next[k]) = ThroughIn(keys, after, k)
  BY RingedIs
<1>3. \A k \in keys \cup {Sentinel} : BeforeIn(keys, other, next[k]) = ThroughIn(keys, other, k)
  BY <1>1, <1>2
<1> QED
  BY <1>2, <1>3, RingedIs

LEMMA LaterOrders ==
    ASSUME NEW keys, NEW after, NEW key, \A k \in keys : k # key => k \notin after[k]
    PROVE  Orders(Later(keys, after, key), keys)
BY DEF Orders, Later

LEMMA LinkedIs ==
    ASSUME NEW c, NEW key, c = Record(c)
    PROVE  LinkedFirst(c, key) =
             [kind |-> c.kind, size |-> c.size, data |-> c.data,
              next |-> With(With(c.next, key, c.next[Sentinel]), Sentinel, key),
              prev |-> With(With(c.prev, key, Sentinel), c.next[Sentinel], key), cleaning |-> c.cleaning]
<1>1. PICK kind, size, data, next, prev, cleaning :
        c = [kind |-> kind, size |-> size, data |-> data, next |-> next, prev |-> prev, cleaning |-> cleaning]
  BY DEF Record
<1>2. /\ c.kind = kind /\ c.size = size /\ c.data = data /\ c.next = next /\ c.prev = prev
      /\ c.cleaning = cleaning
  BY <1>1
<1> DEFINE n == With(With(next, key, next[Sentinel]), Sentinel, key)
           p == With(With(prev, key, Sentinel), next[Sentinel], key)
<1>3. LinkedFirst(c, key) = [c EXCEPT !.prev = p, !.next = n]
  BY <1>2 DEF LinkedFirst
<1> HIDE DEF n, p
<1>4. LinkedFirst(c, key) =
        [kind |-> kind, size |-> size, data |-> data, next |-> n, prev |-> p, cleaning |-> cleaning]
  BY <1>1, <1>3
<1> QED
  BY <1>2, <1>4 DEF n, p

(* A node that goes to the front: one of the ring, as get() does...          *)
LEMMA MovedRing ==
    ASSUME NEW c, NEW after, NEW key \in DOMAIN c.data, InRing(c, after)
    PROVE  LET moved == LinkedFirst(Unlinked(c, key), key)
           IN  InRing(moved, Later(DOMAIN c.data, after, key)) /\ moved.data = c.data /\ moved.kind = c.kind
<1> DEFINE u == Unlinked(c, key)
           m == LinkedFirst(u, key)
           keys == DOMAIN c.data
           later == Later(keys, after, key)
<1>1. /\ c = Record(c) /\ c.size \in Nat \ {0} /\ IsFiniteSet(keys) /\ Sentinel \notin keys
      /\ Orders(after, keys) /\ Ringed(c.next, c.prev, keys, after)
  BY DEF InRing
<1>2. PICK n, p : /\ n = Without([c.next EXCEPT ![c.prev[key]] = c.next[key]], {key})
                  /\ p = Without([c.prev EXCEPT ![c.next[key]] = c.prev[key]], {key})
  OBVIOUS
<1>3. u = [c EXCEPT !.prev = p, !.next = n]
  BY <1>2 DEF Unlinked
<1> HIDE DEF u
<1>4. u = [kind |-> c.kind, size |-> c.size, data |-> c.data, next |-> n, prev |-> p, cleaning |-> c.cleaning]
  <2>1. PICK kind, size, data, next, prev, cleaning :
          c = [kind |-> kind, size |-> size, data |-> data, next |-> next, prev |-> prev, cleaning |-> cleaning]
    BY <1>1 DEF Record
  <2> QED
    BY <1>3, <2>1
<1>5. /\ u = Record(u) /\ u.next = n /\ u.prev = p /\ u.kind = c.kind /\ u.size = c.size /\ u.data = c.data
  BY <1>4 DEF Record
<1>6. Ringed(n, p, keys \ {key}, after)
  <2>1. Ringed(Without([c.next EXCEPT ![c.prev[key]] = c.next[key]], {key}),
               Without([c.prev EXCEPT ![c.next[key]] = c.prev[key]], {key}), keys \ {key}, after)
    BY <1>1, RingUnlinked
  <2> QED
    BY <1>2, <2>1
<1>7. /\ key \notin keys \ {key} /\ key # Sentinel /\ Sentinel \notin keys \ {key}
      /\ (keys \ {key}) \cup {key} = keys
  BY <1>1
<1>8. /\ later[key] \cap keys = {}
      /\ \A k \in keys \ {key} : later[k] \cap keys = (after[k] \cap (keys \ {key})) \cup {key}
  BY <1>7 DEF Later
<1>9. Ringed(With(With(n, key, n[Sentinel]), Sentinel, key),
             With(With(p, key, Sentinel), n[Sentinel], key), keys, later)
  <2>1. PICK rest : rest = keys \ {key}
    OBVIOUS
  <2>2. PICK l : l = later
    OBVIOUS
  <2> HIDE DEF later
  <2>3. /\ key \notin rest /\ key # Sentinel /\ Sentinel \notin rest /\ Ringed(n, p, rest, after)
        /\ l[key] \cap (rest \cup {key}) = {}
        /\ \A k \in rest : l[k] \cap (rest \cup {key}) = (after[k] \cap rest) \cup {key}
    BY <1>6, <1>7, <1>8, <2>1, <2>2
  <2>4. Ringed(With(With(n, key, n[Sentinel]), Sentinel, key),
               With(With(p, key, Sentinel), n[Sentinel], key), rest \cup {key}, l)
    BY <2>3, RingLinked
  <2> QED
    BY <1>7, <2>1, <2>2, <2>4
<1>10. m = [kind |-> u.kind, size |-> u.size, data |-> u.data,
            next |-> With(With(u.next, key, u.next[Sentinel]), Sentinel, key),
            prev |-> With(With(u.prev, key, Sentinel), u.next[Sentinel], key), cleaning |-> u.cleaning]
  BY <1>5, LinkedIs
<1> HIDE DEF m
<1>11. /\ m = Record(m) /\ m.kind = c.kind /\ m.size = c.size /\ m.data = c.data
       /\ m.next = With(With(n, key, n[Sentinel]), Sentinel, key)
       /\ m.prev = With(With(p, key, Sentinel), n[Sentinel], key)
  BY <1>5, <1>10 DEF Record
<1>12. Orders(later, keys)
  BY <1>1, LaterOrders DEF Orders
<1> HIDE DEF later
<1>13. Ringed(m.next, m.prev, keys, later)
  BY <1>9, <1>11
<1>14. InRing(m, later)
  BY <1>1, <1>11, <1>12, <1>13 DEF InRing
<1> QED
  BY <1>11, <1>14 DEF m, u, later

(* ... and a new one, as put() does.                                         *)
LEMMA AddedRing ==
    ASSUME NEW c, NEW after, NEW key, NEW value, key \notin DOMAIN c.data, key # Sentinel, InRing(c, after)
    PROVE  LET added == [LinkedFirst(c, key) EXCEPT !.data = With(@, key, value)]
               keys == DOMAIN c.data \cup {key}
           IN  InRing(added, Later(keys, after, key)) /\ added.data = With(c.data, key, value) /\ added.kind = c.kind
<1> DEFINE keys == DOMAIN c.data
           all == keys \cup {key}
           later == Later(all, after, key)
           l == LinkedFirst(c, key)
           d == With(c.data, key, value)
           m == [l EXCEPT !.data = With(@, key, value)]
<1>1. /\ c = Record(c) /\ c.size \in Nat \ {0} /\ IsFiniteSet(keys) /\ Sentinel \notin keys
      /\ Orders(after, keys) /\ Ringed(c.next, c.prev, keys, after)
  BY DEF InRing
<1>2. PICK n, p : /\ n = With(With(c.next, key, c.next[Sentinel]), Sentinel, key)
                  /\ p = With(With(c.prev, key, Sentinel), c.next[Sentinel], key)
  OBVIOUS
<1>3. l = [kind |-> c.kind, size |-> c.size, data |-> c.data, next |-> n, prev |-> p, cleaning |-> c.cleaning]
  BY <1>1, <1>2, LinkedIs
<1> HIDE DEF l
<1>4. l.data = c.data
  BY <1>3
<1>5. m = [l EXCEPT !.data = d]
  BY <1>4
<1> HIDE DEF m, d
<1>6. m = [kind |-> c.kind, size |-> c.size, data |-> d, next |-> n, prev |-> p, cleaning |-> c.cleaning]
  BY <1>3, <1>5
<1>7. m = Record(m) /\ m.kind = c.kind /\ m.size = c.size /\ m.data = d /\ m.next = n /\ m.prev = p
  BY <1>6 DEF Record
<1>8. DOMAIN d = all
  BY WithIs DEF d
<1>9. Sentinel \notin all
  BY <1>1
<1>10. /\ later[key] \cap all = {}
       /\ \A k \in keys : later[k] \cap all = (after[k] \cap keys) \cup {key}
  <2>1. later[key] \cap all = {}
    BY DEF Later
  <2>2. ASSUME NEW k \in keys PROVE later[k] \cap all = (after[k] \cap keys) \cup {key}
    <3>1. k # key /\ k \in all
      OBVIOUS
    <3>2. later[k] = all \cap (after[k] \cup {key})
      BY <3>1 DEF Later
    <3> QED
      BY <3>2
  <2> QED
    BY <2>1, <2>2
<1>11. Orders(later, all)
  <2>1. \A k \in all : k # key => k \notin after[k]
    BY <1>1 DEF Orders
  <2> QED
    BY <2>1, LaterOrders
<1>12. IsFiniteSet(all)
  <2>1. PICK S : S = keys
    OBVIOUS
  <2>2. IsFiniteSet(S \cup {key})
    BY <1>1, <2>1, FS_AddElement
  <2> QED
    BY <2>1, <2>2
<1> HIDE DEF later
<1>13. Ringed(n, p, all, later)
  <2>1. Ringed(With(With(c.next, key, c.next[Sentinel]), Sentinel, key),
               With(With(c.prev, key, Sentinel), c.next[Sentinel], key), keys \cup {key}, later)
    <3>1. PICK ks, nx, pv : ks = keys /\ nx = c.next /\ pv = c.prev
      OBVIOUS
    <3>2. /\ key \notin ks /\ key # Sentinel /\ Sentinel \notin ks /\ Ringed(nx, pv, ks, after)
          /\ later[key] \cap (ks \cup {key}) = {}
          /\ \A k \in ks : later[k] \cap (ks \cup {key}) = (after[k] \cap ks) \cup {key}
      BY <1>1, <1>10, <3>1
    <3>3. Ringed(With(With(nx, key, nx[Sentinel]), Sentinel, key),
                 With(With(pv, key, Sentinel), nx[Sentinel], key), ks \cup {key}, later)
      BY <3>2, RingLinked
    <3> QED
      BY <3>1, <3>3
  <2> QED
    BY <1>2, <2>1
<1>14. InRing(m, later)
  <2>1. DOMAIN m.data = all
    BY <1>7, <1>8
  <2>2. Ringed(m.next, m.prev, all, later)
    BY <1>7, <1>13
  <2> QED
    BY <1>1, <1>7, <1>9, <1>11, <1>12, <2>1, <2>2 DEF InRing
<1> QED
  BY <1>7, <1>14 DEF m, l, later, d

-----------------------------------------------------------------------------
(* The methods of an LRUCache.                                               *)

(* What happens to other keys does not change what is left of the history.   *)
LEMMA LaterRing ==
    ASSUME NEW c, NEW after, NEW key, key \notin DOMAIN c.data, InRing(c, after)
    PROVE  InRing(c, Later(DOMAIN c.data, after, key))
<1> DEFINE keys == DOMAIN c.data
           later == Later(keys, after, key)
<1>1. /\ c = Record(c) /\ c.size \in Nat \ {0} /\ IsFiniteSet(keys) /\ Sentinel \notin keys
      /\ Orders(after, keys) /\ Ringed(c.next, c.prev, keys, after)
  BY DEF InRing
<1>2. \A k \in keys : later[k] \cap keys = after[k] \cap keys
  BY DEF Later
<1>3. Orders(later, keys)
  BY <1>1, LaterOrders DEF Orders
<1> HIDE DEF later
<1>4. Ringed(c.next, c.prev, keys, later)
  BY <1>1, <1>2, RingedSame
<1> QED
  BY <1>1, <1>3, <1>4 DEF InRing, later

LEMMA GotRing ==
    ASSUME NEW c, NEW after, NEW key, NEW time, InRing(c, after), c.kind # "Cache"
    PROVE  InRing(Got(c, key, time), Later(DOMAIN Got(c, key, time).data, after, key)) /\ Less(Got(c, key, time), c)
<1> DEFINE keys == DOMAIN c.data
           g == Got(c, key, time)
<1>1. CASE key \notin keys
  <2>1. g = c
    BY <1>1 DEF Got
  <2> QED
    BY <1>1, <2>1, LaterRing DEF Less
<1>2. CASE key \in keys /\ Expired(c.data[key], time)
  <2>1. g = Dropped(c, key)
    BY <1>2 DEF Got
  <2> HIDE DEF g
  <2>2. InRing(g, after) /\ Less(g, c) /\ DOMAIN g.data = keys \ {key}
    BY <1>2, <2>1, DroppedRing
  <2>3. key \notin DOMAIN g.data
    BY <2>2
  <2> QED
    BY <2>2, <2>3, LaterRing DEF g
<1>3. CASE key \in keys /\ ~Expired(c.data[key], time)
  <2>1. g = LinkedFirst(Unlinked(c, key), key)
    BY <1>3 DEF Got
  <2> HIDE DEF g
  <2>2. InRing(g, Later(keys, after, key)) /\ g.data = c.data /\ g.kind = c.kind
    BY <1>3, <2>1, MovedRing
  <2> QED
    BY <2>2 DEF g, Less
<1> QED
  BY <1>1, <1>2, <1>3

(* A cache with an answer more than it had.                                  *)
Gains(c, than, key, value) ==
    /\ c.kind = than.kind
    /\ \A k \in DOMAIN c.data : IF k = key THEN c.data[k] = value
                                ELSE k \in DOMAIN than.data /\ c.data[k] = than.data[k]

LEMMA PutRing ==
    ASSUME NEW c, NEW after, NEW key, NEW value, NEW time, InRing(c, after), c.kind # "Cache", key # Sentinel
    PROVE  /\ InRing(Put(c, key, value, time), Later(DOMAIN Put(c, key, value, time).data, after, key))
           /\ Gains(Put(c, key, value, time), c, key, value)
<1> DEFINE b == IF key \in DOMAIN c.data THEN Dropped(c, key) ELSE c
           room == Evicted(b)
           added == [LinkedFirst(room, key) EXCEPT !.data = With(@, key, value)]
           p == Put(c, key, value, time)
<1>1. p = added
  BY DEF Put
<1>2. InRing(b, after) /\ Less(b, c) /\ key \notin DOMAIN b.data
  <2>1. CASE key \in DOMAIN c.data
    <3>1. b = Dropped(c, key)
      BY <2>1
    <3> HIDE DEF b
    <3>2. InRing(b, after) /\ Less(b, c) /\ DOMAIN b.data = DOMAIN c.data \ {key}
      BY <2>1, <3>1, DroppedRing
    <3> QED
      BY <3>2
  <2>2. CASE key \notin DOMAIN c.data
    BY <2>2 DEF Less
  <2> QED
    BY <2>1, <2>2
<1> HIDE DEF b, p
<1>3. InRing(room, after) /\ Less(room, b)
  BY <1>2, EvictedRing
<1>4. Less(room, c) /\ key \notin DOMAIN room.data
  <2>1. DOMAIN room.data \subseteq DOMAIN b.data
    BY <1>3 DEF Less
  <2>2. Less(room, c)
    BY <1>2, <1>3, LessTransitive
  <2> QED
    BY <1>2, <2>1, <2>2
<1> HIDE DEF room
<1>5. /\ InRing(added, Later(DOMAIN room.data \cup {key}, after, key)) /\ added.data = With(room.data, key, value)
      /\ added.kind = room.kind
  <2>1. PICK r : r = room
    OBVIOUS
  <2>2. InRing(r, after) /\ key \notin DOMAIN r.data /\ key # Sentinel
    BY <1>3, <1>4, <2>1
  <2>3. LET m == [LinkedFirst(r, key) EXCEPT !.data = With(@, key, value)]
            keys == DOMAIN r.data \cup {key}
        IN  InRing(m, Later(keys, after, key)) /\ m.data = With(r.data, key, value) /\ m.kind = r.kind
    BY ONLY <2>2, AddedRing
  <2> QED
    BY <2>1, <2>3
<1> HIDE DEF added
<1>6. /\ DOMAIN p.data = DOMAIN room.data \cup {key} /\ p.data[key] = value
      /\ \A k \in DOMAIN room.data : k # key => p.data[k] = room.data[k]
  <2>1. PICK f : f = room.data
    OBVIOUS
  <2>2. p.data = With(f, key, value)
    BY <1>1, <1>5, <2>1
  <2>3. /\ DOMAIN With(f, key, value) = DOMAIN f \cup {key} /\ With(f, key, value)[key] = value
        /\ \A k \in DOMAIN f : k # key => With(f, key, value)[k] = f[k]
    BY ONLY DEF With
  <2> QED
    BY <2>1, <2>2, <2>3
<1>7. Gains(p, c, key, value)
  BY <1>1, <1>4, <1>5, <1>6 DEF Gains, Less
<1> QED
  BY <1>1, <1>5, <1>6, <1>7 DEF p

(* flush() and set_max_size().                                               *)
Kept(keys, after) == [k \in keys |-> after[k] \cap keys]

LEMMA KeptRing ==
    ASSUME NEW c, NEW after, InRing(c, after)
    PROVE  InRing(c, Kept(DOMAIN c.data, after))
<1> DEFINE keys == DOMAIN c.data
           kept == Kept(keys, after)
<1>1. /\ c = Record(c) /\ c.size \in Nat \ {0} /\ IsFiniteSet(keys) /\ Sentinel \notin keys
      /\ Orders(after, keys) /\ Ringed(c.next, c.prev, keys, after)
  BY DEF InRing
<1>2. (\A k \in keys : kept[k] \cap keys = after[k] \cap keys) /\ Orders(kept, keys)
  BY <1>1 DEF Kept, Orders
<1> HIDE DEF kept
<1>3. Ringed(c.next, c.prev, keys, kept)
  BY <1>1, <1>2, RingedSame
<1> QED
  BY <1>1, <1>2, <1>3 DEF InRing, kept

LEMMA ResizedRing ==
    ASSUME NEW c, NEW after, NEW size \in Int, InRing(c, after)
    PROVE  InRing(Resized(c, size), after) /\ Less(Resized(c, size), c)
<1> DEFINE z == IF size < 1 THEN 1 ELSE size
           r == Resized(c, size)
<1>1. r = [c EXCEPT !.size = z] /\ z \in Nat \ {0}
  BY DEF Resized
<1> HIDE DEF r, z
<1>2. r = [kind |-> c.kind, size |-> z, data |-> c.data, next |-> c.next, prev |-> c.prev, cleaning |-> c.cleaning]
  <2>1. PICK kind, s, data, next, prev, cleaning :
          c = [kind |-> kind, size |-> s, data |-> data, next |-> next, prev |-> prev, cleaning |-> cleaning]
    BY DEF InRing, Record
  <2> QED
    BY <1>1, <2>1
<1>3. /\ r = Record(r) /\ r.size = z /\ r.kind = c.kind /\ r.data = c.data /\ r.next = c.next /\ r.prev = c.prev
  BY <1>2 DEF Record
<1>4. InRing(r, after)
  <2>1. /\ IsFiniteSet(DOMAIN c.data) /\ Sentinel \notin DOMAIN c.data
        /\ Orders(after, DOMAIN c.data) /\ Ringed(c.next, c.prev, DOMAIN c.data, after)
    BY DEF InRing
  <2> QED
    BY <1>1, <1>3, <2>1 DEF InRing
<1> QED
  BY <1>3, <1>4 DEF Less, r

LEMMA NewRing ==
    ASSUME NEW kind, NEW size \in Int, NEW time, NEW after
    PROVE  /\ NewCache(kind, size, time) = Record(NewCache(kind, size, time))
           /\ NewCache(kind, size, time).kind = kind /\ NewCache(kind, size, time).size \in Nat \ {0}
           /\ DOMAIN NewCache(kind, size, time).data = {}
           /\ NewCache(kind, size, time).next = [k \in {Sentinel} |-> Sentinel]
           /\ NewCache(kind, size, time).prev = [k \in {Sentinel} |-> Sentinel]
           /\ Ringed([k \in {Sentinel} |-> Sentinel], [k \in {Sentinel} |-> Sentinel], {}, after)
<1> DEFINE link == [k \in {Sentinel} |-> Sentinel]
           z == IF size < 1 THEN 1 ELSE size
           c == NewCache(kind, size, time)
<1>1. z \in Nat \ {0}
  OBVIOUS
<1> HIDE DEF z
<1>2. c = [kind |-> kind, size |-> z, data |-> [key \in {} |-> 0], next |-> link, prev |-> link,
           cleaning |-> time + CleaningInterval]
  BY DEF NewCache, z
<1> HIDE DEF c
<1>3. c = Record(c) /\ c.kind = kind /\ c.size = z /\ DOMAIN c.data = {} /\ c.next = link /\ c.prev = link
  BY <1>2 DEF Record
<1>4. Ringed(link, link, {}, after)
  <2>1. link \in [{} \cup {Sentinel} -> {} \cup {Sentinel}] /\ link[Sentinel] = Sentinel
    OBVIOUS
  <2>2. BeforeIn({}, after, Sentinel) = ThroughIn({}, after, Sentinel)
    BY DEF BeforeIn, ThroughIn
  <2> HIDE DEF link
  <2> QED
    BY <2>1, <2>2, RingedIs
<1> QED
  BY <1>1, <1>3, <1>4 DEF c

LEMMA FlushedRing ==
    ASSUME NEW c, NEW after, NEW key, InRing(c, after), c.kind # "Cache"
    PROVE  InRing(Flushed(c, key), after) /\ Less(Flushed(c, key), c)
<1>1. CASE key \notin DOMAIN c.data
  <2>1. Flushed(c, key) = c
    BY <1>1 DEF Flushed
  <2> QED
    BY <2>1 DEF Less
<1>2. CASE key \in DOMAIN c.data
  <2>1. Flushed(c, key) = Dropped(c, key)
    BY <1>2 DEF Flushed
  <2> QED
    BY <1>2, <2>1, DroppedRing
<1> QED
  BY <1>1, <1>2

LEMMA FlushedAllIs ==
    ASSUME NEW c, NEW time, NEW after, c.size \in Nat \ {0}
    PROVE  /\ FlushedAll(c, time) = Record(FlushedAll(c, time)) /\ FlushedAll(c, time).size \in Nat \ {0}
           /\ Less(FlushedAll(c, time), c) /\ DOMAIN FlushedAll(c, time).data = {}
           /\ Ringed(FlushedAll(c, time).next, FlushedAll(c, time).prev, {}, after)
<1> DEFINE new == NewCache(c.kind, c.size, time)
           f == FlushedAll(c, time)
<1>1. /\ new = Record(new) /\ new.kind = c.kind /\ new.size \in Nat \ {0} /\ DOMAIN new.data = {}
      /\ Ringed(new.next, new.prev, {}, after)
  <2>1. PICK kind, size : kind = c.kind /\ size = c.size
    OBVIOUS
  <2>2. size \in Int /\ new = NewCache(kind, size, time)
    BY <2>1
  <2>3. /\ NewCache(kind, size, time) = Record(NewCache(kind, size, time))
        /\ NewCache(kind, size, time).kind = kind /\ NewCache(kind, size, time).size \in Nat \ {0}
        /\ DOMAIN NewCache(kind, size, time).data = {}
        /\ NewCache(kind, size, time).next = [k \in {Sentinel} |-> Sentinel]
        /\ NewCache(kind, size, time).prev = [k \in {Sentinel} |-> Sentinel]
        /\ Ringed([k \in {Sentinel} |-> Sentinel], [k \in {Sentinel} |-> Sentinel], {}, after)
    BY <2>2, NewRing
  <2> HIDE DEF new
  <2> QED
    BY <2>1, <2>2, <2>3
<1>2. f = new \/ f = [new EXCEPT !.cleaning = c.cleaning]
  BY DEF FlushedAll
<1> HIDE DEF new, f
<1>3. /\ f = Record(f) /\ f.kind = new.kind /\ f.size = new.size /\ f.data = new.data /\ f.next = new.next
      /\ f.prev = new.prev
  <2>1. CASE f = new
    BY <1>1, <2>1
  <2>2. CASE f = [new EXCEPT !.cleaning = c.cleaning]
    <3>1. PICK kind, s, data, next, prev, cleaning :
            new = [kind |-> kind, size |-> s, data |-> data, next |-> next, prev |-> prev, cleaning |-> cleaning]
      BY <1>1 DEF Record
    <3> QED
      BY <2>2, <3>1 DEF Record
  <2> QED
    BY <1>2, <2>1, <2>2
<1> QED
  BY <1>1, <1>3 DEF Less, f

-----------------------------------------------------------------------------
(* A cache of any kind: its ring is in order, if it has one.                 *)
Sane(c, after) == c = Record(c) /\ c.size \in Nat \ {0} /\ (c.kind # "Cache" => InRing(c, after))

LEMMA CleanedIs ==
    ASSUME NEW c, NEW time, c = Record(c)
    PROVE  /\ Cleaned(c, time) = Record(Cleaned(c, time)) /\ Cleaned(c, time).size = c.size
           /\ Less(Cleaned(c, time), c)
<1> DEFINE d == Cleaned(c, time)
           gone == {key \in DOMAIN c.data : Expired(c.data[key], time)}
<1>1. CASE time < c.cleaning
  <2>1. d = c
    BY <1>1 DEF Cleaned
  <2> QED
    BY <2>1 DEF Less
<1>2. CASE ~(time < c.cleaning)
  <2>1. d = [c EXCEPT !.data = Without(@, gone), !.cleaning = time + CleaningInterval]
    BY <1>2 DEF Cleaned
  <2> HIDE DEF gone, d
  <2>2. PICK kind, s, data, next, prev, cleaning :
          c = [kind |-> kind, size |-> s, data |-> data, next |-> next, prev |-> prev, cleaning |-> cleaning]
    BY DEF Record
  <2>3. d = Record(d) /\ d.size = c.size /\ d.kind = c.kind /\ d.data = Without(c.data, gone)
    BY <2>1, <2>2 DEF Record
  <2>4. /\ DOMAIN Without(c.data, gone) = DOMAIN c.data \ gone
        /\ \A k \in DOMAIN c.data \ gone : Without(c.data, gone)[k] = c.data[k]
    BY ONLY DEF Without, Restrict
  <2>5. Less(d, c)
    BY <2>3, <2>4 DEF Less
  <2> QED
    BY <2>3, <2>5 DEF d
<1> QED
  BY <1>1, <1>2

LEMMA GotSane ==
    ASSUME NEW c, NEW after, NEW key, NEW time, Sane(c, after)
    PROVE  Sane(Got(c, key, time), Later(DOMAIN Got(c, key, time).data, after, key)) /\ Less(Got(c, key, time), c)
<1>1. CASE c.kind = "Cache"
  <2>1. Got(c, key, time) = Cleaned(c, time)
    BY <1>1 DEF Got
  <2>2. /\ Cleaned(c, time) = Record(Cleaned(c, time)) /\ Cleaned(c, time).size = c.size
        /\ Less(Cleaned(c, time), c)
    BY CleanedIs DEF Sane
  <2> QED
    BY <1>1, <2>1, <2>2 DEF Sane, Less
<1>2. CASE c.kind # "Cache"
  <2>1. InRing(c, after)
    BY <1>2 DEF Sane
  <2>2. InRing(Got(c, key, time), Later(DOMAIN Got(c, key, time).data, after, key)) /\ Less(Got(c, key, time), c)
    BY <1>2, <2>1, GotRing
  <2> QED
    BY <2>2 DEF Sane, InRing
<1> QED
  BY <1>1, <1>2

LEMMA PutSane ==
    ASSUME NEW c, NEW after, NEW key, NEW value, NEW time, Sane(c, after), key # Sentinel
    PROVE  /\ Sane(Put(c, key, value, time), Later(DOMAIN Put(c, key, value, time).data, after, key))
           /\ Gains(Put(c, key, value, time), c, key, value)
<1> DEFINE p == Put(c, key, value, time)
<1>1. CASE c.kind = "Cache"
  <2> DEFINE b == Cleaned(c, time)
  <2>1. p = [b EXCEPT !.data = With(@, key, value)]
    BY <1>1 DEF Put
  <2>2. b = Record(b) /\ b.size = c.size /\ Less(b, c)
    BY CleanedIs DEF Sane
  <2> HIDE DEF b, p
  <2>3. PICK kind, s, data, next, prev, cleaning :
          b = [kind |-> kind, size |-> s, data |-> data, next |-> next, prev |-> prev, cleaning |-> cleaning]
    BY <2>2 DEF Record
  <2>4. p = Record(p) /\ p.size = c.size /\ p.kind = b.kind /\ p.data = With(data, key, value) /\ data = b.data
    BY <2>1, <2>2, <2>3 DEF Record
  <2>5. /\ DOMAIN With(data, key, value) = DOMAIN data \cup {key} /\ With(data, key, value)[key] = value
        /\ \A k \in DOMAIN data : k # key => With(data, key, value)[k] = data[k]
    BY ONLY DEF With
  <2>6. Gains(p, c, key, value)
    BY <2>2, <2>4, <2>5 DEF Gains, Less
  <2>7. p.kind = "Cache"
    BY <1>1, <2>2, <2>4 DEF Less
  <2> QED
    BY <2>4, <2>6, <2>7 DEF Sane, p
<1>2. CASE c.kind # "Cache"
  <2>1. InRing(c, after)
    BY <1>2 DEF Sane
  <2>2. InRing(p, Later(DOMAIN p.data, after, key)) /\ Gains(p, c, key, value)
    BY <1>2, <2>1, PutRing
  <2> HIDE DEF p
  <2>3. Sane(p, Later(DOMAIN p.data, after, key))
    BY <2>2 DEF Sane, InRing
  <2> QED
    BY <2>2, <2>3 DEF p
<1> QED
  BY <1>1, <1>2

LEMMA KeptSane ==
    ASSUME NEW c, NEW after, Sane(c, after)
    PROVE  Sane(c, Kept(DOMAIN c.data, after))
BY KeptRing DEF Sane

LEMMA FlushedSane ==
    ASSUME NEW c, NEW after, NEW key, Sane(c, after)
    PROVE  Sane(Flushed(c, key), after) /\ Less(Flushed(c, key), c)
<1> DEFINE f == Flushed(c, key)
<1>1. CASE c.kind = "Cache"
  <2>1. f = c \/ f = [c EXCEPT !.data = Without(@, {key})]
    BY <1>1 DEF Flushed
  <2> HIDE DEF f
  <2>2. CASE f = c
    BY <2>2 DEF Less, f
  <2>3. CASE f = [c EXCEPT !.data = Without(@, {key})]
    <3>1. PICK kind, s, data, next, prev, cleaning :
            c = [kind |-> kind, size |-> s, data |-> data, next |-> next, prev |-> prev, cleaning |-> cleaning]
      BY DEF Sane, Record
    <3>2. f = Record(f) /\ f.size = c.size /\ f.kind = c.kind /\ f.data = Without(data, {key}) /\ data = c.data
      BY <2>3, <3>1 DEF Record
    <3>3. /\ DOMAIN Without(data, {key}) = DOMAIN data \ {key}
          /\ \A k \in DOMAIN data \ {key} : Without(data, {key})[k] = data[k]
      BY ONLY DEF Without, Restrict
    <3>4. Less(f, c)
      BY <3>2, <3>3 DEF Less
    <3>5. Sane(f, after)
      BY <1>1, <3>2 DEF Sane
    <3> QED
      BY <3>4, <3>5 DEF f
  <2> QED
    BY <2>1, <2>2, <2>3
<1>2. CASE c.kind # "Cache"
  <2>1. InRing(f, after) /\ Less(f, c)
    BY <1>2, FlushedRing DEF Sane
  <2> HIDE DEF f
  <2>2. Sane(f, after)
    BY <2>1 DEF Sane, InRing
  <2> QED
    BY <2>1, <2>2 DEF f
<1> QED
  BY <1>1, <1>2

LEMMA FlushedAllSane ==
    ASSUME NEW c, NEW after, NEW time, Sane(c, after)
    PROVE  Sane(FlushedAll(c, time), after) /\ Less(FlushedAll(c, time), c)
<1> DEFINE f == FlushedAll(c, time)
<1>1. /\ f = Record(f) /\ f.size \in Nat \ {0} /\ Less(f, c) /\ DOMAIN f.data = {}
      /\ Ringed(f.next, f.prev, {}, after)
  BY FlushedAllIs DEF Sane
<1> HIDE DEF f
<1>2. Orders(after, {}) /\ IsFiniteSet({})
  BY FS_EmptySet DEF Orders
<1>3. InRing(f, after)
  BY <1>1, <1>2 DEF InRing
<1> QED
  BY <1>1, <1>3 DEF Sane, f

LEMMA ResizedSane ==
    ASSUME NEW c, NEW after, NEW size \in Int, Sane(c, after), c.kind # "Cache"
    PROVE  Sane(Resized(c, size), after) /\ Less(Resized(c, size), c)
<1>1. InRing(c, after)
  BY DEF Sane
<1>2. InRing(Resized(c, size), after) /\ Less(Resized(c, size), c)
  BY <1>1, ResizedRing
<1> QED
  BY <1>2 DEF Sane, InRing

-----------------------------------------------------------------------------
(* The stub resolver: how old an answer is.                                  *)

NoTtl(r) == ~r.answer /\ ~r.alias /\ r.soa = Unset

(* An answer expires at the end of its TTL, counted from when its world was. *)
Sound(r, expiration, time, w, ends) ==
    \/ NoTtl(r)
    \/ /\ r.ttl \in Nat /\ expiration \in Nat /\ r.world \in 1..w
       /\ expiration <= (IF r.world = w THEN time ELSE ends[r.world]) + r.ttl

CallRecord(q) ==
    [at |-> q.at, qnames |-> q.qnames, nx |-> q.nx, name |-> q.name, type |-> q.type, climbs |-> q.climbs,
     response |-> q.response, expiration |-> q.expiration, how |-> q.how, responses |-> q.responses]

StubTypeOK ==
    /\ now \in Nat /\ world \in Nat \ {0} /\ ended \in Seq(Nat) /\ Len(ended) = world - 1
    /\ query = [t \in Threads |-> query[t]]
    /\ \A t \in Threads : query[t] = CallRecord(query[t])

AllSound(c) == \A k \in DOMAIN c.data : Sound(c.data[k].response, c.data[k].expiration, now, world, ended)

StubInv ==
    /\ StubTypeOK /\ Sane(cache, newer) /\ AllSound(cache)
    /\ \A t \in Threads :
         query[t].at = "put" => Sound(query[t].response, query[t].expiration, now, world, ended)

LEMMA NoCallIs == NoCall.at = "idle" /\ NoCall = CallRecord(NoCall)
BY DEF NoCall, CallRecord

(* Time, and another world, let no answer outlive its own.                   *)
LEMMA SoundLater ==
    ASSUME NEW r, NEW expiration, NEW time \in Nat, NEW w \in Nat \ {0}, NEW ends \in Seq(Nat),
           Sound(r, expiration, time, w, ends)
    PROVE  Sound(r, expiration, time + 1, w, ends)
<1>1. CASE NoTtl(r)
  BY <1>1 DEF Sound
<1>2. CASE ~NoTtl(r)
  <2>1. /\ r.ttl \in Nat /\ expiration \in Nat /\ r.world \in 1..w
        /\ expiration <= (IF r.world = w THEN time ELSE ends[r.world]) + r.ttl
    BY <1>2 DEF Sound
  <2>2. CASE r.world = w
    <3>1. expiration <= time + r.ttl
      BY <2>1, <2>2
    <3>2. expiration <= (time + 1) + r.ttl
      BY <2>1, <3>1
    <3> QED
      BY <2>1, <2>2, <3>2 DEF Sound
  <2>3. CASE r.world # w
    BY <2>1, <2>3 DEF Sound
  <2> QED
    BY <2>2, <2>3
<1> QED
  BY <1>1, <1>2

LEMMA SoundChanged ==
    ASSUME NEW r, NEW expiration, NEW time \in Nat, NEW w \in Nat \ {0}, NEW ends \in Seq(Nat), Len(ends) = w - 1,
           Sound(r, expiration, time, w, ends)
    PROVE  Sound(r, expiration, time, w + 1, Append(ends, time))
<1>1. CASE NoTtl(r)
  BY <1>1 DEF Sound
<1>2. CASE ~NoTtl(r)
  <2>1. /\ r.ttl \in Nat /\ expiration \in Nat /\ r.world \in 1..w
        /\ expiration <= (IF r.world = w THEN time ELSE ends[r.world]) + r.ttl
    BY <1>2 DEF Sound
  <2>2. r.world \in 1..(w + 1) /\ r.world # w + 1
    BY <2>1
  <2>3. Append(ends, time)[r.world] = IF r.world = w THEN time ELSE ends[r.world]
    <3>1. PICK k \in 1..w : k = r.world
      BY <2>1
    <3>2. Append(ends, time)[k] = IF k = w THEN time ELSE ends[k]
      BY ONLY Len(ends) = w - 1, ends \in Seq(Nat), w \in Nat \ {0}, time \in Nat, k \in 1..w
    <3> QED
      BY <3>1, <3>2
  <2> QED
    BY <2>1, <2>2, <2>3 DEF Sound
<1> QED
  BY <1>1, <1>2

LEMMA LessSound ==
    ASSUME NEW c, NEW than, Less(c, than), AllSound(than)
    PROVE  AllSound(c)
BY DEF Less, AllSound

LEMMA GainsSound ==
    ASSUME NEW c, NEW than, NEW key, NEW value, Gains(c, than, key, value), AllSound(than),
           Sound(value.response, value.expiration, now, world, ended)
    PROVE  AllSound(c)
BY DEF Gains, AllSound

(* What a nameserver says now is sound.                                      *)
LEMMA ResponseSound ==
    ASSUME StubInv, NEW name, NEW type, NEW ttl \in Ttls, NEW terse \in BOOLEAN
    PROVE  LET r == Response(world, name, type, ttl, terse)
           IN  Sound(r, Expiration(r), now, world, ended)
<1> DEFINE r == Response(world, name, type, ttl, terse)
<1>1. r.world = world /\ r.ttl = ttl
  BY DEF Response
<1> HIDE DEF r
<1>2. ttl \in Nat /\ now \in Nat /\ world \in Nat \ {0} /\ world \in 1..world
  BY StubAssumption DEF StubInv, StubTypeOK
<1>3. CASE NoTtl(r)
  BY <1>3 DEF Sound, r
<1>4. CASE ~NoTtl(r)
  <2>1. Expiration(r) = now + ttl
    BY <1>1, <1>4 DEF Expiration, NoTtl
  <2>2. PICK n \in Nat, e \in Nat : n = now /\ e = Expiration(r) /\ e = n + ttl
    BY <1>2, <2>1
  <2>3. e <= n + ttl
    BY <1>2, <2>2
  <2> QED
    BY <1>1, <1>2, <2>2, <2>3 DEF Sound, r
<1> QED
  BY <1>3, <1>4

LEMMA StubStarts == StubInit => StubInv
<1> SUFFICES ASSUME StubInit PROVE StubInv
  OBVIOUS
<1>1. /\ config \in Resolvers /\ cache = NewCache(config.cache.kind, config.cache.size, 0)
      /\ now = 0 /\ world = 1 /\ ended = <<>> /\ newer = [key \in {} |-> {}]
      /\ query = [t \in Threads |-> NoCall]
  BY DEF StubInit
<1>2. PICK kind, size : kind = config.cache.kind /\ size = config.cache.size /\ size \in Int
  BY <1>1, StubAssumption
<1>3. /\ cache = Record(cache) /\ cache.size \in Nat \ {0} /\ DOMAIN cache.data = {}
      /\ Ringed(cache.next, cache.prev, {}, newer)
  <2>1. cache = NewCache(kind, size, 0)
    BY <1>1, <1>2
  <2>2. /\ NewCache(kind, size, 0) = Record(NewCache(kind, size, 0))
        /\ NewCache(kind, size, 0).size \in Nat \ {0}
        /\ DOMAIN NewCache(kind, size, 0).data = {}
        /\ NewCache(kind, size, 0).next = [k \in {Sentinel} |-> Sentinel]
        /\ NewCache(kind, size, 0).prev = [k \in {Sentinel} |-> Sentinel]
        /\ Ringed([k \in {Sentinel} |-> Sentinel], [k \in {Sentinel} |-> Sentinel], {}, newer)
    BY <1>2, NewRing
  <2> QED
    BY <2>1, <2>2
<1>4. Sane(cache, newer)
  <2>1. Orders(newer, {}) /\ IsFiniteSet({})
    BY FS_EmptySet DEF Orders
  <2> QED
    BY <1>3, <2>1 DEF Sane, InRing
<1>5. AllSound(cache)
  BY <1>3 DEF AllSound
<1>6. StubTypeOK
  <2>1. ended \in Seq(Nat) /\ Len(ended) = world - 1
    BY <1>1
  <2> QED
    BY <1>1, <2>1, NoCallIs DEF StubTypeOK
<1>7. \A t \in Threads : query[t].at # "put"
  BY <1>1, NoCallIs
<1> QED
  BY <1>4, <1>5, <1>6, <1>7 DEF StubInv

-----------------------------------------------------------------------------
(* A step of a thread: the call it is in goes on, and the cache stays sound. *)

Holds(s) == s = CallRecord(s) /\ (s.at = "put" => Sound(s.response, s.expiration, now, world, ended))

LEMMA IsCall ==
    ASSUME NEW s, NEW a, NEW b, NEW c, NEW d, NEW e, NEW f, NEW g, NEW h, NEW i, NEW j,
           s = [at |-> a, qnames |-> b, nx |-> c, name |-> d, type |-> e, climbs |-> f,
                response |-> g, expiration |-> h, how |-> i, responses |-> j]
    PROVE  s = CallRecord(s) /\ s.at = a /\ s.response = g /\ s.expiration = h
BY DEF CallRecord

LEMMA CallAt ==
    ASSUME NEW q, q = CallRecord(q), NEW s, NEW stage,
           s = [q EXCEPT !.at = stage]
    PROVE  s = CallRecord(s) /\ s.at = stage
<1>1. PICK a, b, c, d, e, f, g, h, i, j :
        q = [at |-> a, qnames |-> b, nx |-> c, name |-> d, type |-> e, climbs |-> f,
           response |-> g, expiration |-> h, how |-> i, responses |-> j]
  BY DEF CallRecord
<1>2. s = [at |-> stage, qnames |-> b, nx |-> c, name |-> d, type |-> e, climbs |-> f,
           response |-> g, expiration |-> h, how |-> i, responses |-> j]
  BY ONLY <1>1, s = [q EXCEPT !.at = stage]
<1> QED
  BY <1>2, IsCall

(* What a call is made of.                                                   *)
LEMMA CallFields ==
    ASSUME NEW q, q = CallRecord(q)
    PROVE  \E a, b, c, d, e, f, g, h, i, j :
             q = [at |-> a, qnames |-> b, nx |-> c, name |-> d, type |-> e, climbs |-> f,
                  response |-> g, expiration |-> h, how |-> i, responses |-> j]
BY DEF CallRecord

LEMMA ReturnedHolds ==
    ASSUME NEW q, NEW how, NEW responses
    PROVE  Holds(Returned(q, how, responses)) /\ Returned(q, how, responses).at \in {"returned", "climb"}
<1> DEFINE r == Returned(q, how, responses)
<1>1. CASE ~q.climbs
  <2>1. r = [at |-> "returned", qnames |-> <<>>, nx |-> {}, name |-> <<>>, type |-> Unset, climbs |-> FALSE,
             response |-> Unset, expiration |-> 0, how |-> Unset, responses |-> {}]
    BY <1>1 DEF Returned, NoCall
  <2> HIDE DEF r
  <2>2. r = CallRecord(r) /\ r.at = "returned"
    BY <2>1, IsCall
  <2> QED
    BY <2>2 DEF Holds, r
<1>2. CASE q.climbs
  <2>1. r = [at |-> "climb", qnames |-> <<>>, nx |-> {}, name |-> q.name, type |-> q.type, climbs |-> TRUE,
             response |-> Unset, expiration |-> 0, how |-> how, responses |-> responses]
    BY <1>2 DEF Returned, NoCall
  <2> HIDE DEF r
  <2>2. r = CallRecord(r) /\ r.at = "climb"
    BY <2>1, IsCall
  <2> QED
    BY <2>2 DEF Holds, r
<1> QED
  BY <1>1, <1>2

LEMMA ThreadMoves ==
    ASSUME StubInv, NEW t \in Threads, NEW s, Holds(s), Moves(t, s), UNCHANGED <<now, world, ended>>,
           Sane(cache', newer'), AllSound(cache')
    PROVE  StubInv' /\ query'[t] = s /\ \A u \in Threads : u # t => query'[u] = query[u]
<1>1. query = [u \in Threads |-> query[u]]
  BY DEF StubInv, StubTypeOK
<1>2. /\ query'[t] = s /\ \A u \in Threads : u # t => query'[u] = query[u]
      /\ query' = [u \in Threads |-> query'[u]]
  BY <1>1 DEF Moves
<1>3. now' = now /\ world' = world /\ ended' = ended
  OBVIOUS
<1>4. StubTypeOK'
  BY <1>2, <1>3 DEF StubInv, StubTypeOK, Holds
<1>5. AllSound(cache)'
  BY <1>3 DEF AllSound
<1>6. ASSUME NEW u \in Threads, query'[u].at = "put"
      PROVE  Sound(query'[u].response, query'[u].expiration, now', world', ended')
  <2>1. Sound(query'[u].response, query'[u].expiration, now, world, ended)
    <3>1. CASE u = t
      BY <1>2, <1>6, <3>1 DEF Holds
    <3>2. CASE u # t
      BY <1>2, <1>6, <3>2 DEF StubInv
    <3> QED
      BY <3>1, <3>2
  <2> QED
    BY <1>3, <2>1
<1> QED
  BY <1>2, <1>4, <1>5, <1>6 DEF StubInv

LEMMA UsesIs ==
    ASSUME NEW c, NEW key, Uses(c, key)
    PROVE  cache' = c /\ newer' = Later(DOMAIN c.data, newer, key)
BY DEF Uses, Later

LEMMA GotSound ==
    ASSUME StubInv, NEW key, Uses(Got(cache, key, now), key)
    PROVE  Sane(cache', newer') /\ AllSound(cache')
<1> DEFINE g == Got(cache, key, now)
<1>1. Sane(cache, newer) /\ AllSound(cache)
  BY DEF StubInv
<1>2. Sane(g, Later(DOMAIN g.data, newer, key)) /\ Less(g, cache)
  BY <1>1, GotSane
<1>3. cache' = g /\ newer' = Later(DOMAIN g.data, newer, key)
  BY UsesIs
<1> HIDE DEF g
<1>4. AllSound(g)
  BY <1>1, <1>2, LessSound
<1> QED
  BY <1>2, <1>3, <1>4

LEMMA PutSound ==
    ASSUME StubInv, NEW key, key # Sentinel, NEW value, Uses(Put(cache, key, value, now), key),
           Sound(value.response, value.expiration, now, world, ended)
    PROVE  Sane(cache', newer') /\ AllSound(cache')
<1> DEFINE p == Put(cache, key, value, now)
<1>1. Sane(cache, newer) /\ AllSound(cache)
  BY DEF StubInv
<1>2. Sane(p, Later(DOMAIN p.data, newer, key)) /\ Gains(p, cache, key, value)
  BY <1>1, PutSane
<1>3. cache' = p /\ newer' = Later(DOMAIN p.data, newer, key)
  BY UsesIs
<1> HIDE DEF p
<1>4. AllSound(p)
  BY <1>1, <1>2, GainsSound
<1> QED
  BY <1>2, <1>3, <1>4

LEMMA CacheStays ==
    ASSUME StubInv, UNCHANGED <<cache, newer>>
    PROVE  Sane(cache', newer') /\ AllSound(cache')
BY DEF StubInv, AllSound

-----------------------------------------------------------------------------
(* The steps of the stub resolver.                                           *)

LEMMA CallsHold ==
    ASSUME StubInv, NEW t \in Threads
    PROVE  query[t] = CallRecord(query[t])
BY DEF StubInv, StubTypeOK

LEMMA CallKeeps ==
    ASSUME StubInv, NEW t \in Threads, NEW request, Call(t, request)
    PROVE  StubInv' /\ (\A u \in Threads : u # t => query'[u] = query[u]) /\ query[t].at \in {"idle", "returned"}
<1> DEFINE s == [NoCall EXCEPT !.at = "next", !.qnames = QnamesToTry(request), !.name = request.labels,
                               !.type = IF request.climbs THEN "SOA" ELSE "A", !.climbs = request.climbs]
<1>1. Moves(t, s) /\ query[t].at \in {"idle", "returned"} /\ UNCHANGED <<now, world, ended, cache, newer>>
  BY DEF Call
<1>2. Holds(s)
  <2>1. PICK a, b, c, d, e, f, g, h, i, j :
          NoCall = [at |-> a, qnames |-> b, nx |-> c, name |-> d, type |-> e, climbs |-> f,
                    response |-> g, expiration |-> h, how |-> i, responses |-> j]
    BY NoCallIs, CallFields
  <2>2. PICK names, name, type, climbs :
          s = [NoCall EXCEPT !.at = "next", !.qnames = names, !.name = name, !.type = type, !.climbs = climbs]
    OBVIOUS
  <2> HIDE DEF s
  <2>4. s = [at |-> "next", qnames |-> names, nx |-> c, name |-> name, type |-> type, climbs |-> climbs,
             response |-> g, expiration |-> h, how |-> i, responses |-> j]
    BY ONLY <2>1, <2>2
  <2>3. s = CallRecord(s) /\ s.at = "next"
    BY <2>4, IsCall
  <2> QED
    BY <2>3 DEF Holds
<1> HIDE DEF s
<1>3. Sane(cache', newer') /\ AllSound(cache')
  BY <1>1, CacheStays
<1> QED
  BY <1>1, <1>2, <1>3, ThreadMoves

LEMMA OutOfNamesKeeps ==
    ASSUME StubInv, NEW t \in Threads, OutOfNames(t)
    PROVE  /\ StubInv' /\ (\A u \in Threads : u # t => query'[u] = query[u])
           /\ query[t].at = "next" /\ query[t].qnames = <<>>
<1> DEFINE s == Returned(query[t], "NXDOMAIN", query[t].nx)
<1>1. /\ Moves(t, s) /\ query[t].at = "next" /\ query[t].qnames = <<>>
      /\ UNCHANGED <<now, world, ended, cache, newer>>
  BY DEF OutOfNames, Others
<1>2. Holds(s)
  BY ReturnedHolds
<1> HIDE DEF s
<1>3. Sane(cache', newer') /\ AllSound(cache')
  BY <1>1, CacheStays
<1> QED
  BY <1>1, <1>2, <1>3, ThreadMoves

(* What is not expired in the cache is fresh.                                *)
LEMMA HitFresh ==
    ASSUME StubInv, NEW key, Hit(cache, key, now)
    PROVE  Fresh(cache.data[key].response)
<1>1. key \in DOMAIN cache.data /\ ~(cache.data[key].expiration <= now)
  BY DEF Hit, Expired
<1>2. PICK r, e : r = cache.data[key].response /\ e = cache.data[key].expiration
  OBVIOUS
<1>3. Sound(r, e, now, world, ended)
  BY <1>1, <1>2 DEF StubInv, AllSound
<1>4. ~(e <= now) /\ now \in Nat /\ world \in Nat \ {0} /\ ended \in Seq(Nat) /\ Len(ended) = world - 1
  BY <1>1, <1>2 DEF StubInv, StubTypeOK
<1>5. Fresh(r)
  <2>1. CASE NoTtl(r) \/ r.world = world
    BY <2>1 DEF Fresh, NoTtl
  <2>2. CASE ~NoTtl(r) /\ r.world # world
    <3>1. r.ttl \in Nat /\ e \in Nat /\ r.world \in 1..world /\ e <= ended[r.world] + r.ttl
      BY <1>3, <2>2 DEF Sound
    <3>2. PICK k \in 1..world, ttl \in Nat : k = r.world /\ ttl = r.ttl
      BY <3>1
    <3>3. k \in 1..Len(ended)
      BY <1>4, <2>2, <3>2
    <3>4. ended[k] \in Nat
      BY <1>4, <3>3
    <3>5. PICK end \in Nat : end = ended[k]
      BY <3>4
    <3>6. ~(e <= now) /\ e <= end + ttl
      BY <1>4, <3>1, <3>2, <3>5
    <3>7. now - end <= ttl
      BY <1>4, <3>1, <3>6
    <3> QED
      BY <3>2, <3>5, <3>7 DEF Fresh
  <2> QED
    BY <2>1, <2>2
<1> QED
  BY <1>2, <1>5

LEMMA AskCacheKeeps ==
    ASSUME StubInv, NEW t \in Threads, AskCache(t)
    PROVE  /\ StubInv' /\ (\A u \in Threads : u # t => query'[u] = query[u]) /\ query[t].at = "next"
           /\ query'[t].at \in {"returned", "climb"} => Fresh(cache.data[Key(query[t])].response)
<1> DEFINE q == query[t]
<1>1. q.at = "next" /\ UNCHANGED <<now, world, ended>> /\ q = CallRecord(q)
  BY CallsHold DEF AskCache, Others
<1>2. CASE cache.kind = Unset
  <2>1. PICK s : s = [q EXCEPT !.at = "ask"]
    OBVIOUS
  <2>2. Moves(t, s) /\ UNCHANGED <<cache, newer>>
    BY <1>2, <2>1 DEF AskCache
  <2> HIDE DEF q
  <2>3. s = CallRecord(s) /\ s.at = "ask"
    BY <1>1, <2>1, CallAt
  <2>4. Holds(s)
    BY <2>3 DEF Holds
  <2>5. Sane(cache', newer') /\ AllSound(cache')
    BY <2>2, CacheStays
  <2>6. StubInv' /\ query'[t] = s /\ \A u \in Threads : u # t => query'[u] = query[u]
    BY <1>1, <2>2, <2>4, <2>5, ThreadMoves
  <2> QED
    BY <1>1, <2>3, <2>6 DEF q
<1>3. CASE cache.kind # Unset
  <2>1. PICK key : key = Key(q)
    OBVIOUS
  <2>2. /\ Uses(Got(cache, key, now), key)
        /\ Moves(t, IF Hit(cache, key, now) THEN Told(q, cache.data[key].response) ELSE [q EXCEPT !.at = "any"])
    BY <1>3, <2>1 DEF AskCache
  <2>3. Sane(cache', newer') /\ AllSound(cache')
    BY <2>2, GotSound
  <2>4. CASE Hit(cache, key, now)
    <3>1. PICK s : s = Told(q, cache.data[key].response)
      OBVIOUS
    <3>2. Moves(t, s)
      BY <2>2, <2>4, <3>1
    <3>3. Holds(s)
      BY <3>1, ReturnedHolds DEF Told
    <3>4. StubInv' /\ query'[t] = s /\ \A u \in Threads : u # t => query'[u] = query[u]
      BY <1>1, <2>3, <3>2, <3>3, ThreadMoves
    <3>5. Fresh(cache.data[key].response)
      BY <2>4, HitFresh
    <3> QED
      BY <1>1, <2>1, <3>4, <3>5
  <2>5. CASE ~Hit(cache, key, now)
    <3>1. PICK s : s = [q EXCEPT !.at = "any"]
      OBVIOUS
    <3>2. Moves(t, s)
      BY <2>2, <2>5, <3>1
    <3> HIDE DEF q
    <3>3. s = CallRecord(s) /\ s.at = "any"
      BY <1>1, <3>1, CallAt
    <3>4. Holds(s)
      BY <3>3 DEF Holds
    <3>5. StubInv' /\ query'[t] = s /\ \A u \in Threads : u # t => query'[u] = query[u]
      BY <1>1, <2>3, <3>2, <3>4, ThreadMoves
    <3> QED
      BY <1>1, <3>3, <3>5 DEF q
  <2> QED
    BY <2>4, <2>5
<1> QED
  BY <1>2, <1>3

LEMMA AskAnyKeeps ==
    ASSUME StubInv, NEW t \in Threads, AskCacheForAny(t)
    PROVE  /\ StubInv' /\ (\A u \in Threads : u # t => query'[u] = query[u]) /\ query[t].at = "any"
           /\ query'[t].at = "next" => Fresh(cache.data[AnyKey(query[t])].response)
<1> DEFINE q == query[t]
<1>1. q.at = "any" /\ UNCHANGED <<now, world, ended>> /\ q = CallRecord(q)
  BY CallsHold DEF AskCacheForAny, Others
<1>2. PICK key, names, nx : key = AnyKey(q) /\ names = Tail(q.qnames) /\ nx = Noted(q, cache.data[key].response)
  OBVIOUS
<1>3. /\ Uses(Got(cache, key, now), key)
      /\ Moves(t, IF Hit(cache, key, now) THEN [q EXCEPT !.at = "next", !.qnames = names, !.nx = nx]
                  ELSE [q EXCEPT !.at = "ask"])
  BY <1>2 DEF AskCacheForAny
<1>4. Sane(cache', newer') /\ AllSound(cache')
  BY <1>3, GotSound
<1>5. CASE Hit(cache, key, now)
  <2>1. PICK s : s = [q EXCEPT !.at = "next", !.qnames = names, !.nx = nx]
    OBVIOUS
  <2>2. Moves(t, s)
    BY <1>3, <1>5, <2>1
  <2> HIDE DEF q
  <2>3. s = CallRecord(s) /\ s.at = "next"
    <3>1. PICK a, b, c, d, e, f, g, h, i, j :
            q = [at |-> a, qnames |-> b, nx |-> c, name |-> d, type |-> e, climbs |-> f,
                 response |-> g, expiration |-> h, how |-> i, responses |-> j]
      BY <1>1, CallFields
    <3>2. s = [at |-> "next", qnames |-> names, nx |-> nx, name |-> d, type |-> e, climbs |-> f,
               response |-> g, expiration |-> h, how |-> i, responses |-> j]
      BY ONLY <2>1, <3>1
    <3> QED
      BY <3>2, IsCall
  <2>4. Holds(s)
    BY <2>3 DEF Holds
  <2>5. StubInv' /\ query'[t] = s /\ \A u \in Threads : u # t => query'[u] = query[u]
    BY <1>1, <1>4, <2>2, <2>4, ThreadMoves
  <2>6. Fresh(cache.data[key].response)
    BY <1>5, HitFresh
  <2> QED
    BY <1>1, <1>2, <2>5, <2>6 DEF q
<1>6. CASE ~Hit(cache, key, now)
  <2>1. PICK s : s = [q EXCEPT !.at = "ask"]
    OBVIOUS
  <2>2. Moves(t, s)
    BY <1>3, <1>6, <2>1
  <2> HIDE DEF q
  <2>3. s = CallRecord(s) /\ s.at = "ask"
    BY <1>1, <2>1, CallAt
  <2>4. Holds(s)
    BY <2>3 DEF Holds
  <2>5. StubInv' /\ query'[t] = s /\ \A u \in Threads : u # t => query'[u] = query[u]
    BY <1>1, <1>4, <2>2, <2>4, ThreadMoves
  <2> QED
    BY <1>1, <2>3, <2>5 DEF q
<1> QED
  BY <1>5, <1>6

-----------------------------------------------------------------------------
LEMMA ExchangeKeeps ==
    ASSUME StubInv, NEW t \in Threads, Exchange(t)
    PROVE  StubInv' /\ (\A u \in Threads : u # t => query'[u] = query[u]) /\ query[t].at = "ask"
<1> DEFINE q == query[t]
<1>1. q.at = "ask" /\ UNCHANGED <<now, world, ended, cache, newer>> /\ q = CallRecord(q)
  BY CallsHold DEF Exchange, Others
<1>2. PICK ttl \in Ttls, terse \in BOOLEAN :
        LET response == Response(world, Head(q.qnames), q.type, ttl, terse)
        IN  Moves(t, [q EXCEPT !.at = "put", !.response = response, !.expiration = Expiration(response)])
  BY DEF Exchange
<1>3. PICK name, type : name = Head(q.qnames) /\ type = q.type
  OBVIOUS
<1>4. PICK r, until : r = Response(world, name, type, ttl, terse) /\ until = Expiration(r)
  OBVIOUS
<1>5. Sound(r, until, now, world, ended)
  BY <1>4, ResponseSound
<1>6. PICK s : s = [q EXCEPT !.at = "put", !.response = r, !.expiration = until]
  OBVIOUS
<1>7. Moves(t, s)
  BY <1>2, <1>3, <1>4, <1>6
<1> HIDE DEF q
<1>8. s = CallRecord(s) /\ s.response = r /\ s.expiration = until
  <2>1. PICK a, b, c, d, e, f, g, h, i, j :
          q = [at |-> a, qnames |-> b, nx |-> c, name |-> d, type |-> e, climbs |-> f,
               response |-> g, expiration |-> h, how |-> i, responses |-> j]
    BY <1>1, CallFields
  <2>2. s = [at |-> "put", qnames |-> b, nx |-> c, name |-> d, type |-> e, climbs |-> f,
             response |-> r, expiration |-> until, how |-> i, responses |-> j]
    BY ONLY <1>6, <2>1
  <2> QED
    BY <2>2, IsCall
<1>9. Holds(s)
  BY <1>5, <1>8 DEF Holds
<1>10. Sane(cache', newer') /\ AllSound(cache')
  BY <1>1, CacheStays
<1>11. StubInv' /\ \A u \in Threads : u # t => query'[u] = query[u]
  BY <1>1, <1>7, <1>9, <1>10, ThreadMoves
<1> QED
  BY <1>1, <1>11 DEF q

LEMMA FailsKeeps ==
    ASSUME StubInv, NEW t \in Threads, Fails(t)
    PROVE  StubInv' /\ (\A u \in Threads : u # t => query'[u] = query[u]) /\ query[t].at = "ask"
<1> DEFINE s == [NoCall EXCEPT !.at = "returned"]
<1>1. query[t].at = "ask" /\ Moves(t, s) /\ UNCHANGED <<now, world, ended, cache, newer>>
  BY DEF Fails, Others
<1>2. Holds(s)
  <2>1. NoCall = CallRecord(NoCall)
    BY NoCallIs
  <2>2. s = CallRecord(s) /\ s.at = "returned"
    BY <2>1, CallAt
  <2> QED
    BY <2>2 DEF Holds
<1> HIDE DEF s
<1>3. Sane(cache', newer') /\ AllSound(cache')
  BY <1>1, CacheStays
<1> QED
  BY <1>1, <1>2, <1>3, ThreadMoves

LEMMA PutAnswerKeeps ==
    ASSUME StubInv, \A name, type : <<name, type>> # Sentinel, NEW t \in Threads, PutAnswer(t)
    PROVE  StubInv' /\ (\A u \in Threads : u # t => query'[u] = query[u]) /\ query[t].at = "put"
<1> DEFINE q == query[t]
<1>1. q.at = "put" /\ UNCHANGED <<now, world, ended>> /\ q = CallRecord(q)
  BY CallsHold DEF PutAnswer, Others
<1>2. PICK key : key = IF q.response.nx THEN AnyKey(q) ELSE Key(q)
  OBVIOUS
<1>3. key # Sentinel
  BY <1>2 DEF AnyKey, Key
<1>4. PICK value : value = [response |-> q.response, expiration |-> q.expiration]
  OBVIOUS
<1>5. Sound(value.response, value.expiration, now, world, ended)
  BY <1>1, <1>4 DEF StubInv
<1>6. UNCHANGED <<cache, newer>> \/ Uses(Put(cache, key, value, now), key)
  BY <1>2, <1>4 DEF PutAnswer
<1>7. Sane(cache', newer') /\ AllSound(cache')
  <2>1. CASE UNCHANGED <<cache, newer>>
    BY <2>1, CacheStays
  <2>2. CASE Uses(Put(cache, key, value, now), key)
    BY <1>3, <1>5, <2>2, PutSound
  <2> QED
    BY <1>6, <2>1, <2>2
<1>8. PICK s : Moves(t, s) /\ Holds(s)
  <2>1. CASE q.response.nx
    <3>1. PICK names, nx : names = Tail(q.qnames) /\ nx = Noted(q, q.response)
      OBVIOUS
    <3>2. PICK s : s = [q EXCEPT !.at = "next", !.qnames = names, !.nx = nx]
      OBVIOUS
    <3>3. Moves(t, s)
      BY <2>1, <3>1, <3>2 DEF PutAnswer
    <3> HIDE DEF q
    <3>4. s = CallRecord(s) /\ s.at = "next"
      <4>1. PICK a, b, c, d, e, f, g, h, i, j :
              q = [at |-> a, qnames |-> b, nx |-> c, name |-> d, type |-> e, climbs |-> f,
                   response |-> g, expiration |-> h, how |-> i, responses |-> j]
        BY <1>1, CallFields
      <4>2. s = [at |-> "next", qnames |-> names, nx |-> nx, name |-> d, type |-> e, climbs |-> f,
                 response |-> g, expiration |-> h, how |-> i, responses |-> j]
        BY ONLY <3>2, <4>1
      <4> QED
        BY <4>2, IsCall
    <3>5. Holds(s)
      BY <3>4 DEF Holds
    <3> QED
      BY <3>3, <3>5
  <2>2. CASE ~q.response.nx
    <3>1. Moves(t, Told(q, q.response))
      BY <2>2 DEF PutAnswer
    <3>2. Holds(Told(q, q.response))
      BY ReturnedHolds DEF Told
    <3> QED
      BY <3>1, <3>2
  <2> QED
    BY <2>1, <2>2
<1>9. StubInv' /\ \A u \in Threads : u # t => query'[u] = query[u]
  BY <1>1, <1>7, <1>8, ThreadMoves
<1> QED
  BY <1>1, <1>9

LEMMA ClimbKeeps ==
    ASSUME StubInv, NEW t \in Threads, Climb(t)
    PROVE  StubInv' /\ (\A u \in Threads : u # t => query'[u] = query[u]) /\ query[t].at = "climb"
<1> DEFINE q == query[t]
           response == CHOOSE r \in q.responses : TRUE
<1>1. q.at = "climb" /\ UNCHANGED <<now, world, ended, cache, newer>> /\ q = CallRecord(q)
  BY CallsHold DEF Climb, Others
<1>2. \E name, how, names, nx :
        \/ Moves(t, [q EXCEPT !.at = "returned"]) \/ Moves(t, [q EXCEPT !.at = "returned", !.name = name])
        \/ Moves(t, [q EXCEPT !.at = "returned", !.how = how])
        \/ Moves(t, [q EXCEPT !.at = "next", !.name = name, !.qnames = names, !.nx = nx])
  <2>1. CASE q.how = "answer" /\ response.owner = q.name
    BY <2>1 DEF Climb
  <2>2. CASE ~(q.how = "answer" /\ response.owner = q.name)
    <3>1. CASE q.how # "answer" /\ response.soa \in Above(q.name) \ {q.name}
      <4>1. Moves(t, [q EXCEPT !.at = "returned", !.name = response.soa])
        BY <2>2, <3>1 DEF Climb
      <4> QED
        BY <4>1
    <3>2. CASE ~(q.how # "answer" /\ response.soa \in Above(q.name) \ {q.name})
      <4>1. CASE q.name = <<>>
        <5>1. Moves(t, [q EXCEPT !.at = "returned", !.how = "NoRootSOA"])
          BY <2>2, <3>2, <4>1 DEF Climb
        <5> QED
          BY <5>1
      <4>2. CASE q.name # <<>>
        <5>1. Moves(t, [q EXCEPT !.at = "next", !.name = Parent(q.name), !.qnames = <<Parent(q.name)>>, !.nx = {}])
          BY <2>2, <3>2, <4>2 DEF Climb
        <5> QED
          BY <5>1
      <4> QED
        BY <4>1, <4>2
    <3> QED
      BY <3>1, <3>2
  <2> QED
    BY <2>1, <2>2
<1>3. PICK name, how, names, nx :
        \/ Moves(t, [q EXCEPT !.at = "returned"]) \/ Moves(t, [q EXCEPT !.at = "returned", !.name = name])
        \/ Moves(t, [q EXCEPT !.at = "returned", !.how = how])
        \/ Moves(t, [q EXCEPT !.at = "next", !.name = name, !.qnames = names, !.nx = nx])
  BY <1>2
<1> HIDE DEF q
<1>4. PICK s : Moves(t, s) /\ Holds(s)
  <2>1. CASE Moves(t, [q EXCEPT !.at = "returned"])
    <3>1. PICK s : s = [q EXCEPT !.at = "returned"]
      OBVIOUS
    <3>2. s = CallRecord(s) /\ s.at = "returned"
      BY <1>1, <3>1, CallAt
    <3> QED
      BY <2>1, <3>1, <3>2 DEF Holds
  <2>2. CASE Moves(t, [q EXCEPT !.at = "returned", !.name = name])
    <3>1. PICK s : s = [q EXCEPT !.at = "returned", !.name = name]
      OBVIOUS
    <3>2. s = CallRecord(s) /\ s.at = "returned"
      <4>1. PICK a, b, c, d, e, f, g, h, i, j :
              q = [at |-> a, qnames |-> b, nx |-> c, name |-> d, type |-> e, climbs |-> f,
                   response |-> g, expiration |-> h, how |-> i, responses |-> j]
        BY <1>1, CallFields
      <4>2. s = [at |-> "returned", qnames |-> b, nx |-> c, name |-> name, type |-> e, climbs |-> f,
                 response |-> g, expiration |-> h, how |-> i, responses |-> j]
        BY ONLY <3>1, <4>1
      <4> QED
        BY <4>2, IsCall
    <3> QED
      BY <2>2, <3>1, <3>2 DEF Holds
  <2>3. CASE Moves(t, [q EXCEPT !.at = "returned", !.how = how])
    <3>1. PICK s : s = [q EXCEPT !.at = "returned", !.how = how]
      OBVIOUS
    <3>2. s = CallRecord(s) /\ s.at = "returned"
      <4>1. PICK a, b, c, d, e, f, g, h, i, j :
              q = [at |-> a, qnames |-> b, nx |-> c, name |-> d, type |-> e, climbs |-> f,
                   response |-> g, expiration |-> h, how |-> i, responses |-> j]
        BY <1>1, CallFields
      <4>2. s = [at |-> "returned", qnames |-> b, nx |-> c, name |-> d, type |-> e, climbs |-> f,
                 response |-> g, expiration |-> h, how |-> how, responses |-> j]
        BY ONLY <3>1, <4>1
      <4> QED
        BY <4>2, IsCall
    <3> QED
      BY <2>3, <3>1, <3>2 DEF Holds
  <2>4. CASE Moves(t, [q EXCEPT !.at = "next", !.name = name, !.qnames = names, !.nx = nx])
    <3>1. PICK s : s = [q EXCEPT !.at = "next", !.name = name, !.qnames = names, !.nx = nx]
      OBVIOUS
    <3>2. s = CallRecord(s) /\ s.at = "next"
      <4>1. PICK a, b, c, d, e, f, g, h, i, j :
              q = [at |-> a, qnames |-> b, nx |-> c, name |-> d, type |-> e, climbs |-> f,
                   response |-> g, expiration |-> h, how |-> i, responses |-> j]
        BY <1>1, CallFields
      <4>2. s = [at |-> "next", qnames |-> names, nx |-> nx, name |-> name, type |-> e, climbs |-> f,
                 response |-> g, expiration |-> h, how |-> i, responses |-> j]
        BY ONLY <3>1, <4>1
      <4> QED
        BY <4>2, IsCall
    <3> QED
      BY <2>4, <3>1, <3>2 DEF Holds
  <2> QED
    BY <1>3, <2>1, <2>2, <2>3, <2>4
<1>5. Sane(cache', newer') /\ AllSound(cache')
  BY <1>1, CacheStays
<1>6. StubInv' /\ \A u \in Threads : u # t => query'[u] = query[u]
  BY <1>1, <1>4, <1>5, ThreadMoves
<1> QED
  BY <1>1, <1>6 DEF q

LEMMA FlushKeeps ==
    ASSUME StubInv, Flush
    PROVE  StubInv' /\ query' = query
<1>1. /\ newer' = Kept(DOMAIN cache'.data, newer)
      /\ now' = now /\ world' = world /\ ended' = ended /\ query' = query
  BY DEF Flush, Kept
<1>2. Sane(cache, newer) /\ AllSound(cache)
  BY DEF StubInv
<1>3. Sane(cache', newer) /\ Less(cache', cache)
  <2>1. ASSUME NEW key, cache' = Flushed(cache, key)
        PROVE  Sane(cache', newer) /\ Less(cache', cache)
    BY <1>2, <2>1, FlushedSane
  <2>2. ASSUME cache' = FlushedAll(cache, now)
        PROVE  Sane(cache', newer) /\ Less(cache', cache)
    BY <1>2, <2>2, FlushedAllSane
  <2>3. ASSUME NEW size \in Sizes, cache.kind = "LRUCache", cache' = Resized(cache, size)
        PROVE  Sane(cache', newer) /\ Less(cache', cache)
    <3>1. size \in Int /\ cache.kind # "Cache"
      BY <2>3, StubAssumption
    <3> QED
      BY <1>2, <2>3, <3>1, ResizedSane
  <2> QED
    BY <2>1, <2>2, <2>3 DEF Flush
<1>4. PICK c : c = cache'
  OBVIOUS
<1>5. Sane(c, newer) /\ Less(c, cache)
  BY <1>3, <1>4
<1>6. Sane(c, Kept(DOMAIN c.data, newer))
  BY <1>5, KeptSane
<1>7. AllSound(c)
  BY <1>2, <1>5, LessSound
<1>8. Sane(cache, newer)' /\ AllSound(cache)'
  BY <1>1, <1>4, <1>6, <1>7 DEF AllSound
<1> QED
  BY <1>1, <1>8 DEF StubInv, StubTypeOK

LEMMA TickKeeps ==
    ASSUME StubInv, Tick
    PROVE  StubInv' /\ query' = query
<1>1. /\ now' = now + 1 /\ cache' = cache /\ newer' = newer /\ world' = world /\ ended' = ended /\ query' = query
  BY DEF Tick
<1>2. now \in Nat /\ world \in Nat \ {0} /\ ended \in Seq(Nat) /\ now + 1 \in Nat
  BY DEF StubInv, StubTypeOK
<1>3. \A r, e : Sound(r, e, now, world, ended) => Sound(r, e, now', world', ended')
  BY <1>1, <1>2, SoundLater
<1>4. AllSound(cache)'
  BY <1>1, <1>3 DEF StubInv, AllSound
<1>5. StubTypeOK'
  BY <1>1, <1>2 DEF StubInv, StubTypeOK
<1> QED
  BY <1>1, <1>3, <1>4, <1>5 DEF StubInv

LEMMA WorldKeeps ==
    ASSUME StubInv, WorldChanges
    PROVE  StubInv' /\ query' = query
<1>1. /\ world' = world + 1 /\ ended' = Append(ended, now)
      /\ cache' = cache /\ newer' = newer /\ now' = now /\ query' = query
  BY DEF WorldChanges
<1>2. /\ now \in Nat /\ world \in Nat \ {0} /\ ended \in Seq(Nat) /\ Len(ended) = world - 1
  BY DEF StubInv, StubTypeOK
<1>3. \A r, e : Sound(r, e, now, world, ended) => Sound(r, e, now', world', ended')
  BY <1>1, <1>2, SoundChanged
<1>4. AllSound(cache)'
  BY <1>1, <1>3 DEF StubInv, AllSound
<1>5. StubTypeOK'
  <2>1. world + 1 \in Nat \ {0} /\ Append(ended, now) \in Seq(Nat) /\ Len(Append(ended, now)) = (world + 1) - 1
    BY <1>2
  <2> QED
    BY <1>1, <1>2, <2>1 DEF StubInv, StubTypeOK
<1> QED
  BY <1>1, <1>3, <1>4, <1>5 DEF StubInv

-----------------------------------------------------------------------------
(* What a thread takes from the cache in a step is fresh.                    *)
TakesFresh(t) ==
    /\ query[t].at = "next" /\ query[t].qnames # <<>> /\ query'[t].at \in {"returned", "climb"}
          => Fresh(cache.data[Key(query[t])].response)
    /\ query[t].at = "any" /\ query'[t].at = "next"
          => Fresh(cache.data[AnyKey(query[t])].response)

LEMMA TakesFreshIs ==
    ASSUME \A t \in Threads : TakesFresh(t)
    PROVE  \A t \in Threads :
             LET q == query[t]
             IN  /\ q.at = "next" /\ q.qnames # <<>> /\ query'[t].at \in {"returned", "climb"}
                       => Fresh(cache.data[Key(q)].response)
                 /\ q.at = "any" /\ query'[t].at = "next"
                       => Fresh(cache.data[AnyKey(q)].response)
BY DEF TakesFresh

(* A thread that does not move takes nothing.                                *)
LEMMA StillTakesNothing ==
    ASSUME NEW t, query'[t] = query[t]
    PROVE  TakesFresh(t)
BY DEF TakesFresh

LEMMA ThreadKeeps ==
    ASSUME StubInv, \A name, type : <<name, type>> # Sentinel, NEW t \in Threads,
           \/ \E request \in Requests : Call(t, request)
           \/ OutOfNames(t) \/ AskCache(t) \/ AskCacheForAny(t) \/ Exchange(t) \/ Fails(t)
           \/ PutAnswer(t) \/ Climb(t)
    PROVE  StubInv' /\ (\A u \in Threads : u # t => query'[u] = query[u]) /\ TakesFresh(t)
<1>1. ASSUME NEW request \in Requests, Call(t, request)
      PROVE  StubInv' /\ (\A u \in Threads : u # t => query'[u] = query[u]) /\ TakesFresh(t)
  BY <1>1, CallKeeps DEF TakesFresh
<1>2. CASE OutOfNames(t)
  BY <1>2, OutOfNamesKeeps DEF TakesFresh
<1>3. CASE AskCache(t)
  BY <1>3, AskCacheKeeps DEF TakesFresh
<1>4. CASE AskCacheForAny(t)
  BY <1>4, AskAnyKeeps DEF TakesFresh
<1>5. CASE Exchange(t)
  BY <1>5, ExchangeKeeps DEF TakesFresh
<1>6. CASE Fails(t)
  BY <1>6, FailsKeeps DEF TakesFresh
<1>7. CASE PutAnswer(t)
  BY <1>7, PutAnswerKeeps DEF TakesFresh
<1>8. CASE Climb(t)
  BY <1>8, ClimbKeeps DEF TakesFresh
<1> QED
  BY <1>1, <1>2, <1>3, <1>4, <1>5, <1>6, <1>7, <1>8

LEMMA StubKeeps ==
    ASSUME StubInv, \A name, type : <<name, type>> # Sentinel, [StubNext]_stubVars
    PROVE  StubInv' /\ \A t \in Threads : TakesFresh(t)
<1>1. ASSUME NEW t \in Threads,
             \/ \E request \in Requests : Call(t, request)
             \/ OutOfNames(t) \/ AskCache(t) \/ AskCacheForAny(t) \/ Exchange(t) \/ Fails(t)
             \/ PutAnswer(t) \/ Climb(t)
      PROVE  StubInv' /\ \A u \in Threads : TakesFresh(u)
  <2>1. StubInv' /\ (\A u \in Threads : u # t => query'[u] = query[u]) /\ TakesFresh(t)
    BY <1>1, ThreadKeeps
  <2>2. ASSUME NEW u \in Threads PROVE TakesFresh(u)
    BY <2>1, StillTakesNothing
  <2> QED
    BY <2>1, <2>2
<1>2. ASSUME StubInv' /\ query' = query
      PROVE  StubInv' /\ \A u \in Threads : TakesFresh(u)
  BY <1>2, StillTakesNothing
<1>3. CASE Flush
  BY <1>2, <1>3, FlushKeeps
<1>4. CASE Tick
  BY <1>2, <1>4, TickKeeps
<1>5. CASE WorldChanges
  BY <1>2, <1>5, WorldKeeps
<1>6. CASE UNCHANGED stubVars
  <2>1. /\ cache' = cache /\ newer' = newer /\ now' = now /\ world' = world /\ ended' = ended /\ query' = query
    BY <1>6 DEF stubVars
  <2>2. StubTypeOK' /\ Sane(cache, newer)' /\ AllSound(cache)'
    BY <2>1 DEF StubInv, StubTypeOK, AllSound
  <2>3. StubInv'
    BY <2>1, <2>2 DEF StubInv
  <2> QED
    BY <1>2, <2>1, <2>3
<1> QED
  BY <1>1, <1>3, <1>4, <1>5, <1>6 DEF StubNext

(* However threads get, put and flush, and with expiry, eviction and a       *)
(* smaller max_size between, the dictionary of an LRUCache and its ring have *)
(* the same keys, and the ring is the same along next and along prev, in the *)
(* order of last use (dns/resolver.py:440-569).  The sentinel of the ring is *)
(* not the node of a name.                                                   *)
THEOREM RingStaysInOrder ==
    ASSUME \A name, type : <<name, type>> # Sentinel
    PROVE  StubSpec => []RingInOrder
<1>1. StubInit => StubInv
  BY StubStarts
<1>2. StubInv /\ [StubNext]_stubVars => StubInv'
  BY StubKeeps
<1>3. StubInv => RingInOrder
  <2> SUFFICES ASSUME StubInv, cache.kind = "LRUCache"
               PROVE  Ringed(cache.next, cache.prev, DOMAIN cache.data, newer)
    BY DEF RingInOrder
  <2> QED
    BY DEF StubInv, Sane, InRing
<1> QED
  BY <1>1, <1>2, <1>3, PTL DEF StubSpec

(* What a call takes from the cache is what the nameservers said of a world  *)
(* that was there no longer ago than its TTL, however slow the threads are   *)
(* to put what they got (dns/resolver.py:279, 388-406, 488-514).             *)
THEOREM CacheAnswersFresh ==
    ASSUME \A name, type : <<name, type>> # Sentinel
    PROVE  StubSpec => AnswersFresh
<1>1. StubInit => StubInv
  BY StubStarts
<1>2. StubInv /\ [StubNext]_stubVars => StubInv'
  BY StubKeeps
<1>3. StubInv /\ [StubNext]_stubVars =>
        [\A t \in Threads :
             LET q == query[t]
             IN  /\ q.at = "next" /\ q.qnames # <<>> /\ query'[t].at \in {"returned", "climb"}
                       => Fresh(cache.data[Key(q)].response)
                 /\ q.at = "any" /\ query'[t].at = "next"
                       => Fresh(cache.data[AnyKey(q)].response)]_stubVars
  BY StubKeeps, TakesFreshIs
<1> QED
  BY <1>1, <1>2, <1>3, PTL DEF StubSpec, AnswersFresh

-----------------------------------------------------------------------------
(* What the operations of a transaction do to the content of its version.  *)

ContentOf(w) == Content(w.heap, w.nodes)

(* Writing a writer's own object of a name changes what is at that name.   *)
LEMMA OwnWriteContent ==
    ASSUME NEW w, NEW memory, NEW id \in Nat, Fits(w, memory, id),
           NEW name, name \in DOMAIN w.nodes, NEW value
    PROVE  LET v == [w EXCEPT !.heap = [w.heap EXCEPT ![w.nodes[name]] = value]]
           IN  /\ ContentOf(v) = Assign(ContentOf(w), name, value)
               /\ v.nodes = w.nodes /\ v.heap[w.nodes[name]] = value
<1> DEFINE o == w.nodes[name]
           v == [w EXCEPT !.heap = [w.heap EXCEPT ![o] = value]]
<1>1. v.nodes = w.nodes /\ v.heap = [w.heap EXCEPT ![o] = value]
  BY DEF Fits, Parts
<1>2. \A n \in DOMAIN w.nodes : w.nodes[n] \in DOMAIN w.heap /\ w.nodes[n][2] = n
  BY DEF Fits, NodesFit
<1>3. \A n \in DOMAIN w.nodes : n # name => w.nodes[n] # o
  BY <1>2
<1>4. o \in DOMAIN w.heap
  BY <1>2
<1> HIDE DEF o, v
<1>5. v.heap[o] = value /\ \A n \in DOMAIN w.nodes : n # name => v.heap[w.nodes[n]] = w.heap[w.nodes[n]]
  BY <1>1, <1>2, <1>3, <1>4
<1>6. w.nodes[name] = o
  BY DEF o
<1>7. ContentOf(v) = Assign(ContentOf(w), name, value)
  BY <1>1, <1>5, <1>6 DEF ContentOf, Content, Assign
<1> QED
  BY <1>1, <1>5, <1>6, <1>7 DEF v, o

LEMMA CowContent ==
    ASSUME NEW w, NEW memory, NEW id \in Nat, Fits(w, memory, id), NEW name
    PROVE  LET copy == MaybeCow(w, name)
           IN  /\ ContentOf(copy) = Assign(ContentOf(w), name, Node(w, name))
               /\ copy.heap[copy.nodes[name]] = Node(w, name)
<1>1. CASE name \in DOMAIN w.nodes /\ name \in w.changed
  <2>1. MaybeCow(w, name) = w /\ Node(w, name) = w.heap[w.nodes[name]]
    BY <1>1 DEF MaybeCow, Node
  <2>2. ContentOf(w) = Assign(ContentOf(w), name, Node(w, name))
    BY <1>1, <2>1 DEF ContentOf, Content, Assign
  <2> QED
    BY <1>1, <2>1, <2>2
<1>2. CASE ~(name \in DOMAIN w.nodes /\ name \in w.changed)
  <2> DEFINE node == Node(w, name)
             o == <<id, name>>
             v == MaybeCow(w, name)
  <2>1. v = [w EXCEPT !.heap = Assign(w.heap, o, node), !.nodes = Assign(w.nodes, name, o),
                      !.changed = w.changed \cup {name}]
    BY <1>2 DEF MaybeCow, Fits, Parts, Node
  <2> HIDE DEF v, node
  <2>2. /\ v.heap = Assign(w.heap, o, node) /\ v.nodes = Assign(w.nodes, name, o)
    BY <2>1 DEF Fits, Parts
  <2>3. o[2] = name
    OBVIOUS
  <2> HIDE DEF o
  <2>4. /\ v.heap[o] = node
        /\ \A p \in DOMAIN w.heap : p # o => v.heap[p] = w.heap[p]
        /\ DOMAIN v.nodes = DOMAIN w.nodes \cup {name} /\ v.nodes[name] = o
        /\ \A n \in DOMAIN w.nodes : n # name => v.nodes[n] = w.nodes[n]
    BY <2>2 DEF Assign
  <2>5. \A n \in DOMAIN w.nodes : w.nodes[n] \in DOMAIN w.heap /\ w.nodes[n][2] = n
    BY DEF Fits, NodesFit
  <2>6. \A n \in DOMAIN w.nodes : n # name => v.heap[v.nodes[n]] = w.heap[w.nodes[n]]
    BY <2>3, <2>4, <2>5
  <2>7. ContentOf(v) = Assign(ContentOf(w), name, node)
    BY <2>4, <2>6 DEF ContentOf, Content, Assign
  <2> QED
    BY <2>4, <2>7 DEF v, node
<1> QED
  BY <1>1, <1>2

LEMMA PutContent ==
    ASSUME NEW w, NEW memory, NEW id \in Nat, Fits(w, memory, id), NEW name, NEW type, NEW set
    PROVE  LET v == PutRdataset(w, name, type, set)
           IN  ContentOf(v) = Assign(ContentOf(w), name, Replaced(Node(w, name), type, set))
<1> DEFINE copy == MaybeCow(w, name)
           o == copy.nodes[name]
           value == Replaced(copy.heap[o], type, set)
           v == [copy EXCEPT !.heap = [copy.heap EXCEPT ![o] = value]]
<1>1. Fits(copy, memory, id) /\ name \in DOMAIN copy.nodes
  BY CowFits
<1>2. /\ ContentOf(copy) = Assign(ContentOf(w), name, Node(w, name))
      /\ copy.heap[o] = Node(w, name)
  BY CowContent
<1>3. PutRdataset(w, name, type, set) = v
  BY DEF PutRdataset
<1>4. value = Replaced(Node(w, name), type, set)
  BY <1>2
<1> HIDE DEF copy, value
<1>5. ContentOf(v) = Assign(ContentOf(copy), name, value)
  BY <1>1, OwnWriteContent
<1>6. ContentOf(v) = Assign(ContentOf(w), name, value)
  BY <1>2, <1>5 DEF Assign
<1> QED
  BY <1>3, <1>4, <1>6

LEMMA DeleteContent ==
    ASSUME NEW w, NEW memory, NEW id \in Nat, Fits(w, memory, id), NEW name, NEW type
    PROVE  LET v == DeleteRdataset(w, name, type)
               left == WithoutType(Node(w, name), type)
           IN  ContentOf(v) = IF left = EmptyNode THEN Restrict(ContentOf(w), DOMAIN ContentOf(w) \ {name})
                              ELSE Assign(ContentOf(w), name, left)
<1> DEFINE copy == MaybeCow(w, name)
           o == copy.nodes[name]
           value == WithoutType(copy.heap[o], type)
           less == [copy EXCEPT !.heap = [copy.heap EXCEPT ![o] = value]]
           v == DeleteRdataset(w, name, type)
<1>1. Fits(copy, memory, id) /\ name \in DOMAIN copy.nodes
  BY CowFits
<1>2. /\ ContentOf(copy) = Assign(ContentOf(w), name, Node(w, name))
      /\ copy.heap[o] = Node(w, name)
  BY CowContent
<1>3. v = IF less.heap[less.nodes[name]] = EmptyNode THEN DropNode(less, name) ELSE less
  BY DEF DeleteRdataset
<1>4. value = WithoutType(Node(w, name), type)
  BY <1>2
<1> HIDE DEF copy, value
<1>5. /\ ContentOf(less) = Assign(ContentOf(copy), name, value)
      /\ less.nodes = copy.nodes /\ less.heap[o] = value
  BY <1>1, OwnWriteContent
<1>6. ContentOf(less) = Assign(ContentOf(w), name, value)
  BY <1>2, <1>5 DEF Assign
<1>7. DOMAIN less = Parts
  BY <1>1, <1>2 DEF Fits, Parts
<1>8. CASE value # EmptyNode
  <2>1. v = less
    BY <1>3, <1>5, <1>8
  <2> QED
    BY <1>4, <1>6, <1>8, <2>1
<1>9. CASE value = EmptyNode
  <2>1. v = DropNode(less, name)
    BY <1>3, <1>5, <1>9
  <2> HIDE DEF less, v
  <2>2. /\ v.heap = less.heap
        /\ v.nodes = Restrict(less.nodes, DOMAIN less.nodes \ {name})
    BY <1>7, <2>1 DEF DropNode, Parts
  <2>3. ContentOf(v) = Restrict(ContentOf(less), DOMAIN ContentOf(less) \ {name})
    BY <2>2 DEF ContentOf, Content, Restrict
  <2>4. ContentOf(v) = Restrict(ContentOf(w), DOMAIN ContentOf(w) \ {name})
    BY <1>6, <2>3 DEF Assign, Restrict
  <2> QED
    BY <1>4, <1>9, <2>4 DEF v
<1> QED
  BY <1>8, <1>9

(* The node of a name in a content.                                        *)
NodeAt(c, name) == IF name \in DOMAIN c THEN c[name] ELSE EmptyNode

LEMMA NodeIsAt ==
    ASSUME NEW w, NEW name
    PROVE  Node(w, name) = NodeAt(ContentOf(w), name)
BY DEF Node, NodeAt, ContentOf, Content

-----------------------------------------------------------------------------
(* Zones and the sets of records that make them.                           *)

Same(S, name, type) == {rr \in S : rr.name = name /\ rr.type = type}
SetIn(S, name, type) ==
    [ttl |-> (CHOOSE rr \in Same(S, name, type) : TRUE).ttl, rdatas |-> {rr.rd : rr \in Same(S, name, type)}]
NamesOf(S) == {rr.name : rr \in S}
TypesOf(S, name) == {rr.type : rr \in {x \in S : x.name = name}}
NodeIn(S, name) == [type \in TypesOf(S, name) |-> SetIn(S, name, type)]

(* What one zone may hold.                                                 *)
Coherent(rr, other) ==
    rr.name = other.name =>
        /\ Compatible(rr.type, other.type)
        /\ rr.type = other.type => rr.ttl = other.ttl /\ (rr.type \in Singletons => rr = other)

IsRecord(rr) == rr = [name |-> rr.name, type |-> rr.type, ttl |-> rr.ttl, rd |-> rr.rd]

Consistent(S) ==
    /\ \A rr \in S : IsRecord(rr) /\ (rr.type = "SOA" => rr.name = Apex)
    /\ \A rr, other \in S : Coherent(rr, other)

JustOne(rr) == [ttl |-> rr.ttl, rdatas |-> {rr.rd}]

LEMMA ZoneIs ==
    ASSUME NEW S
    PROVE  ZoneOf(S) = [name \in NamesOf(S) |-> NodeIn(S, name)]
BY DEF ZoneOf, NamesOf, NodeIn, TypesOf, SetIn, Same

LEMMA NodeOfZone ==
    ASSUME NEW S, NEW name
    PROVE  NodeAt(ZoneOf(S), name) = NodeIn(S, name)
<1>1. CASE name \in NamesOf(S)
  BY <1>1, ZoneIs DEF NodeAt
<1>2. CASE name \notin NamesOf(S)
  <2>1. TypesOf(S, name) = {}
    BY <1>2 DEF NamesOf, TypesOf
  <2>2. NodeAt(ZoneOf(S), name) = EmptyNode
    BY <1>2, ZoneIs DEF NodeAt
  <2>3. NodeIn(S, name) = EmptyNode
    BY <2>1 DEF NodeIn, EmptyNode
  <2> QED
    BY <2>2, <2>3
<1> QED
  BY <1>1, <1>2

LEMMA NodeElsewhere ==
    ASSUME NEW S, NEW T, NEW name, {rr \in S : rr.name = name} = {rr \in T : rr.name = name}
    PROVE  (name \in NamesOf(S) <=> name \in NamesOf(T)) /\ NodeIn(S, name) = NodeIn(T, name)
<1>1. TypesOf(S, name) = TypesOf(T, name)
  BY DEF TypesOf
<1>2. ASSUME NEW type PROVE SetIn(S, name, type) = SetIn(T, name, type)
  <2>1. Same(S, name, type) = Same(T, name, type)
    BY DEF Same
  <2> QED
    BY <2>1 DEF SetIn
<1> QED
  BY <1>1, <1>2 DEF NamesOf, NodeIn

(* A zone that differs at one name.                                        *)
LEMMA ZoneAssigned ==
    ASSUME NEW S, NEW T, NEW name \in NamesOf(T),
           \A n : n # name => {rr \in S : rr.name = n} = {rr \in T : rr.name = n}
    PROVE  Assign(ZoneOf(S), name, NodeIn(T, name)) = ZoneOf(T)
<1>1. ASSUME NEW n, n # name
      PROVE  (n \in NamesOf(S) <=> n \in NamesOf(T)) /\ NodeIn(S, n) = NodeIn(T, n)
  BY <1>1, NodeElsewhere
<1>2. NamesOf(T) = NamesOf(S) \cup {name}
  BY <1>1
<1> QED
  BY <1>1, <1>2, ZoneIs DEF Assign

LEMMA ZoneRestricted ==
    ASSUME NEW S, NEW T, NEW name, name \notin NamesOf(T),
           \A n : n # name => {rr \in S : rr.name = n} = {rr \in T : rr.name = n}
    PROVE  Restrict(ZoneOf(S), DOMAIN ZoneOf(S) \ {name}) = ZoneOf(T)
<1>1. ASSUME NEW n, n # name
      PROVE  (n \in NamesOf(S) <=> n \in NamesOf(T)) /\ NodeIn(S, n) = NodeIn(T, n)
  BY <1>1, NodeElsewhere
<1>2. NamesOf(T) = NamesOf(S) \ {name}
  BY <1>1
<1> QED
  BY <1>1, <1>2, ZoneIs DEF Restrict

(* A node whose set of a type is put, and drives nothing out.              *)
LEMMA NodeReplaced ==
    ASSUME NEW S, NEW T, NEW name, NEW type, NEW set,
           TypesOf(T, name) = TypesOf(S, name) \cup {type}, SetIn(T, name, type) = set,
           \A present \in TypesOf(S, name) : present # type =>
              SetIn(T, name, present) = SetIn(S, name, present) /\ Compatible(type, present)
    PROVE  Replaced(NodeIn(S, name), type, set) = NodeIn(T, name)
<1> DEFINE node == WithoutType(NodeIn(S, name), type)
<1>1. /\ DOMAIN node = TypesOf(S, name) \ {type}
      /\ \A present \in DOMAIN node : node[present] = SetIn(S, name, present)
  BY DEF NodeIn, WithoutType, Restrict
<1>2. Replaced(NodeIn(S, name), type, set) = Appended(node, type, set)
  BY DEF Replaced
<1> HIDE DEF node
<1>3. {present \in DOMAIN node : Compatible(type, present)} \cup {type} = TypesOf(T, name)
  BY <1>1
<1>4. Appended(node, type, set) =
        [present \in TypesOf(T, name) |-> IF present = type THEN set ELSE node[present]]
  BY <1>3 DEF Appended
<1> QED
  BY <1>1, <1>2, <1>4 DEF NodeIn

(* The set of a type, when all its records have one TTL.                   *)
LEMMA SetOfRecords ==
    ASSUME NEW S, Consistent(S), NEW rr \in S
    PROVE  SetIn(S, rr.name, rr.type) = [ttl |-> rr.ttl, rdatas |-> {x.rd : x \in Same(S, rr.name, rr.type)}]
<1> DEFINE same == Same(S, rr.name, rr.type)
           first == CHOOSE x \in same : TRUE
<1>1. rr \in same
  BY DEF Same
<1>2. first \in same
  BY <1>1
<1>3. first.ttl = rr.ttl
  BY <1>2 DEF Same, Consistent, Coherent
<1> QED
  BY <1>3 DEF SetIn

LEMMA RecordAdded ==
    ASSUME NEW S, NEW rr, Consistent(S \cup {rr})
    PROVE  LET node == NodeIn(S, rr.name)
               set == IF rr.type \in DOMAIN node THEN UnionOf(rr.type, node[rr.type], JustOne(rr)) ELSE JustOne(rr)
           IN  Replaced(node, rr.type, set) = NodeIn(S \cup {rr}, rr.name)
<1> DEFINE name == rr.name
           type == rr.type
           T == S \cup {rr}
           node == NodeIn(S, name)
           set == IF type \in DOMAIN node THEN UnionOf(type, node[type], JustOne(rr)) ELSE JustOne(rr)
<1>1. TypesOf(T, name) = TypesOf(S, name) \cup {type}
  BY DEF TypesOf
<1>2. ASSUME NEW present \in TypesOf(S, name), present # type
      PROVE  SetIn(T, name, present) = SetIn(S, name, present) /\ Compatible(type, present)
  <2>1. Same(T, name, present) = Same(S, name, present)
    BY <1>2 DEF Same
  <2>2. PICK other \in S : other.name = name /\ other.type = present
    BY DEF TypesOf
  <2>3. Coherent(rr, other)
    BY DEF Consistent
  <2> QED
    BY <2>1, <2>2, <2>3 DEF SetIn, Coherent
<1>3. SetIn(T, name, type) = [ttl |-> rr.ttl, rdatas |-> {x.rd : x \in Same(T, name, type)}]
  BY SetOfRecords
<1>4. {x.rd : x \in Same(T, name, type)} = {x.rd : x \in Same(S, name, type)} \cup {rr.rd}
  BY DEF Same
<1>5. SetIn(T, name, type) = set
  <2>1. CASE type \notin TypesOf(S, name)
    <3>1. Same(S, name, type) = {}
      BY <2>1 DEF TypesOf, Same
    <3>2. set = JustOne(rr)
      BY <2>1 DEF NodeIn
    <3> HIDE DEF set
    <3> QED
      BY <1>3, <1>4, <3>1, <3>2 DEF JustOne
  <2>2. CASE type \in TypesOf(S, name)
    <3>1. PICK other \in S : other.name = name /\ other.type = type
      BY <2>2 DEF TypesOf
    <3>2. Consistent(S) /\ other.ttl = rr.ttl /\ (type \in Singletons => \A x \in Same(S, name, type) : x = rr)
      <4>1. \A x \in S : Coherent(x, rr)
        BY DEF Consistent
      <4> QED
        BY <3>1, <4>1 DEF Consistent, Coherent, Same
    <3>3. SetIn(S, name, type) = [ttl |-> rr.ttl, rdatas |-> {x.rd : x \in Same(S, name, type)}]
      BY <3>1, <3>2, SetOfRecords
    <3>4. PICK old : old = {x.rd : x \in Same(S, name, type)}
      OBVIOUS
    <3>5. node[type] = [ttl |-> rr.ttl, rdatas |-> old] /\ type \in DOMAIN node
      BY <2>2, <3>3, <3>4 DEF NodeIn
    <3>6. set = UnionOf(type, [ttl |-> rr.ttl, rdatas |-> old], JustOne(rr))
      BY <3>5
    <3>7. type \in Singletons => old \subseteq {rr.rd}
      BY <3>2, <3>4
    <3>8. set = [ttl |-> rr.ttl, rdatas |-> old \cup {rr.rd}]
      <4>1. UnionOf(type, [ttl |-> rr.ttl, rdatas |-> old], JustOne(rr)) =
              [ttl |-> rr.ttl, rdatas |-> IF type \in Singletons THEN {rr.rd} ELSE old \cup {rr.rd}]
        BY DEF UnionOf, Minimized, JustOne
      <4>2. (IF type \in Singletons THEN {rr.rd} ELSE old \cup {rr.rd}) = old \cup {rr.rd}
        BY <3>7
      <4> QED
        BY <3>6, <4>1, <4>2
    <3> HIDE DEF set
    <3> QED
      BY <1>3, <1>4, <3>4, <3>8
  <2> QED
    BY <2>1, <2>2
<1> HIDE DEF set, node, T
<1>6. Replaced(NodeIn(S, name), type, set) = NodeIn(T, name)
  BY <1>1, <1>2, <1>5, NodeReplaced
<1> QED
  BY <1>6 DEF node, set, T

(* The record of a type that is put last, of a node of whatever else.      *)
LEMMA AddContent ==
    ASSUME NEW w, NEW memory, NEW id \in Nat, Fits(w, memory, id), NEW S, ContentOf(w) = ZoneOf(S),
           NEW rr, Consistent(S \cup {rr})
    PROVE  ContentOf(Add(w, rr.name, rr.type, JustOne(rr), FALSE)) = ZoneOf(S \cup {rr})
<1> DEFINE name == rr.name
           type == rr.type
           T == S \cup {rr}
           node == NodeIn(S, name)
           set == IF type \in DOMAIN node THEN UnionOf(type, node[type], JustOne(rr)) ELSE JustOne(rr)
<1>1. Node(w, name) = node
  BY NodeIsAt, NodeOfZone
<1>2. ~(type = "SOA" /\ name # Apex)
  BY DEF Consistent
<1>3. Add(w, name, type, JustOne(rr), FALSE) = PutRdataset(w, name, type, set)
  BY <1>1, <1>2 DEF Add, PutChecked, Has, Existing
<1>4. Replaced(node, type, set) = NodeIn(T, name)
  BY RecordAdded
<1>5. name \in NamesOf(T)
  BY DEF NamesOf
<1>6. \A n : n # name => {x \in S : x.name = n} = {x \in T : x.name = n}
  OBVIOUS
<1> HIDE DEF set, node, T
<1>7. ContentOf(PutRdataset(w, name, type, set)) = Assign(ZoneOf(S), name, Replaced(node, type, set))
  BY <1>1, PutContent
<1>8. ContentOf(PutRdataset(w, name, type, set)) = ZoneOf(T)
  BY <1>4, <1>5, <1>6, <1>7, ZoneAssigned
<1> QED
  BY <1>3, <1>8 DEF T

(* A record that is there is taken away.                                   *)
LEMMA DeleteRecordContent ==
    ASSUME NEW w, NEW memory, NEW id \in Nat, Fits(w, memory, id), NEW S, ContentOf(w) = ZoneOf(S),
           Consistent(S), NEW rr \in S
    PROVE  ContentOf(Delete(w, rr.name, rr.type, JustOne(rr), TRUE)) = ZoneOf(S \ {rr})
<1> DEFINE name == rr.name
           type == rr.type
           T == S \ {rr}
           node == NodeIn(S, name)
           old == {x.rd : x \in Same(S, name, type)}
           set == [ttl |-> rr.ttl, rdatas |-> old \ {rr.rd}]
<1>1. Node(w, name) = node
  BY NodeIsAt, NodeOfZone
<1>2. type \in TypesOf(S, name)
  BY DEF TypesOf
<1>3. type \in DOMAIN node /\ node[type] = [ttl |-> rr.ttl, rdatas |-> old]
  BY <1>2, SetOfRecords DEF NodeIn
<1>4. rr.rd \in old
  BY DEF Same
<1> HIDE DEF old, node
<1>5. /\ Difference(node[type], JustOne(rr)) = set
      /\ Intersection(node[type], JustOne(rr)).rdatas = JustOne(rr).rdatas
  BY <1>3, <1>4 DEF Difference, Intersection, JustOne
<1>6. Has(w, name, type) /\ Existing(w, name, type) = node[type]
  BY <1>1, <1>3 DEF Has, Existing
<1>7. Delete(w, name, type, JustOne(rr), TRUE) =
        IF set.rdatas = {} THEN DeleteRdataset(w, name, type) ELSE PutRdataset(w, name, type, set)
  BY <1>5, <1>6 DEF Delete
<1>8. \A n : n # name => {x \in S : x.name = n} = {x \in T : x.name = n}
  OBVIOUS
<1>9. old \ {rr.rd} = {x.rd : x \in Same(T, name, type)}
  <2>1. \A x \in Same(S, name, type) : x.rd = rr.rd => x = rr
    BY DEF Same, Consistent, Coherent, IsRecord
  <2>2. Same(T, name, type) = Same(S, name, type) \ {rr}
    BY DEF Same
  <2> QED
    BY <2>1, <2>2 DEF old
<1>10. ASSUME NEW present, present # type
       PROVE  SetIn(T, name, present) = SetIn(S, name, present) /\ (present \in TypesOf(T, name) <=> present \in TypesOf(S, name))
  <2>1. Same(T, name, present) = Same(S, name, present)
    BY <1>10 DEF Same
  <2> QED
    BY <1>10, <2>1 DEF SetIn, TypesOf
<1>11. Consistent(T)
  BY DEF Consistent
<1>12. CASE set.rdatas = {}
  <2>1. type \notin TypesOf(T, name)
    BY <1>9, <1>12 DEF TypesOf, Same
  <2>2. TypesOf(T, name) = TypesOf(S, name) \ {type}
    BY <1>10, <2>1
  <2>3. WithoutType(node, type) = NodeIn(T, name)
    BY <1>10, <2>2 DEF WithoutType, Restrict, NodeIn, node
  <2>4. Delete(w, name, type, JustOne(rr), TRUE) = DeleteRdataset(w, name, type)
    BY <1>7, <1>12
  <2> HIDE DEF T, name, type
  <2>5. ContentOf(DeleteRdataset(w, name, type)) =
          IF NodeIn(T, name) = EmptyNode THEN Restrict(ZoneOf(S), DOMAIN ZoneOf(S) \ {name})
          ELSE Assign(ZoneOf(S), name, NodeIn(T, name))
    BY <1>1, <2>3, DeleteContent
  <2>6. CASE name \in NamesOf(T)
    <3>1. TypesOf(T, name) # {}
      BY <2>6 DEF NamesOf, TypesOf
    <3>2. NodeIn(T, name) # EmptyNode
      BY <3>1 DEF NodeIn, EmptyNode
    <3>3. Assign(ZoneOf(S), name, NodeIn(T, name)) = ZoneOf(T)
      BY <1>8, <2>6, ZoneAssigned
    <3> QED
      BY <2>4, <2>5, <3>2, <3>3 DEF T, name, type
  <2>7. CASE name \notin NamesOf(T)
    <3>1. TypesOf(T, name) = {}
      BY <2>7 DEF NamesOf, TypesOf
    <3>2. NodeIn(T, name) = EmptyNode
      BY <3>1 DEF NodeIn, EmptyNode
    <3>3. Restrict(ZoneOf(S), DOMAIN ZoneOf(S) \ {name}) = ZoneOf(T)
      BY <1>8, <2>7, ZoneRestricted
    <3> QED
      BY <2>4, <2>5, <3>2, <3>3 DEF T, name, type
  <2> QED
    BY <2>6, <2>7
<1>13. CASE set.rdatas # {}
  <2>1. PICK other \in Same(T, name, type) : TRUE
    BY <1>9, <1>13
  <2>2. other \in T /\ other.name = name /\ other.type = type
    BY <2>1 DEF Same
  <2>3. type \in TypesOf(T, name) /\ name \in NamesOf(T)
    BY <2>2 DEF TypesOf, NamesOf
  <2>4. TypesOf(T, name) = TypesOf(S, name) \cup {type}
    BY <1>2, <1>10, <2>3
  <2>5. other.ttl = rr.ttl
    BY <2>2 DEF Consistent, Coherent
  <2>6. SetIn(T, name, type) = set
    <3>1. SetIn(T, other.name, other.type) =
            [ttl |-> other.ttl, rdatas |-> {x.rd : x \in Same(T, other.name, other.type)}]
      BY <1>11, <2>2, SetOfRecords
    <3> QED
      BY <1>9, <2>2, <2>5, <3>1
  <2>7. \A present \in TypesOf(S, name) : Compatible(type, present)
    BY DEF TypesOf, Consistent, Coherent
  <2>8. Delete(w, name, type, JustOne(rr), TRUE) = PutRdataset(w, name, type, set)
    BY <1>7, <1>13
  <2> HIDE DEF T, name, type, set
  <2>9. Replaced(NodeIn(S, name), type, set) = NodeIn(T, name)
    BY <1>10, <2>4, <2>6, <2>7, NodeReplaced
  <2>10. ContentOf(PutRdataset(w, name, type, set)) = Assign(ZoneOf(S), name, NodeIn(T, name))
    BY <1>1, <2>9, PutContent DEF node
  <2>11. Assign(ZoneOf(S), name, NodeIn(T, name)) = ZoneOf(T)
    BY <1>8, <2>3, ZoneAssigned
  <2> QED
    BY <2>8, <2>10, <2>11 DEF T, name, type
<1> QED
  BY <1>12, <1>13

(* The SOA is put in place of the one that is there.                       *)
WithSoa(S, rr) == {x \in S : ~IsSoa(x)} \cup {rr}

LEMMA SoaContent ==
    ASSUME NEW w, NEW memory, NEW id \in Nat, Fits(w, memory, id), NEW S, ContentOf(w) = ZoneOf(S),
           NEW rr, IsSoa(rr), NEW T, T = WithSoa(S, rr), Consistent(T)
    PROVE  ContentOf(Replace(w, rr.name, "SOA", JustOne(rr), FALSE)) = ZoneOf(T)
<1> DEFINE type == rr.type
           name == rr.name
           set == JustOne(rr)
           node == NodeIn(S, name)
<1>12. T = {x \in S : ~IsSoa(x)} \cup {rr}
  BY DEF WithSoa
<1>1. type = "SOA" /\ name = Apex
  BY DEF IsSoa
<1>2. Replace(w, rr.name, "SOA", JustOne(rr), FALSE) = PutRdataset(w, name, type, set)
  BY <1>1 DEF Replace, PutChecked
<1>3. Node(w, name) = node
  BY NodeIsAt, NodeOfZone
<1>4. \A n : n # name => {x \in S : x.name = n} = {x \in T : x.name = n}
  BY <1>12, <1>1 DEF IsSoa
<1>5. \A x \in S : x.name = name => (IsSoa(x) <=> x.type = type)
  BY <1>1 DEF IsSoa
<1>6. TypesOf(T, name) = TypesOf(S, name) \cup {type} /\ name \in NamesOf(T)
  BY <1>12, <1>5 DEF TypesOf, NamesOf
<1>7. SetIn(T, name, type) = set
  <2>1. Same(T, name, type) = {rr}
    BY <1>12, <1>5 DEF Same
  <2>2. SetIn(T, name, type) = [ttl |-> rr.ttl, rdatas |-> {x.rd : x \in Same(T, name, type)}]
    BY <1>12, SetOfRecords
  <2> QED
    BY <2>1, <2>2 DEF JustOne
<1>8. ASSUME NEW present \in TypesOf(S, name), present # type
      PROVE  SetIn(T, name, present) = SetIn(S, name, present) /\ Compatible(type, present)
  <2>1. Same(T, name, present) = Same(S, name, present)
    BY <1>12, <1>5, <1>8 DEF Same
  <2>2. PICK other \in S : other.name = name /\ other.type = present
    BY DEF TypesOf
  <2>3. other \in T
    BY <1>12, <1>5, <1>8, <2>2
  <2> QED
    BY <1>12, <2>1, <2>2, <2>3 DEF SetIn, Consistent, Coherent
<1> HIDE DEF set, name, type
<1>9. Replaced(node, type, set) = NodeIn(T, name)
  BY <1>6, <1>7, <1>8, NodeReplaced
<1> HIDE DEF node
<1>10. ContentOf(PutRdataset(w, name, type, set)) = Assign(ZoneOf(S), name, NodeIn(T, name))
  BY <1>3, <1>9, PutContent
<1>11. ContentOf(PutRdataset(w, name, type, set)) = ZoneOf(T)
  BY <1>4, <1>6, <1>10, ZoneAssigned
<1> QED
  BY <1>2, <1>11

-----------------------------------------------------------------------------
(* Sequences of sets, and sequences that are joined.                       *)

LEMMA SetToSeqIs ==
    ASSUME NEW S, IsFiniteSet(S)
    PROVE  LET s == SetToSeq(S) IN s \in Seq(S) /\ Range(s) = S /\ IsInjective(s)
<1> DEFINE n == Cardinality(S)
           s == SetToSeq(S)
<1>1. n \in Nat /\ ExistsBijection(1..n, S)
  BY FS_CardinalityType
<1>2. PICK f : f \in Bijection(1..n, S)
  BY <1>1 DEF ExistsBijection
<1>3. f \in [1..n -> S] /\ IsInjective(f)
  BY <1>2 DEF Bijection, Injection
<1>4. s \in [1..n -> S] /\ IsInjective(s)
  BY <1>3 DEF SetToSeq
<1>5. s \in Injection(1..n, S)
  BY <1>4 DEF Injection
<1>6. Cardinality(1..n) = n
  BY <1>1, FS_Interval
<1> HIDE DEF s
<1>7. s \in Surjection(1..n, S)
  BY <1>5, <1>6, FS_Injection
<1>8. Range(s) = S
  BY <1>4, <1>7 DEF Surjection, Range
<1>9. s \in Seq(S)
  BY <1>1, <1>4, SeqDef, Zenon
<1> QED
  BY <1>4, <1>8, <1>9 DEF s

LEMMA HeadAndRest ==
    ASSUME NEW S, NEW q \in Seq(S), NEW z \in Seq(S), q # <<>>
    PROVE  /\ Head(q) \in S /\ Tail(q) \in Seq(S) /\ q \o z # <<>>
           /\ Head(q \o z) = Head(q) /\ Tail(q \o z) = Tail(q) \o z
           /\ Range(q) = {Head(q)} \cup Range(Tail(q))
           /\ IsInjective(q) => IsInjective(Tail(q)) /\ Head(q) \notin Range(Tail(q))
<1> DEFINE n == Len(q)
           m == Len(z)
           t == Tail(q)
<1>1. n \in Nat /\ n # 0 /\ m \in Nat /\ Len(t) = n - 1 /\ Head(q) = q[1]
  BY EmptySeq
<1>2. t \in Seq(S) /\ Head(q) \in S /\ \A i \in 1..(n - 1) : t[i] = q[i + 1]
  BY HeadTailProperties
<1>3. q \o z \in Seq(S) /\ Len(q \o z) = n + m /\ q \o z # <<>> /\ Head(q \o z) = (q \o z)[1]
  BY <1>1, ConcatProperties
<1>4. (q \o z)[1] = q[1]
  <2>1. 1 \in 1..(n + m) /\ 1 <= n
    BY <1>1
  <2> QED
    BY <2>1, ConcatProperties
<1>5. Tail(q \o z) = t \o z
  <2>1. Tail(q \o z) \in Seq(S) /\ Len(Tail(q \o z)) = (n + m) - 1
    BY <1>3, HeadTailProperties
  <2>2. t \o z \in Seq(S) /\ Len(t \o z) = (n - 1) + m
    BY <1>1, <1>2, ConcatProperties
  <2>3. ASSUME NEW i \in 1..((n + m) - 1) PROVE Tail(q \o z)[i] = (t \o z)[i]
    <3>1. i \in Nat /\ i + 1 \in 1..(n + m) /\ (i + 1 <= n <=> i <= n - 1) /\ (i + 1) - n = i - (n - 1)
          /\ i \in 1..((n - 1) + m)
      BY <1>1
    <3>2. Tail(q \o z)[i] = (q \o z)[i + 1]
      BY <1>3, <2>1, HeadTailProperties
    <3>3. (q \o z)[i + 1] = IF i + 1 <= n THEN q[i + 1] ELSE z[(i + 1) - n]
      BY <3>1, ConcatProperties
    <3>4. (t \o z)[i] = IF i <= n - 1 THEN t[i] ELSE z[i - (n - 1)]
      BY <1>1, <1>2, <3>1, ConcatProperties
    <3>5. i <= n - 1 => i \in 1..(n - 1)
      BY <1>1
    <3> QED
      BY <1>2, <3>1, <3>2, <3>3, <3>4, <3>5
  <2>4. (n + m) - 1 = (n - 1) + m
    BY <1>1
  <2> HIDE DEF t, n, m
  <2> QED
    BY <2>1, <2>2, <2>3, <2>4, SeqEqual
<1>6. Range(q) = {q[i] : i \in 1..n} /\ Range(t) = {t[i] : i \in 1..(n - 1)}
  BY <1>1, <1>2, RangeEquality
<1>7. \A i \in 1..n : i = 1 \/ (i - 1 \in 1..(n - 1) /\ (i - 1) + 1 = i)
  BY <1>1
<1>8. 1 \in 1..n /\ \A i \in 1..(n - 1) : i + 1 \in 1..n /\ i + 1 # 1
  BY <1>1
<1> HIDE DEF t, n
<1>9. Range(q) = {q[1]} \cup Range(t)
  <2>1. ASSUME NEW x \in Range(q) PROVE x \in {q[1]} \cup Range(t)
    <3>1. PICK i \in 1..n : x = q[i]
      BY <1>6
    <3>2. i # 1 => x = t[i - 1]
      BY <1>2, <1>7, <3>1
    <3> QED
      BY <1>6, <1>7, <3>1, <3>2
  <2>2. ASSUME NEW x \in Range(t) PROVE x \in Range(q)
    BY <1>2, <1>6, <1>8
  <2>3. q[1] \in Range(q)
    BY <1>6, <1>8
  <2> QED
    BY <2>1, <2>2, <2>3
<1>10. ASSUME IsInjective(q) PROVE IsInjective(t) /\ q[1] \notin Range(t)
  <2>1. DOMAIN q = 1..n /\ DOMAIN t = 1..(n - 1)
    BY <1>1, <1>2, LenProperties DEF n, t
  <2>2. \A a, b \in 1..n : q[a] = q[b] => a = b
    BY <1>10, <2>1 DEF IsInjective
  <2>3. \A i \in 1..(n - 1) : q[i + 1] # q[1]
    BY <1>8, <2>2
  <2>4. ASSUME NEW a \in 1..(n - 1), NEW b \in 1..(n - 1), t[a] = t[b] PROVE a = b
    <3>1. a + 1 = b + 1
      BY <1>2, <1>8, <2>2, <2>4
    <3> QED
      BY <3>1
  <2> QED
    BY <1>2, <1>6, <2>1, <2>3, <2>4 DEF IsInjective
<1> QED
  BY <1>1, <1>2, <1>3, <1>4, <1>5, <1>9, <1>10 DEF t

(* What FlattenSeq computes, up to n.                                      *)
Joining(f, s, n) == f = [i \in 1..n |-> IF i = 1 THEN s[i] ELSE f[i - 1] \o s[i]]

LEMMA JoiningExists ==
    ASSUME NEW s, NEW n \in Nat
    PROVE  \E f : Joining(f, s, n)
<1> DEFINE Failing == {i \in Nat : ~\E f : Joining(f, s, i)}
<1>1. 0 \notin Failing
  <2>1. Joining([j \in 1..0 |-> s], s, 0)
    BY DEF Joining
  <2> QED
    BY <2>1
<1>2. ASSUME NEW i \in Nat, i \notin Failing PROVE i + 1 \notin Failing
  <2>1. PICK f : Joining(f, s, i)
    BY <1>2
  <2> DEFINE step(x, j) == x \o s[j]
             g == [j \in 1..(i + 1) |-> IF j <= i THEN f[j] ELSE IF j = 1 THEN s[j] ELSE step(f[i], j)]
  <2> HIDE DEF step
  <2>2. \A j \in 1..i : f[j] = IF j = 1 THEN s[j] ELSE step(f[j - 1], j)
    BY <2>1 DEF Joining, step
  <2>3. ASSUME NEW j \in 1..(i + 1) PROVE g[j] = IF j = 1 THEN s[j] ELSE step(g[j - 1], j)
    <3>1. CASE j <= i
      <4>1. j \in 1..i /\ (j # 1 => j - 1 \in 1..(i + 1) /\ j - 1 <= i)
        BY <3>1
      <4>2. g[j] = f[j] /\ (j # 1 => g[j - 1] = f[j - 1])
        BY <3>1, <4>1
      <4> QED
        BY <2>2, <4>1, <4>2
    <3>2. CASE ~(j <= i)
      <4>1. j = i + 1 /\ j - 1 = i /\ (j # 1 => i \in 1..(i + 1) /\ i <= i)
        BY <3>2
      <4>2. g[j] = (IF j = 1 THEN s[j] ELSE step(f[i], j)) /\ (j # 1 => g[i] = f[i])
        BY <3>2, <4>1
      <4> QED
        BY <4>1, <4>2
    <3> QED
      BY <3>1, <3>2
  <2>4. g = [j \in 1..(i + 1) |-> g[j]]
    OBVIOUS
  <2> HIDE DEF g
  <2>5. g = [j \in 1..(i + 1) |-> IF j = 1 THEN s[j] ELSE step(g[j - 1], j)]
    BY <2>3, <2>4
  <2>6. Joining(g, s, i + 1)
    BY <2>5 DEF Joining, step
  <2> QED
    BY <2>6
<1>3. Failing \subseteq Nat
  OBVIOUS
<1> HIDE DEF Failing
<1>4. Failing = {}
  BY <1>1, <1>2, <1>3, NoneFails
<1> QED
  BY <1>4 DEF Failing

LEMMA FlattenIs ==
    ASSUME NEW S, NEW s \in Seq(S), s # <<>>
    PROVE  \E f : Joining(f, s, Len(s)) /\ FlattenSeq(s) = f[Len(s)]
<1> DEFINE f == CHOOSE f : f = [i \in 1..Len(s) |-> IF i = 1 THEN s[i] ELSE f[i - 1] \o s[i]]
<1>1. Len(s) \in Nat /\ Len(s) # 0
  BY EmptySeq
<1>2. FlattenSeq(s) = f[Len(s)]
  BY <1>1 DEF FlattenSeq
<1>3. \E g : g = [i \in 1..Len(s) |-> IF i = 1 THEN s[i] ELSE g[i - 1] \o s[i]]
  <2>1. \E g : Joining(g, s, Len(s))
    BY <1>1, JoiningExists
  <2> QED
    BY <2>1, Zenon DEF Joining
<1>4. Joining(f, s, Len(s))
  BY <1>3, Zenon DEF Joining
<1> HIDE DEF f
<1> QED
  BY <1>2, <1>4

LEMMA JoinedIsSeq ==
    ASSUME NEW S, NEW s \in Seq(Seq(S)), NEW f, Joining(f, s, Len(s))
    PROVE  \A i \in 1..Len(s) : f[i] \in Seq(S)
<1> DEFINE Failing == {i \in Nat : i + 1 \in 1..Len(s) /\ f[i + 1] \notin Seq(S)}
<1>1. Len(s) \in Nat /\ \A i \in 1..Len(s) : s[i] \in Seq(S)
  BY ElementOfSeq
<1>2. \A i \in 1..Len(s) : f[i] = IF i = 1 THEN s[i] ELSE f[i - 1] \o s[i]
  BY DEF Joining
<1>3. 0 \notin Failing
  <2>1. 1 \in 1..Len(s) => f[1] = s[1]
    BY <1>2, Zenon
  <2> QED
    BY <1>1, <2>1
<1>4. ASSUME NEW i \in Nat, i \notin Failing PROVE i + 1 \notin Failing
  <2> SUFFICES ASSUME (i + 1) + 1 \in 1..Len(s) PROVE f[(i + 1) + 1] \in Seq(S)
    OBVIOUS
  <2>1. i + 1 \in 1..Len(s) /\ ((i + 1) + 1) - 1 = i + 1 /\ (i + 1) + 1 # 1
    BY <1>1
  <2>2. f[i + 1] \in Seq(S)
    BY <1>4, <2>1
  <2>3. f[(i + 1) + 1] = f[i + 1] \o s[(i + 1) + 1]
    BY <1>2, <2>1
  <2> QED
    BY <1>1, <2>2, <2>3, ConcatProperties
<1>5. Failing \subseteq Nat
  OBVIOUS
<1> HIDE DEF Failing
<1>6. Failing = {}
  BY <1>3, <1>4, <1>5, NoneFails
<1>7. ASSUME NEW i \in 1..Len(s) PROVE f[i] \in Seq(S)
  <2>1. i - 1 \in Nat /\ (i - 1) + 1 = i
    BY <1>1
  <2> QED
    BY <1>6, <2>1 DEF Failing
<1> QED
  BY <1>7

LEMMA FlattenIsSeq ==
    ASSUME NEW S, NEW s \in Seq(Seq(S))
    PROVE  FlattenSeq(s) \in Seq(S)
<1>1. CASE s = <<>>
  BY <1>1 DEF FlattenSeq
<1>2. CASE s # <<>>
  <2>1. PICK f : Joining(f, s, Len(s)) /\ FlattenSeq(s) = f[Len(s)]
    BY <1>2, FlattenIs
  <2>2. Len(s) \in 1..Len(s)
    BY <1>2, EmptySeq
  <2> QED
    BY <2>1, <2>2, JoinedIsSeq
<1> QED
  BY <1>1, <1>2

LEMMA FlattenCons ==
    ASSUME NEW S, NEW s \in Seq(Seq(S)), s # <<>>
    PROVE  FlattenSeq(s) = Head(s) \o FlattenSeq(Tail(s))
<1> DEFINE n == Len(s)
           t == Tail(s)
<1>1. n \in Nat /\ n # 0 /\ Head(s) = s[1] /\ \A i \in 1..n : s[i] \in Seq(S)
  BY EmptySeq, ElementOfSeq
<1>2. t \in Seq(Seq(S)) /\ Len(t) = n - 1 /\ \A i \in 1..(n - 1) : t[i] = s[i + 1]
  BY HeadTailProperties
<1>3. PICK f : Joining(f, s, n) /\ FlattenSeq(s) = f[n]
  BY FlattenIs
<1>4. \A i \in 1..n : f[i] = IF i = 1 THEN s[i] ELSE f[i - 1] \o s[i]
  BY <1>3 DEF Joining
<1> HIDE DEF t, n
<1>5. CASE n = 1
  <2>1. t = <<>>
    BY <1>2, <1>5, EmptySeq
  <2>2. FlattenSeq(t) = <<>>
    BY <2>1 DEF FlattenSeq
  <2>3. f[1] = s[1] /\ s[1] \o <<>> = s[1]
    BY <1>1, <1>4, <1>5, ConcatEmptySeq
  <2> QED
    BY <1>1, <1>3, <1>5, <2>2, <2>3 DEF t
<1>6. CASE n # 1
  <2>1. t # <<>>
    BY <1>1, <1>2, <1>6, EmptySeq
  <2>2. PICK g : Joining(g, t, n - 1) /\ FlattenSeq(t) = g[n - 1]
    BY <1>2, <2>1, FlattenIs
  <2>3. \A i \in 1..(n - 1) : g[i] = IF i = 1 THEN t[i] ELSE g[i - 1] \o t[i]
    BY <2>2 DEF Joining
  <2>4. \A i \in 1..(n - 1) : g[i] \in Seq(S)
    BY <1>2, <2>2, JoinedIsSeq
  <2> DEFINE Failing == {i \in Nat : i + 1 \in 1..(n - 1) /\ f[(i + 1) + 1] # s[1] \o g[i + 1]}
  <2>5. 0 \notin Failing
    <3> SUFFICES ASSUME 0 + 1 \in 1..(n - 1) PROVE f[(0 + 1) + 1] = s[1] \o g[0 + 1]
      OBVIOUS
    <3>1. 1 \in 1..n /\ 2 \in 1..n /\ 1 \in 1..(n - 1) /\ (0 + 1) + 1 = 2 /\ 0 + 1 = 1 /\ 2 - 1 = 1 /\ 1 + 1 = 2
      BY <1>1
    <3> DEFINE join(x, y) == x \o y
    <3>0. \A i \in 1..n : f[i] = IF i = 1 THEN s[i] ELSE join(f[i - 1], s[i])
      BY <1>4
    <3> HIDE DEF join
    <3>2. f[2] = join(f[1], s[2]) /\ f[1] = s[1]
      BY <3>0, <3>1
    <3> USE DEF join
    <3>3. g[1] = t[1]
      BY <2>3, <3>1
    <3>4. t[1] = s[2]
      BY <1>2, <3>1
    <3> QED
      BY <3>1, <3>2, <3>3, <3>4
  <2>6. ASSUME NEW i \in Nat, i \notin Failing PROVE i + 1 \notin Failing
    <3> DEFINE j == i + 1
    <3> SUFFICES ASSUME j + 1 \in 1..(n - 1) PROVE f[(j + 1) + 1] = s[1] \o g[j + 1]
      OBVIOUS
    <3>1. /\ j \in 1..(n - 1) /\ (j + 1) + 1 \in 1..n /\ ((j + 1) + 1) - 1 = j + 1 /\ (j + 1) + 1 # 1
          /\ (j + 1) - 1 = j /\ j + 1 # 1 /\ 1 \in 1..n
      BY <1>1
    <3>2. f[j + 1] = s[1] \o g[j]
      BY <2>6, <3>1
    <3> HIDE DEF j
    <3>3. f[(j + 1) + 1] = f[j + 1] \o s[(j + 1) + 1]
      BY <1>4, <3>1
    <3>4. g[j + 1] = g[j] \o t[j + 1] /\ t[j + 1] = s[(j + 1) + 1]
      BY <1>2, <2>3, <3>1
    <3>5. s[1] \in Seq(S) /\ g[j] \in Seq(S) /\ s[(j + 1) + 1] \in Seq(S)
      BY <1>1, <2>4, <3>1
    <3>6. PICK a, b, c : a = s[1] /\ b = g[j] /\ c = s[(j + 1) + 1]
      OBVIOUS
    <3>7. (a \o b) \o c = a \o (b \o c)
      <4>1. a \in Seq(S) /\ b \in Seq(S) /\ c \in Seq(S)
        BY <3>5, <3>6
      <4>2. (a \o b) \o c = a \o (b \o c)
        BY ONLY <4>1, ConcatAssociative
      <4> QED
        BY <4>2
    <3> QED
      BY <3>2, <3>3, <3>4, <3>6, <3>7, Zenon
  <2>7. Failing \subseteq Nat
    OBVIOUS
  <2> HIDE DEF Failing
  <2>8. Failing = {}
    BY <2>5, <2>6, <2>7, NoneFails
  <2>9. n - 2 \in Nat /\ (n - 2) + 1 = n - 1 /\ ((n - 2) + 1) + 1 = n /\ n - 1 \in 1..(n - 1)
    BY <1>1, <1>6
  <2>10. f[n] = s[1] \o g[n - 1]
    BY <2>8, <2>9 DEF Failing
  <2> QED
    BY <1>1, <1>3, <2>2, <2>10 DEF t
<1> QED
  BY <1>5, <1>6

LEMMA RemoveAtIs ==
    ASSUME NEW S, NEW s \in Seq(S), NEW r \in 1..Len(s)
    PROVE  /\ RemoveAt(s, r) \in Seq(S) /\ Len(RemoveAt(s, r)) = Len(s) - 1
           /\ \A i \in 1..(Len(s) - 1) : RemoveAt(s, r)[i] = IF i < r THEN s[i] ELSE s[i + 1]
<1> DEFINE n == Len(s)
           a == SubSeq(s, 1, r - 1)
           b == SubSeq(s, r + 1, n)
<1>1. n \in Nat /\ r \in Nat /\ 1 <= r /\ r <= n /\ \A i \in 1..n : s[i] \in S
  BY ElementOfSeq
<1>2. a \in Seq(S) /\ Len(a) = r - 1 /\ \A i \in 1..(r - 1) : a[i] = s[i]
  <2>1. /\ a \in Seq(S) /\ Len(a) = (IF 1 <= r - 1 THEN (r - 1) - 1 + 1 ELSE 0)
        /\ \A i \in 1..((r - 1) - 1 + 1) : a[i] = s[1 + i - 1]
    <3>1. 1 \in Int /\ r - 1 \in Int /\ \A i \in 1..(r - 1) : s[i] \in S
      BY <1>1
    <3> QED
      BY <3>1, SubSeqProperties
  <2>2. (IF 1 <= r - 1 THEN (r - 1) - 1 + 1 ELSE 0) = r - 1 /\ (r - 1) - 1 + 1 = r - 1
    <3>1. r \in Nat /\ 1 <= r
      BY <1>1
    <3> QED
      BY ONLY <3>1
  <2>3. \A i \in 1..(r - 1) : 1 + i - 1 = i
    BY <1>1
  <2> HIDE DEF a
  <2> QED
    BY <2>1, <2>2, <2>3
<1>3. b \in Seq(S) /\ Len(b) = n - r /\ \A i \in 1..(n - r) : b[i] = s[i + r]
  <2>1. /\ b \in Seq(S) /\ Len(b) = (IF r + 1 <= n THEN n - (r + 1) + 1 ELSE 0)
        /\ \A i \in 1..(n - (r + 1) + 1) : b[i] = s[(r + 1) + i - 1]
    <3>1. n \in Int /\ r + 1 \in Int /\ \A i \in (r + 1)..n : s[i] \in S
      BY <1>1
    <3> QED
      BY <3>1, SubSeqProperties
  <2>2. (IF r + 1 <= n THEN n - (r + 1) + 1 ELSE 0) = n - r /\ n - (r + 1) + 1 = n - r
    BY <1>1
  <2>3. \A i \in 1..(n - r) : (r + 1) + i - 1 = i + r
    BY <1>1
  <2> HIDE DEF b
  <2> QED
    BY <2>1, <2>2, <2>3, Zenon
<1>4. RemoveAt(s, r) = a \o b
  BY DEF RemoveAt
<1> HIDE DEF a, b, n
<1>5. a \o b \in Seq(S) /\ Len(a \o b) = (r - 1) + (n - r)
  <2>1. a \in Seq(S) /\ b \in Seq(S)
    BY <1>2, <1>3
  <2>2. a \o b \in Seq(S) /\ Len(a \o b) = Len(a) + Len(b)
    BY ONLY <2>1, ConcatProperties
  <2> QED
    BY <1>2, <1>3, <2>2
<1>6. ASSUME NEW i \in 1..(n - 1) PROVE (a \o b)[i] = IF i < r THEN s[i] ELSE s[i + 1]
  <2>1. i \in 1..((r - 1) + (n - r)) /\ (i <= r - 1 <=> i < r) /\ (i < r => i \in 1..(r - 1))
        /\ (~(i < r) => i - (r - 1) \in 1..(n - r) /\ (i - (r - 1)) + r = i + 1)
    BY <1>1
  <2>2. (a \o b)[i] = IF i <= r - 1 THEN a[i] ELSE b[i - (r - 1)]
    BY <1>2, <1>3, <2>1, ConcatProperties
  <2> QED
    BY <1>2, <1>3, <2>1, <2>2
<1>7. (r - 1) + (n - r) = n - 1
  BY <1>1
<1> QED
  BY <1>4, <1>5, <1>6, <1>7 DEF n

LEMMA FirstRemoved ==
    ASSUME NEW S, NEW s \in Seq(S), s # <<>>
    PROVE  RemoveAt(s, 1) = Tail(s)
<1>1. Len(s) \in Nat /\ 1 \in 1..Len(s)
  BY EmptySeq
<1>2. /\ RemoveAt(s, 1) \in Seq(S) /\ Len(RemoveAt(s, 1)) = Len(s) - 1
      /\ \A i \in 1..(Len(s) - 1) : RemoveAt(s, 1)[i] = IF i < 1 THEN s[i] ELSE s[i + 1]
  BY <1>1, RemoveAtIs
<1>3. Tail(s) \in Seq(S) /\ Len(Tail(s)) = Len(s) - 1 /\ \A i \in 1..(Len(s) - 1) : Tail(s)[i] = s[i + 1]
  BY HeadTailProperties
<1>4. \A i \in 1..(Len(s) - 1) : ~(i < 1)
  BY <1>1
<1> QED
  BY <1>2, <1>3, <1>4, SeqEqual

LEMMA LaterRemoved ==
    ASSUME NEW S, NEW s \in Seq(S), NEW r \in 2..Len(s)
    PROVE  /\ RemoveAt(s, r) # <<>> /\ Head(RemoveAt(s, r)) = Head(s)
           /\ Tail(RemoveAt(s, r)) = RemoveAt(Tail(s), r - 1)
<1> DEFINE n == Len(s)
           u == RemoveAt(s, r)
           t == Tail(s)
           w == RemoveAt(t, r - 1)
<1>1. n \in Nat /\ r \in Nat /\ 2 <= r /\ r <= n /\ s # <<>> /\ Head(s) = s[1]
  <2>1. n \in Nat /\ r \in Nat /\ 2 <= r /\ r <= n
    OBVIOUS
  <2>2. s # <<>>
    BY <2>1, EmptySeq
  <2> QED
    BY <2>1, <2>2
<1>2. u \in Seq(S) /\ Len(u) = n - 1 /\ \A i \in 1..(n - 1) : u[i] = IF i < r THEN s[i] ELSE s[i + 1]
  <2>1. r \in 1..n
    BY <1>1
  <2> QED
    BY <2>1, RemoveAtIs
<1>3. t \in Seq(S) /\ Len(t) = n - 1 /\ \A i \in 1..(n - 1) : t[i] = s[i + 1]
  BY <1>1, HeadTailProperties
<1> HIDE DEF t, u, n
<1>4. w \in Seq(S) /\ Len(w) = (n - 1) - 1
      /\ \A i \in 1..((n - 1) - 1) : w[i] = IF i < r - 1 THEN t[i] ELSE t[i + 1]
  <2>1. r - 1 \in 1..Len(t)
    BY <1>1, <1>3
  <2> QED
    BY <1>3, <2>1, RemoveAtIs
<1>5. u # <<>> /\ Head(u) = u[1] /\ 1 \in 1..(n - 1) /\ 1 < r
  <2>1. n - 1 \in Nat /\ n - 1 # 0 /\ 1 \in 1..(n - 1) /\ 1 < r
    BY <1>1
  <2>2. u # <<>>
    BY <1>2, <2>1, EmptySeq
  <2> QED
    BY <1>2, <2>1, <2>2
<1>6. u[1] = s[1]
  BY <1>2, <1>5
<1>7. Tail(u) \in Seq(S) /\ Len(Tail(u)) = (n - 1) - 1 /\ \A i \in 1..((n - 1) - 1) : Tail(u)[i] = u[i + 1]
  BY <1>2, <1>5, HeadTailProperties
<1> HIDE DEF w
<1>8. ASSUME NEW i \in 1..((n - 1) - 1) PROVE Tail(u)[i] = w[i]
  <2>1. i + 1 \in 1..(n - 1) /\ i \in 1..(n - 1) /\ (i + 1 < r <=> i < r - 1)
    BY <1>1
  <2>2. Tail(u)[i] = IF i + 1 < r THEN s[i + 1] ELSE s[(i + 1) + 1]
    BY <1>2, <1>7, <2>1
  <2>3. t[i] = s[i + 1] /\ t[i + 1] = s[(i + 1) + 1]
    BY <1>3, <2>1
  <2>4. w[i] = IF i < r - 1 THEN t[i] ELSE t[i + 1]
    BY <1>4
  <2> QED
    BY <2>1, <2>2, <2>3, <2>4
<1>9. Tail(u) = w
  BY <1>4, <1>7, <1>8, SeqEqual
<1> QED
  BY <1>1, <1>5, <1>6, <1>9 DEF u, w, t

LEMMA FunctionIsSeq ==
    ASSUME NEW S, NEW n \in Nat, NEW s \in [1..n -> S]
    PROVE  s \in Seq(S)
BY SeqDef, Zenon

-----------------------------------------------------------------------------
(* The versions of the server, and the streams it sends.                   *)

AllRecords == UNION Range(History)

LEMMA HistoryIs ==
    ASSUME NEW k \in DOMAIN History
    PROVE  /\ SerialOf(History[k]) \in Nat /\ SerialOf(History[k]) # None
           /\ IsSoa(Top(k)) /\ Top(k).rd = SerialOf(History[k]) /\ Top(k) \in AllRecords
           /\ History[k] = Records(k) \cup {Top(k)} /\ Consistent(History[k])
           /\ Records(k) \subseteq AllRecords /\ IsFiniteSet(Records(k))
           /\ \A rr \in Records(k) : ~IsSoa(rr)
<1> DEFINE H == History[k]
<1>1. IsZone(H)
  BY HistoryAssumption
<1>2. Consistent(H)
  BY <1>1 DEF IsZone, Consistent, Coherent, IsRecord
<1>3. PICK soa \in H : soa.rd \in Nat /\ soa = Soa(soa.rd)
  BY <1>1 DEF IsZone
<1>4. IsSoa(soa)
  BY <1>3 DEF Soa, IsSoa
<1>5. \A rr \in H : IsSoa(rr) => rr = soa
  BY <1>2, <1>4 DEF Consistent, Coherent, IsSoa, Singletons
<1>6. SerialOf(H) = soa.rd
  BY <1>4, <1>5 DEF SerialOf
<1>7. Top(k) = soa
  BY <1>3, <1>6 DEF Top
<1>8. H \subseteq AllRecords
  BY DEF AllRecords, Range
<1>9. Records(k) = {rr \in H : ~IsSoa(rr)}
  BY DEF Records
<1>10. IsFiniteSet(Records(k))
  BY <1>1, <1>9, FS_Subset DEF IsZone
<1> HIDE DEF H
<1>11. H = Records(k) \cup {Top(k)}
  BY <1>4, <1>5, <1>7, <1>9
<1>12. soa.rd # None
  BY <1>3, HistoryAssumption
<1> QED
  BY <1>2, <1>3, <1>4, <1>6, <1>7, <1>8, <1>9, <1>10, <1>11, <1>12 DEF H

LEMMA SameSerial ==
    ASSUME NEW j \in DOMAIN History, NEW k \in DOMAIN History,
           \/ SerialOf(History[j]) = SerialOf(History[k])
           \/ Top(j).rd = SerialOf(History[k])
           \/ Top(j).rd = Top(k).rd
    PROVE  j = k
BY HistoryIs, HistoryAssumption

LEMMA VersionsBefore ==
    ASSUME NEW v \in DOMAIN History
    PROVE  /\ DOMAIN History = 1..Len(History) /\ Len(History) \in Nat /\ v \in Nat \ {0}
           /\ \A i \in 1..v : i \in DOMAIN History
BY LenProperties, HistoryAssumption

(* Joining sequences, as an operator of its own: what it is, out of sight. *)
Joins(x, y) == x \o y
LEMMA JoinsIs ==
    ASSUME NEW S
    PROVE  /\ \A a, b \in Seq(S) : Joins(a, b) \in Seq(S)
           /\ \A a, b, c \in Seq(S) : Joins(Joins(a, b), c) = Joins(a, Joins(b, c))
<1>1. ASSUME NEW a \in Seq(S), NEW b \in Seq(S) PROVE Joins(a, b) \in Seq(S)
  BY ConcatProperties DEF Joins
<1>2. ASSUME NEW a, NEW b, NEW c, a \in Seq(S) /\ b \in Seq(S) /\ c \in Seq(S)
      PROVE  Joins(Joins(a, b), c) = Joins(a, Joins(b, c))
  <2>1. (a \o b) \o c = a \o (b \o c)
    BY ONLY <1>2, ConcatAssociative
  <2> QED
    BY <2>1 DEF Joins
<1> QED
  BY <1>1, <1>2

LEMMA FiveJoined ==
    ASSUME NEW S, NEW a \in Seq(S), NEW b \in Seq(S), NEW c \in Seq(S), NEW d \in Seq(S), NEW e \in Seq(S)
    PROVE  Joins(Joins(Joins(Joins(a, b), c), d), e) = Joins(a, Joins(b, Joins(c, Joins(d, e))))
<1>1. /\ Joins(a, b) \in Seq(S) /\ Joins(Joins(a, b), c) \in Seq(S)
      /\ Joins(d, e) \in Seq(S) /\ Joins(c, Joins(d, e)) \in Seq(S)
  BY JoinsIs
<1> QED
  BY <1>1, JoinsIs

(* The records that a difference takes away, and those that it adds.       *)
Gone(i) == SetToSeq(Records(i) \ Records(i + 1))
New(i)  == SetToSeq(Records(i + 1) \ Records(i))

LEMMA ChangesAre ==
    ASSUME NEW i \in DOMAIN History, i + 1 \in DOMAIN History
    PROVE  /\ Gone(i) \in Seq(AllRecords) /\ Range(Gone(i)) = Records(i) \ Records(i + 1) /\ IsInjective(Gone(i))
           /\ New(i) \in Seq(AllRecords) /\ Range(New(i)) = Records(i + 1) \ Records(i)
           /\ <<Top(i)>> \in Seq(AllRecords) /\ <<Top(i + 1)>> \in Seq(AllRecords)
           /\ Changes(i) \in Seq(AllRecords)
           /\ \A z \in Seq(AllRecords) :
                 Changes(i) \o z = <<Top(i)>> \o (Gone(i) \o (<<Top(i + 1)>> \o (New(i) \o z)))
<1> DEFINE R == AllRecords
           d == Records(i) \ Records(i + 1)
           a == Records(i + 1) \ Records(i)
           ts == <<Top(i)>>
           us == <<Top(i + 1)>>
           g == Gone(i)
           n == New(i)
<1>1. /\ Top(i) \in R /\ Top(i + 1) \in R /\ d \subseteq R /\ a \subseteq R
      /\ IsFiniteSet(d) /\ IsFiniteSet(a)
  BY HistoryIs, FS_Subset
<1>2. g \in Seq(d) /\ Range(g) = d /\ IsInjective(g) /\ n \in Seq(a) /\ Range(n) = a
  BY <1>1, SetToSeqIs DEF Gone, New
<1>3. g \in Seq(R) /\ n \in Seq(R)
  BY <1>1, <1>2, SeqMonotonic
<1>4. ts \in Seq(R) /\ us \in Seq(R)
  BY <1>1
<1>5. Changes(i) = ((ts \o g) \o us) \o n
  BY DEF Changes, Gone, New
<1> HIDE DEF ts, us, g, n, R
<1>6. ts \o g \in Seq(R) /\ (ts \o g) \o us \in Seq(R) /\ Changes(i) \in Seq(R)
  <2>1. ts \o g \in Seq(R)
    BY <1>3, <1>4, ConcatProperties
  <2>2. (ts \o g) \o us \in Seq(R)
    BY <1>4, <2>1, ConcatProperties
  <2>3. ((ts \o g) \o us) \o n \in Seq(R)
    BY <1>3, <2>2, ConcatProperties
  <2> QED
    BY <1>5, <2>1, <2>2, <2>3
<1>7. ASSUME NEW z \in Seq(R) PROVE Changes(i) \o z = ts \o (g \o (us \o (n \o z)))
  <2>1. Joins(Joins(Joins(Joins(ts, g), us), n), z) = Joins(ts, Joins(g, Joins(us, Joins(n, z))))
    BY <1>3, <1>4, FiveJoined
  <2> QED
    BY <1>5, <2>1 DEF Joins
<1> QED
  BY <1>2, <1>3, <1>4, <1>6, <1>7 DEF ts, us, g, n, R

(* What may be left of a stream once the version before i was made.        *)
LeftOver(i, v) ==
    {FlattenSeq(Differences(i, v)) \o <<Top(v)>>}
    \cup {FlattenSeq(RemoveAt(Differences(i, v), r)) \o <<Top(v)>> : r \in 1..(v - i)}

LEMMA DifferencesAre ==
    ASSUME NEW v \in DOMAIN History, NEW i \in 1..v
    PROVE  LET s == Differences(i, v)
           IN  /\ s \in Seq(Seq(AllRecords)) /\ Len(s) = v - i
               /\ i < v => s # <<>> /\ Head(s) = Changes(i) /\ Tail(s) = Differences(i + 1, v)
<1> DEFINE s == Differences(i, v)
           n == v - i
<1>1. i \in Nat \ {0} /\ v \in Nat /\ n \in Nat /\ \A k \in 1..v : k \in DOMAIN History
  BY VersionsBefore
<1>2. s = [d \in 1..n |-> Changes(i + d - 1)]
  BY DEF Differences
<1>3. ASSUME NEW d \in 1..n PROVE Changes(i + d - 1) \in Seq(AllRecords)
  <2>1. i + d - 1 \in 1..v /\ (i + d - 1) + 1 \in 1..v
    BY <1>1
  <2> QED
    BY <1>1, <2>1, ChangesAre
<1> HIDE DEF n
<1>4. s \in Seq(Seq(AllRecords)) /\ Len(s) = n
  <2>1. s \in [1..n -> Seq(AllRecords)]
    BY <1>2, <1>3
  <2>2. s \in Seq(Seq(AllRecords))
    BY <1>1, <2>1, FunctionIsSeq
  <2>3. DOMAIN s = 1..n
    BY <1>2
  <2> QED
    BY <1>1, <2>2, <2>3, LenProperties
<1>5. ASSUME i < v PROVE s # <<>> /\ Head(s) = Changes(i) /\ Tail(s) = Differences(i + 1, v)
  <2> DEFINE t == Differences(i + 1, v)
             m == n - 1
  <2>1. m \in Nat /\ m = v - (i + 1) /\ n # 0 /\ 1 \in 1..n /\ i + 1 - 1 = i /\ i + 1 \in 1..v
    BY <1>1, <1>5 DEF n
  <2>2. s # <<>>
    BY <1>4, <2>1, EmptySeq
  <2>3. Head(s) = Changes(i)
    <3>1. Head(s) = s[1]
      BY <1>4, <2>2
    <3>2. s[1] = Changes(i)
      BY <1>2, <2>1
    <3> QED
      BY <3>1, <3>2
  <2>4. Tail(s) \in Seq(Seq(AllRecords)) /\ Len(Tail(s)) = m /\ \A d \in 1..m : Tail(s)[d] = s[d + 1]
    BY <1>4, <2>2, HeadTailProperties
  <2>5. t = [d \in 1..m |-> Changes((i + 1) + d - 1)]
    BY <2>1 DEF Differences
  <2>6. Tail(s) = [d \in 1..m |-> Tail(s)[d]]
    BY <2>4, LenProperties
  <2> HIDE DEF m, t, s
  <2>7. ASSUME NEW d \in 1..m PROVE Tail(s)[d] = t[d]
    <3>1. d + 1 \in 1..n /\ i + (d + 1) - 1 = (i + 1) + d - 1
      BY <1>1, <2>1 DEF m
    <3> QED
      BY <1>2, <2>4, <2>5, <3>1
  <2>8. t = [d \in 1..m |-> t[d]]
    BY <2>5
  <2>9. Tail(s) = t
    BY <2>6, <2>7, <2>8, Zenon
  <2> QED
    BY <2>2, <2>3, <2>9 DEF t
<1> QED
  BY <1>4, <1>5 DEF n

LEMMA LeftOverIs ==
    ASSUME NEW v \in DOMAIN History, NEW i \in 1..v, NEW z \in LeftOver(i, v)
    PROVE  /\ z \in Seq(AllRecords)
           /\ \/ i = v /\ z = <<Top(v)>>
              \/ i < v /\ \E y \in LeftOver(i + 1, v) : z = Changes(i) \o y
              \/ i < v /\ z # <<>> /\ Head(z) = Top(i + 1)
<1> DEFINE R == AllRecords
           s == Differences(i, v)
           t == Differences(i + 1, v)
           last == <<Top(v)>>
<1>1. i \in Nat \ {0} /\ v \in Nat \ {0} /\ i <= v /\ v - i \in Nat /\ \A k \in 1..v : k \in DOMAIN History
  BY VersionsBefore
<1>2. s \in Seq(Seq(R)) /\ Len(s) = v - i
  BY DifferencesAre
<1>3. last \in Seq(R)
  <2>1. Top(v) \in R
    BY HistoryIs
  <2> QED
    BY <2>1
<1>4. PICK d : z = FlattenSeq(d) \o last /\ (d = s \/ \E r \in 1..(v - i) : d = RemoveAt(s, r))
  BY DEF LeftOver
<1>5. d \in Seq(Seq(R))
  BY <1>2, <1>4, RemoveAtIs
<1>6. z \in Seq(R)
  <2>1. FlattenSeq(d) \in Seq(R)
    BY <1>5, FlattenIsSeq
  <2> QED
    BY <1>3, <1>4, <2>1, ConcatProperties
<1> HIDE DEF s, t, last, R
<1>7. CASE i = v
  <2>1. v - i = 0 /\ 1..(v - i) = {}
    BY <1>1, <1>7
  <2>2. s = <<>> /\ d = s
    BY <1>2, <1>4, <2>1, EmptySeq
  <2>3. FlattenSeq(s) = <<>>
    BY <2>2 DEF FlattenSeq
  <2>4. z = last
    BY <1>3, <1>4, <2>2, <2>3, ConcatEmptySeq
  <2> QED
    BY <1>6, <1>7, <2>4 DEF last, R
<1>8. CASE i # v
  <2>1. i < v /\ i + 1 \in 1..v /\ v - (i + 1) = (v - i) - 1 /\ i \in 1..v
    BY <1>1, <1>8
  <2>2. s # <<>> /\ Head(s) = Changes(i) /\ Tail(s) = t
    BY <2>1, DifferencesAre DEF s, t
  <2>3. Changes(i) \in Seq(R)
    BY <1>1, <2>1, ChangesAre DEF R
  <2>4. ASSUME NEW u \in Seq(Seq(R)), d # <<>>, Head(d) = Changes(i), Tail(d) = u,
               FlattenSeq(u) \o last \in LeftOver(i + 1, v)
        PROVE  \E y \in LeftOver(i + 1, v) : z = Changes(i) \o y
    <3>1. FlattenSeq(d) = Changes(i) \o FlattenSeq(u)
      BY <1>5, <2>4, FlattenCons
    <3>2. FlattenSeq(u) \in Seq(R)
      BY FlattenIsSeq
    <3> DEFINE x == FlattenSeq(u)
               c == Changes(i)
    <3>3. c \in Seq(R) /\ x \in Seq(R) /\ last \in Seq(R)
      BY <1>3, <2>3, <3>2
    <3> HIDE DEF x, c
    <3>4. (c \o x) \o last = c \o (x \o last)
      BY ONLY <3>3, ConcatAssociative
    <3>5. z = c \o (x \o last)
      BY <1>4, <3>1, <3>4 DEF x, c
    <3> QED
      BY <2>4, <3>5 DEF x, c
  <2>5. CASE d = s
    <3>1. FlattenSeq(t) \o last \in LeftOver(i + 1, v)
      BY DEF LeftOver, t, last
    <3>2. t \in Seq(Seq(R))
      BY <2>1, DifferencesAre DEF t, R
    <3> QED
      BY <1>6, <2>1, <2>2, <2>4, <2>5, <3>1, <3>2 DEF R
  <2>6. ASSUME NEW r \in 1..(v - i), d = RemoveAt(s, r)
        PROVE  \/ \E y \in LeftOver(i + 1, v) : z = Changes(i) \o y
               \/ z # <<>> /\ Head(z) = Top(i + 1)
    <3>1. CASE r = 1
      <4>1. d = t
        BY <1>2, <2>2, <2>6, <3>1, FirstRemoved
      <4>2. CASE i + 1 = v
        <5>1. z \in LeftOver(i + 1, v) /\ v - (i + 1) = 0
          BY <1>1, <1>4, <4>1, <4>2 DEF LeftOver, t, last
        <5>2. t \in Seq(Seq(R)) /\ Len(t) = 0
          BY <2>1, <5>1, DifferencesAre DEF t, R
        <5>3. t = <<>>
          BY <5>2, EmptySeq
        <5>4. FlattenSeq(t) = <<>>
          BY <5>3 DEF FlattenSeq
        <5>5. z = last
          BY <1>3, <1>4, <4>1, <5>4, ConcatEmptySeq
        <5> QED
          BY <4>2, <5>5 DEF last
      <4>3. CASE i + 1 # v
        <5>1. i + 1 < v /\ (i + 1) + 1 \in 1..v
          BY <2>1, <4>3, <1>1
        <5>2. /\ t \in Seq(Seq(R)) /\ t # <<>> /\ Head(t) = Changes(i + 1)
              /\ Tail(t) = Differences((i + 1) + 1, v)
          BY <2>1, <5>1, DifferencesAre DEF t, R
        <5>3. Differences((i + 1) + 1, v) \in Seq(Seq(R))
          BY <5>1, DifferencesAre DEF R
        <5> DEFINE x == FlattenSeq(Differences((i + 1) + 1, v))
                   c == Changes(i + 1)
        <5>4. FlattenSeq(t) = c \o x /\ x \in Seq(R)
          BY <5>2, <5>3, FlattenCons, FlattenIsSeq
        <5>5. c \in Seq(R) /\ \A y \in Seq(R) :
                 c \o y = <<Top(i + 1)>> \o (Gone(i + 1) \o (<<Top((i + 1) + 1)>> \o (New(i + 1) \o y)))
          BY <1>1, <2>1, <5>1, ChangesAre DEF R
        <5> DEFINE y == x \o last
                   rest == Gone(i + 1) \o (<<Top((i + 1) + 1)>> \o (New(i + 1) \o y))
        <5> HIDE DEF x, c
        <5>6. (c \o x) \o last = c \o y
          <6>1. c \in Seq(R) /\ x \in Seq(R) /\ last \in Seq(R)
            BY <1>3, <5>4, <5>5
          <6> QED
            BY ONLY <6>1, ConcatAssociative DEF y
        <5>7. y \in Seq(R)
          BY <1>3, <5>4, ConcatProperties
        <5>8. z = <<Top(i + 1)>> \o rest
          BY <1>4, <4>1, <5>4, <5>5, <5>6, <5>7
        <5>9. rest \in Seq(R) /\ Top(i + 1) \in R
          <6>1. /\ Gone(i + 1) \in Seq(R) /\ New(i + 1) \in Seq(R) /\ <<Top((i + 1) + 1)>> \in Seq(R)
                /\ Top(i + 1) \in R
            BY <1>1, <2>1, <5>1, ChangesAre, HistoryIs DEF R
          <6> HIDE DEF y
          <6>2. New(i + 1) \o y \in Seq(R)
            BY <5>7, <6>1, ConcatProperties
          <6>3. <<Top((i + 1) + 1)>> \o (New(i + 1) \o y) \in Seq(R)
            BY <6>1, <6>2, ConcatProperties
          <6>4. rest \in Seq(R)
            BY <6>1, <6>3, ConcatProperties
          <6> QED
            BY <6>1, <6>4
        <5> HIDE DEF rest
        <5>10. <<Top(i + 1)>> \in Seq(R) /\ <<Top(i + 1)>> # <<>>
          BY <5>9
        <5>11. z # <<>> /\ Head(z) = Head(<<Top(i + 1)>>)
          BY <5>8, <5>9, <5>10, HeadAndRest
        <5> QED
          BY <5>11
      <4> QED
        BY <4>2, <4>3
    <3>2. CASE r # 1
      <4>1. r \in 2..Len(s) /\ r - 1 \in 1..(v - (i + 1))
        BY <1>1, <1>2, <2>1, <3>2
      <4>2. d # <<>> /\ Head(d) = Changes(i) /\ Tail(d) = RemoveAt(t, r - 1)
        BY <1>2, <2>2, <2>6, <4>1, LaterRemoved
      <4>3. FlattenSeq(RemoveAt(t, r - 1)) \o last \in LeftOver(i + 1, v)
        BY <4>1 DEF LeftOver, t, last
      <4>4. RemoveAt(t, r - 1) \in Seq(Seq(R))
        BY <1>5, <4>2, HeadTailProperties
      <4> QED
        BY <2>4, <4>2, <4>3, <4>4
    <3> QED
      BY <3>1, <3>2
  <2> QED
    BY <1>4, <1>6, <2>1, <2>5, <2>6 DEF R
<1> QED
  BY <1>7, <1>8

-----------------------------------------------------------------------------
(* How far a transfer is: v is the version sent, s what is left of the     *)
(* stream, and c the content the transaction has made so far.              *)

Earlier(serial, v) == {i \in 1..v : i < v /\ SerialOf(History[i]) = serial}

WholeZone(v) == SetToSeq(Records(v)) \o <<Top(v)>>

(* What may follow the first SOA of an answer.                             *)
AfterFirst(rdtype, serial, v) ==
    {<<>>, WholeZone(v)}
    \cup (IF rdtype = "IXFR" THEN UNION {LeftOver(j, v) : j \in Earlier(serial, v)} ELSE {})

Common(i) == Records(i) \cap Records(i + 1)

WholeLeft(v, s, c) ==
    \E S, q : /\ q \in Seq(Records(v)) /\ S \cup Range(q) = Records(v)
              /\ s \in {<<>>, q \o <<Top(v)>>} /\ c = ZoneOf(S)

TakesLeft(v, serial, s, c) ==
    \E i \in Earlier(serial, v) :
        \E q, z : /\ q \in Seq(Records(i) \ Records(i + 1)) /\ IsInjective(q) /\ z \in LeftOver(i + 1, v)
                  /\ s = q \o (<<Top(i + 1)>> \o (New(i) \o z))
                  /\ c = ZoneOf(Common(i) \cup {Top(i)} \cup Range(q))

GivesLeft(v, serial, s, c) ==
    \E i \in 1..v :
        /\ i < v /\ SerialOf(History[i + 1]) = serial
        /\ \E A, q, z : /\ q \in Seq(Records(i + 1) \ Records(i)) /\ z \in LeftOver(i + 1, v)
                        /\ A \cup Range(q) = Records(i + 1) \ Records(i)
                        /\ s = q \o z /\ c = ZoneOf(Common(i) \cup {Top(i + 1)} \cup A)

(* The content the transaction starts from.                                *)
StartsFrom(rdtype, serial, c) ==
    IF rdtype = "AXFR" THEN c = ZoneOf({})
    ELSE \E k \in DOMAIN History : SerialOf(History[k]) = serial /\ c = ZoneOf(History[k])

LEMMA PartConsistent ==
    ASSUME NEW S, Consistent(S), NEW T, T \subseteq S
    PROVE  Consistent(T)
BY DEF Consistent

LEMMA MonotonicSeq ==
    ASSUME NEW S, NEW T, S \subseteq T, NEW q \in Seq(S)
    PROVE  q \in Seq(T) /\ Range(q) \subseteq S
<1>1. q \in Seq(T)
  BY SeqMonotonic
<1>2. Range(q) = {q[i] : i \in 1 .. Len(q)}
  BY RangeIs
<1>3. Range(q) \subseteq S
  BY <1>2, ElementOfSeq
<1> QED
  BY <1>1, <1>3

LEMMA EmptyIs ==
    ASSUME NEW S, NEW z \in Seq(S)
    PROVE  <<>> \o z = z /\ Range(<<>>) = {}
<1>1. Range(<<>>) = {}
  BY DEF Range
<1> QED
  BY <1>1, ConcatEmptySeq

LEMMA OneAhead ==
    ASSUME NEW S, NEW a \in S, NEW z \in Seq(S)
    PROVE  <<a>> \o z \in Seq(S) /\ <<a>> \o z # <<>> /\ Head(<<a>> \o z) = a /\ Tail(<<a>> \o z) = z
<1> DEFINE q == <<a>>
<1>1. q \in Seq(S) /\ q # <<>> /\ Head(q) = a /\ Tail(q) = <<>>
  OBVIOUS
<1> HIDE DEF q
<1>2. q \o z # <<>> /\ Head(q \o z) = Head(q) /\ Tail(q \o z) = Tail(q) \o z
  BY <1>1, HeadAndRest
<1>3. q \o z \in Seq(S)
  BY <1>1, ConcatProperties
<1> QED
  BY <1>1, <1>2, <1>3, EmptyIs DEF q

LEMMA LastOne ==
    ASSUME NEW a
    PROVE  <<a>> # <<>> /\ Head(<<a>>) = a
OBVIOUS

LEMMA WholeStarts ==
    ASSUME NEW v \in DOMAIN History, NEW s \in {<<>>, WholeZone(v)}
    PROVE  WholeLeft(v, s, ZoneOf({}))
<1> DEFINE q == SetToSeq(Records(v))
<1>1. q \in Seq(Records(v)) /\ Range(q) = Records(v)
  BY HistoryIs, SetToSeqIs
<1>2. s \in {<<>>, q \o <<Top(v)>>}
  BY DEF WholeZone
<1> HIDE DEF q
<1>3. {} \cup Range(q) = Records(v)
  BY <1>1
<1> QED
  BY <1>1, <1>2, <1>3 DEF WholeLeft

(* A record of a whole zone.                                               *)
LEMMA WholeStep ==
    ASSUME NEW v \in DOMAIN History, NEW s, NEW c, WholeLeft(v, s, c), s # <<>>
    PROVE  LET rr == Head(s)
           IN  /\ IsSoa(rr) => rr = Top(v) /\ c = ZoneOf(Records(v))
               /\ ~IsSoa(rr) => \E S : /\ c = ZoneOf(S) /\ Consistent(S \cup {rr})
                                       /\ WholeLeft(v, Tail(s), ZoneOf(S \cup {rr}))
<1>1. PICK S, q : /\ q \in Seq(Records(v)) /\ S \cup Range(q) = Records(v)
                  /\ s = q \o <<Top(v)>> /\ c = ZoneOf(S)
  BY DEF WholeLeft
<1>2. /\ IsSoa(Top(v)) /\ Top(v) \in AllRecords /\ Records(v) \subseteq AllRecords
      /\ Consistent(History[v]) /\ History[v] = Records(v) \cup {Top(v)}
      /\ \A rr \in Records(v) : ~IsSoa(rr)
  BY HistoryIs
<1> DEFINE last == <<Top(v)>>
<1>3. last \in Seq(AllRecords) /\ last # <<>> /\ Head(last) = Top(v)
  BY <1>2, LastOne
<1>4. q \in Seq(AllRecords)
  BY <1>1, <1>2, MonotonicSeq
<1> HIDE DEF last
<1>5. CASE q = <<>>
  <2>1. s = last /\ S = Records(v)
    BY <1>1, <1>3, <1>5, EmptyIs DEF last
  <2> QED
    BY <1>1, <1>2, <1>3, <2>1
<1>6. CASE q # <<>>
  <2>1. /\ Head(q) \in Records(v) /\ Tail(q) \in Seq(Records(v))
        /\ Range(q) = {Head(q)} \cup Range(Tail(q))
    BY <1>1, <1>6, HeadAndRest
  <2>2. Head(s) = Head(q) /\ Tail(s) = Tail(q) \o last
    BY <1>1, <1>3, <1>4, <1>6, HeadAndRest DEF last
  <2> DEFINE rr == Head(q)
             T == S \cup {rr}
  <2>3. T \cup Range(Tail(q)) = Records(v) /\ T \subseteq History[v] /\ ~IsSoa(rr)
    BY <1>1, <1>2, <2>1
  <2>4. Consistent(T)
    BY <1>2, <2>3, PartConsistent
  <2> HIDE DEF T
  <2>5. WholeLeft(v, Tail(s), ZoneOf(T))
    BY <2>1, <2>2, <2>3 DEF WholeLeft, last
  <2> QED
    BY <1>1, <2>2, <2>3, <2>4, <2>5 DEF T
<1> QED
  BY <1>5, <1>6

(* Between two versions: what they share is part of both.                  *)
LEMMA Between ==
    ASSUME NEW v \in DOMAIN History, NEW i \in 1..v, i < v
    PROVE  /\ i \in DOMAIN History /\ i + 1 \in DOMAIN History /\ i + 1 \in 1..v /\ v \in 1..v
           /\ History[i] = Common(i) \cup {Top(i)} \cup (Records(i) \ Records(i + 1))
           /\ History[i + 1] = Common(i) \cup {Top(i + 1)} \cup (Records(i + 1) \ Records(i))
           /\ Consistent(History[i]) /\ Consistent(History[i + 1])
<1>1. i + 1 \in 1..v /\ v \in 1..v
  BY VersionsBefore
<1>2. i \in DOMAIN History /\ i + 1 \in DOMAIN History
  BY <1>1, VersionsBefore
<1> DEFINE j == i + 1
<1> HIDE DEF j
<1>3. History[i] = Records(i) \cup {Top(i)} /\ Consistent(History[i])
  BY <1>2, HistoryIs
<1>4. History[j] = Records(j) \cup {Top(j)} /\ Consistent(History[j])
  BY <1>2, HistoryIs DEF j
<1>5. /\ History[i] = Common(i) \cup {Top(i)} \cup (Records(i) \ Records(j))
      /\ History[j] = Common(i) \cup {Top(j)} \cup (Records(j) \ Records(i))
  BY <1>3, <1>4 DEF Common, j
<1> QED
  BY <1>1, <1>2, <1>3, <1>4, <1>5 DEF j

(* What is left of a stream starts with a SOA; if with the one of the      *)
(* version that was made, it is the difference to the next one.            *)
LEMMA NextDifference ==
    ASSUME NEW v \in DOMAIN History, NEW i \in 1..v, NEW z \in LeftOver(i, v)
    PROVE  /\ z \in Seq(AllRecords) /\ z # <<>> /\ IsSoa(Head(z))
           /\ Head(z).rd = SerialOf(History[i]) /\ i < v =>
                 TakesLeft(v, SerialOf(History[i]), Tail(z), ZoneOf(History[i]))
<1>1. z \in Seq(AllRecords) /\ i \in DOMAIN History
  BY LeftOverIs, VersionsBefore
<1>2. CASE i = v /\ z = <<Top(v)>>
  <2>1. IsSoa(Top(v)) /\ ~(i < v)
    BY <1>2, HistoryIs, VersionsBefore
  <2> QED
    BY <1>1, <1>2, <2>1, LastOne
<1>3. CASE i < v /\ z # <<>> /\ Head(z) = Top(i + 1)
  <2>1. i + 1 \in DOMAIN History /\ i + 1 # i
    BY <1>3, Between, VersionsBefore
  <2>2. IsSoa(Head(z)) /\ Head(z).rd # SerialOf(History[i])
    <3> DEFINE j == i + 1
    <3>1. j \in DOMAIN History /\ j # i /\ Head(z) = Top(j)
      BY <1>3, <2>1
    <3> HIDE DEF j
    <3> QED
      BY <1>1, <3>1, HistoryIs, SameSerial
  <2> QED
    BY <1>1, <1>3, <2>2
<1>4. ASSUME i < v, NEW y \in LeftOver(i + 1, v), z = Changes(i) \o y
      PROVE  /\ z # <<>> /\ IsSoa(Head(z))
             /\ TakesLeft(v, SerialOf(History[i]), Tail(z), ZoneOf(History[i]))
  <2>1. /\ i \in DOMAIN History /\ i + 1 \in DOMAIN History /\ i + 1 \in 1..v
        /\ History[i] = Common(i) \cup {Top(i)} \cup (Records(i) \ Records(i + 1))
    BY <1>4, Between
  <2>2. y \in Seq(AllRecords)
    BY <1>4, <2>1, LeftOverIs
  <2> DEFINE n == New(i)
             last == <<Top(i + 1)>>
             q == Gone(i)
             rest == q \o (last \o (n \o y))
  <2>3. /\ q \in Seq(AllRecords) /\ n \in Seq(AllRecords) /\ last \in Seq(AllRecords)
        /\ Range(q) = Records(i) \ Records(i + 1) /\ IsInjective(q)
        /\ z = <<Top(i)>> \o rest
    BY <1>4, <2>1, <2>2, ChangesAre
  <2>4. q \in Seq(Records(i) \ Records(i + 1))
    <3>1. IsFiniteSet(Records(i))
      BY <2>1, HistoryIs
    <3>2. IsFiniteSet(Records(i) \ Records(i + 1))
      BY <3>1, FS_Subset
    <3> QED
      BY <3>2, SetToSeqIs DEF Gone
  <2>5. ZoneOf(History[i]) = ZoneOf(Common(i) \cup {Top(i)} \cup Range(q))
    BY <2>1, <2>3
  <2>6. i \in Earlier(SerialOf(History[i]), v)
    BY <1>4 DEF Earlier
  <2> HIDE DEF q
  <2>7. TakesLeft(v, SerialOf(History[i]), rest, ZoneOf(History[i]))
    BY <1>4, <2>3, <2>4, <2>5, <2>6 DEF TakesLeft
  <2> HIDE DEF n, last
  <2>8. rest \in Seq(AllRecords)
    <3>1. n \o y \in Seq(AllRecords)
      BY <2>2, <2>3, ConcatProperties
    <3>2. last \o (n \o y) \in Seq(AllRecords)
      BY <2>3, <3>1, ConcatProperties
    <3> QED
      BY <2>3, <3>2, ConcatProperties
  <2> HIDE DEF rest
  <2>9. Top(i) \in AllRecords /\ IsSoa(Top(i))
    BY <2>1, HistoryIs
  <2>10. z # <<>> /\ Head(z) = Top(i) /\ Tail(z) = rest
    BY <2>3, <2>8, <2>9, OneAhead
  <2> QED
    BY <2>7, <2>9, <2>10
<1> QED
  BY <1>1, <1>2, <1>3, <1>4, LeftOverIs

(* A record of a difference, while it takes records away.                  *)
LEMMA TakesStep ==
    ASSUME NEW v \in DOMAIN History, NEW serial, NEW s, NEW c, TakesLeft(v, serial, s, c)
    PROVE  LET rr == Head(s)
           IN  /\ s # <<>>
               /\ IsSoa(rr) => \E S : LET T == WithSoa(S, rr)
                                      IN  /\ c = ZoneOf(S) /\ Consistent(T)
                                          /\ GivesLeft(v, rr.rd, Tail(s), ZoneOf(T))
               /\ ~IsSoa(rr) => \E S : /\ c = ZoneOf(S) /\ Consistent(S) /\ rr \in S
                                       /\ TakesLeft(v, serial, Tail(s), ZoneOf(S \ {rr}))
<1>1. PICK i \in Earlier(serial, v) :
         \E q, z : /\ q \in Seq(Records(i) \ Records(i + 1)) /\ IsInjective(q) /\ z \in LeftOver(i + 1, v)
                   /\ s = q \o (<<Top(i + 1)>> \o (New(i) \o z))
                   /\ c = ZoneOf(Common(i) \cup {Top(i)} \cup Range(q))
  BY DEF TakesLeft
<1>2. PICK q, z : /\ q \in Seq(Records(i) \ Records(i + 1)) /\ IsInjective(q) /\ z \in LeftOver(i + 1, v)
                  /\ s = q \o (<<Top(i + 1)>> \o (New(i) \o z))
                  /\ c = ZoneOf(Common(i) \cup {Top(i)} \cup Range(q))
  BY <1>1
<1>3. i \in 1..v /\ i < v
  BY DEF Earlier
<1>4. /\ i \in DOMAIN History /\ i + 1 \in DOMAIN History /\ i + 1 \in 1..v
      /\ History[i] = Common(i) \cup {Top(i)} \cup (Records(i) \ Records(i + 1))
      /\ History[i + 1] = Common(i) \cup {Top(i + 1)} \cup (Records(i + 1) \ Records(i))
      /\ Consistent(History[i]) /\ Consistent(History[i + 1])
  BY <1>3, Between
<1> DEFINE d == Records(i) \ Records(i + 1)
           gains == Records(i + 1) \ Records(i)
           u == Top(i + 1)
           n == New(i)
           tail == n \o z
           rest == <<u>> \o tail
<1>5. /\ IsSoa(u) /\ u.rd = SerialOf(History[i + 1]) /\ u \in AllRecords
      /\ \A rr \in Records(i + 1) : ~IsSoa(rr)
  BY <1>4, HistoryIs
<1>6. /\ IsSoa(Top(i)) /\ Records(i) \subseteq AllRecords /\ \A rr \in Records(i) : ~IsSoa(rr)
  BY <1>4, HistoryIs
<1>7. n \in Seq(AllRecords) /\ n \in Seq(gains) /\ Range(n) = gains
  <2>1. n \in Seq(AllRecords) /\ Range(n) = gains
    BY <1>4, ChangesAre
  <2>2. n \in Seq(Range(n))
    BY <2>1, RangeIs
  <2> QED
    BY <2>1, <2>2
<1>8. z \in Seq(AllRecords)
  BY <1>2, <1>4, LeftOverIs
<1>9. q \in Seq(AllRecords) /\ Range(q) \subseteq d
  <2>1. d \subseteq AllRecords
    BY <1>6
  <2> QED
    BY <1>2, <2>1, MonotonicSeq
<1> HIDE DEF n
<1>10. tail \in Seq(AllRecords)
  BY <1>7, <1>8, ConcatProperties
<1> HIDE DEF tail, u
<1>11. rest \in Seq(AllRecords) /\ rest # <<>> /\ Head(rest) = u /\ Tail(rest) = tail
  BY <1>5, <1>10, OneAhead DEF u
<1>12. s = q \o rest
  BY <1>2 DEF u, tail, n
<1> HIDE DEF rest
<1>13. CASE q = <<>>
  <2> DEFINE S == Common(i) \cup {Top(i)} \cup Range(q)
             T == WithSoa(S, u)
  <2>1. Range(q) = {} /\ s = rest
    BY <1>11, <1>12, <1>13, EmptyIs
  <2>2. T = Common(i) \cup {Top(i + 1)} \cup {}
    BY <1>5, <1>6, <2>1 DEF Common, u, WithSoa
  <2>3. Consistent(T)
    BY <1>4, <2>2, PartConsistent
  <2>4. GivesLeft(v, u.rd, tail, ZoneOf(T))
    <3>1. {} \cup Range(n) = gains
      BY <1>7
    <3> QED
      BY <1>2, <1>3, <1>5, <1>7, <2>2, <3>1 DEF GivesLeft, tail, u
  <2>5. c = ZoneOf(S)
    BY <1>2
  <2> QED
    BY <1>5, <1>11, <2>1, <2>3, <2>4, <2>5 DEF u
<1>14. CASE q # <<>>
  <2>1. /\ Head(q) \in d /\ Tail(q) \in Seq(d) /\ IsInjective(Tail(q))
        /\ Range(q) = {Head(q)} \cup Range(Tail(q)) /\ Head(q) \notin Range(Tail(q))
    BY <1>2, <1>14, HeadAndRest
  <2>2. s # <<>> /\ Head(s) = Head(q) /\ Tail(s) = Tail(q) \o rest
    BY <1>9, <1>11, <1>12, <1>14, HeadAndRest
  <2> DEFINE rr == Head(q)
             S == Common(i) \cup {Top(i)} \cup Range(q)
  <2>3. ~IsSoa(rr) /\ rr \in S /\ S \subseteq History[i]
    BY <1>4, <1>6, <1>9, <2>1
  <2>4. S \ {rr} = Common(i) \cup {Top(i)} \cup Range(Tail(q))
    BY <1>6, <2>1, <2>3 DEF Common
  <2>5. Consistent(S)
    BY <1>4, <2>3, PartConsistent
  <2>6. TakesLeft(v, serial, Tail(s), ZoneOf(S \ {rr}))
    <3>1. /\ Tail(s) = Tail(q) \o (<<Top(i + 1)>> \o (New(i) \o z))
          /\ ZoneOf(S \ {rr}) = ZoneOf(Common(i) \cup {Top(i)} \cup Range(Tail(q)))
      BY <2>2, <2>4 DEF rest, tail, u, n
    <3> QED
      BY <1>2, <2>1, <3>1 DEF TakesLeft
  <2>7. c = ZoneOf(S)
    BY <1>2
  <2> QED
    BY <2>2, <2>3, <2>5, <2>6, <2>7
<1> QED
  BY <1>13, <1>14

(* ... and while it adds records.                                          *)
LEMMA GivesStep ==
    ASSUME NEW v \in DOMAIN History, NEW serial, NEW s, NEW c, GivesLeft(v, serial, s, c)
    PROVE  LET rr == Head(s)
           IN  /\ s # <<>>
               /\ IsSoa(rr) /\ rr.rd = serial =>
                     /\ rr.rd = SerialOf(History[v]) => rr = Top(v) /\ c = ZoneOf(History[v])
                     /\ rr.rd # SerialOf(History[v]) => TakesLeft(v, serial, Tail(s), c)
               /\ ~IsSoa(rr) => \E S : /\ c = ZoneOf(S) /\ Consistent(S \cup {rr})
                                       /\ GivesLeft(v, serial, Tail(s), ZoneOf(S \cup {rr}))
<1>1. PICK i \in 1..v :
         /\ i < v /\ SerialOf(History[i + 1]) = serial
         /\ \E A, q, z : /\ q \in Seq(Records(i + 1) \ Records(i)) /\ z \in LeftOver(i + 1, v)
                         /\ A \cup Range(q) = Records(i + 1) \ Records(i)
                         /\ s = q \o z /\ c = ZoneOf(Common(i) \cup {Top(i + 1)} \cup A)
  BY DEF GivesLeft
<1>2. PICK A, q, z : /\ q \in Seq(Records(i + 1) \ Records(i)) /\ z \in LeftOver(i + 1, v)
                     /\ A \cup Range(q) = Records(i + 1) \ Records(i)
                     /\ s = q \o z /\ c = ZoneOf(Common(i) \cup {Top(i + 1)} \cup A)
  BY <1>1
<1> DEFINE j == i + 1
           gains == Records(j) \ Records(i)
<1>3. /\ j \in DOMAIN History /\ j \in 1..v /\ v \in 1..v
      /\ History[j] = Common(i) \cup {Top(j)} \cup gains /\ Consistent(History[j])
  BY <1>1, Between
<1>4. /\ z \in Seq(AllRecords) /\ z # <<>> /\ IsSoa(Head(z))
      /\ Head(z).rd = SerialOf(History[j]) /\ j < v =>
            TakesLeft(v, SerialOf(History[j]), Tail(z), ZoneOf(History[j]))
  BY <1>2, <1>3, NextDifference
<1>5. q \in Seq(AllRecords) /\ Records(j) \subseteq AllRecords /\ \A rr \in Records(j) : ~IsSoa(rr)
  <2>1. Records(j) \subseteq AllRecords /\ \A rr \in Records(j) : ~IsSoa(rr)
    BY <1>3, HistoryIs
  <2>2. gains \subseteq AllRecords
    BY <2>1
  <2> QED
    BY <1>2, <2>1, <2>2, MonotonicSeq
<1>6. CASE q = <<>>
  <2>1. s = z /\ Range(q) = {}
    BY <1>2, <1>4, <1>6, EmptyIs
  <2>2. c = ZoneOf(History[j])
    BY <1>2, <1>3, <2>1
  <2>3. ASSUME Head(z).rd = serial, Head(z).rd = SerialOf(History[v])
        PROVE  Head(z) = Top(v) /\ c = ZoneOf(History[v])
    <3>1. j = v
      BY <1>1, <1>3, <2>3, SameSerial
    <3>2. i + 1 = v
      BY <3>1
    <3>3. z = <<Top(v)>>
      BY <1>2, <1>3, <3>2, LeftOverIs
    <3> QED
      BY <2>2, <3>1, <3>3
  <2>4. ASSUME Head(z).rd = serial, Head(z).rd # SerialOf(History[v])
        PROVE  TakesLeft(v, serial, Tail(z), c)
    <3>1. j # v
      BY <1>1, <2>4
    <3>2. j < v
      BY <1>1, <3>1, VersionsBefore
    <3> QED
      BY <1>1, <1>4, <2>2, <2>4, <3>2
  <2> QED
    BY <1>4, <2>1, <2>3, <2>4
<1>7. CASE q # <<>>
  <2>1. Head(q) \in gains /\ Tail(q) \in Seq(gains) /\ Range(q) = {Head(q)} \cup Range(Tail(q))
    BY <1>2, <1>7, HeadAndRest
  <2>2. s # <<>> /\ Head(s) = Head(q) /\ Tail(s) = Tail(q) \o z
    BY <1>2, <1>4, <1>5, <1>7, HeadAndRest
  <2> DEFINE rr == Head(q)
             B == A \cup {rr}
             S == Common(i) \cup {Top(j)} \cup A
  <2>3. ~IsSoa(rr) /\ S \cup {rr} \subseteq History[j] /\ B \cup Range(Tail(q)) = gains
    BY <1>2, <1>3, <1>5, <2>1
  <2>4. S \cup {rr} = Common(i) \cup {Top(j)} \cup B
    OBVIOUS
  <2>5. Consistent(S \cup {rr})
    BY <1>3, <2>3, PartConsistent
  <2>6. GivesLeft(v, serial, Tail(s), ZoneOf(S \cup {rr}))
    <3>1. ZoneOf(S \cup {rr}) = ZoneOf(Common(i) \cup {Top(i + 1)} \cup B)
      BY <2>4
    <3> HIDE DEF B
    <3>2. /\ Tail(q) \in Seq(Records(i + 1) \ Records(i)) /\ B \cup Range(Tail(q)) = Records(i + 1) \ Records(i)
      BY <2>1, <2>3
    <3> QED
      BY <1>1, <1>2, <2>2, <3>1, <3>2 DEF GivesLeft
  <2>7. c = ZoneOf(S)
    BY <1>2
  <2> QED
    BY <2>2, <2>3, <2>5, <2>6, <2>7
<1> QED
  BY <1>6, <1>7

(* The record after the first SOA of an IXFR's answer.                     *)
LEMMA ExpectStep ==
    ASSUME NEW v \in DOMAIN History, NEW serial, NEW s \in AfterFirst("IXFR", serial, v), s # <<>>
    PROVE  LET rr == Head(s)
           IN  /\ ~IsSoa(rr) => s = WholeZone(v)
               /\ IsSoa(rr) /\ rr.rd # SerialOf(History[v]) /\ rr.rd = serial =>
                     \A c : StartsFrom("IXFR", serial, c) => TakesLeft(v, serial, Tail(s), c)
<1>1. CASE s = WholeZone(v)
  <2>1. WholeLeft(v, s, ZoneOf({}))
    BY <1>1, WholeStarts
  <2>2. IsSoa(Head(s)) => Head(s) = Top(v)
    BY <2>1, WholeStep
  <2>3. Top(v).rd = SerialOf(History[v])
    BY HistoryIs
  <2> QED
    BY <1>1, <2>2, <2>3
<1>2. CASE s # WholeZone(v)
  <2>1. PICK i \in Earlier(serial, v) : s \in LeftOver(i, v)
    BY <1>2 DEF AfterFirst
  <2>2. i \in 1..v /\ i < v /\ SerialOf(History[i]) = serial
    BY DEF Earlier
  <2>3. IsSoa(Head(s)) /\ (Head(s).rd = serial => TakesLeft(v, serial, Tail(s), ZoneOf(History[i])))
    BY <2>1, <2>2, NextDifference
  <2>4. ASSUME NEW c, StartsFrom("IXFR", serial, c) PROVE c = ZoneOf(History[i])
    <3>1. PICK k \in DOMAIN History : SerialOf(History[k]) = serial /\ c = ZoneOf(History[k])
      BY <2>4 DEF StartsFrom
    <3>2. i \in DOMAIN History
      BY <2>2, VersionsBefore
    <3>3. k = i
      BY <2>2, <3>1, <3>2, SameSerial
    <3> QED
      BY <3>1, <3>3
  <2> QED
    BY <2>3, <2>4
<1> QED
  BY <1>1, <1>2

(* What the server sends: the SOA of its version, and what may follow.     *)
LEMMA AnswersAre ==
    ASSUME server \in DOMAIN History, NEW x, NEW stream \in Answers(x) \cup Broken(x)
    PROVE  \E s \in AfterFirst(x.rdtype, x.serial, server) : stream = <<Top(server)>> \o s
<1> DEFINE v == server
           R == AllRecords
           a == <<Top(v)>>
<1>1. a \in Seq(R)
  <2>1. Top(v) \in R
    BY HistoryIs
  <2> QED
    BY <2>1
<1> HIDE DEF a
<1>2. ASSUME NEW m \in Seq(R) PROVE (a \o m) \o a = a \o (m \o a)
  <2>1. Joins(Joins(a, m), a) = Joins(a, Joins(m, a))
    BY <1>1, JoinsIs
  <2> QED
    BY <2>1 DEF Joins
<1>3. ASSUME NEW j \in Known(x)
      PROVE  /\ j \in Earlier(x.serial, v) /\ x.rdtype = "IXFR"
             /\ j \in 1..v /\ Differences(j, v) \in Seq(Seq(R)) /\ Len(Differences(j, v)) = v - j
  <2>1. j \in 1..v - 1 /\ x.rdtype = "IXFR" /\ SerialOf(History[j]) = x.serial
    BY DEF Known
  <2>2. j \in 1..v /\ j < v
    BY <2>1, VersionsBefore
  <2>3. j \in Earlier(x.serial, v)
    BY <2>1, <2>2 DEF Earlier
  <2> QED
    BY <2>1, <2>2, <2>3, DifferencesAre
<1>4. CASE stream = <<Top(v)>>
  <2>1. <<>> \in AfterFirst(x.rdtype, x.serial, v)
    BY DEF AfterFirst
  <2>2. a \o <<>> = a
    BY <1>1, ConcatEmptySeq
  <2> QED
    BY <1>4, <2>1, <2>2 DEF a
<1>5. CASE stream = AxfrStream(v)
  <2> DEFINE m == SetToSeq(Records(v))
  <2>1. m \in Seq(R)
    <3>1. m \in Seq(Records(v)) /\ Records(v) \subseteq R
      BY HistoryIs, SetToSeqIs
    <3> QED
      BY <3>1, MonotonicSeq
  <2>2. stream = (a \o m) \o a
    BY <1>5 DEF AxfrStream, a
  <2>3. m \o a \in AfterFirst(x.rdtype, x.serial, v)
    BY DEF AfterFirst, WholeZone, a
  <2> HIDE DEF m
  <2>4. stream = a \o (m \o a)
    BY <1>2, <2>1, <2>2
  <2> QED
    BY <2>3, <2>4 DEF a
<1>6. ASSUME NEW j \in Known(x), NEW d \in Seq(Seq(R)), stream = (<<Top(v)>> \o FlattenSeq(d)) \o <<Top(v)>>,
             FlattenSeq(d) \o <<Top(v)>> \in LeftOver(j, v)
      PROVE  \E s \in AfterFirst(x.rdtype, x.serial, v) : stream = <<Top(v)>> \o s
  <2> DEFINE m == FlattenSeq(d)
  <2>1. m \in Seq(R)
    BY FlattenIsSeq
  <2>2. m \o a \in LeftOver(j, v) /\ stream = (a \o m) \o a
    BY <1>6 DEF a
  <2> HIDE DEF m
  <2>3. stream = a \o (m \o a)
    BY <1>2, <2>1, <2>2
  <2>4. m \o a \in AfterFirst(x.rdtype, x.serial, v)
    BY <1>3, <2>2 DEF AfterFirst
  <2> QED
    BY <2>3, <2>4 DEF a
<1>7. ASSUME NEW j \in Known(x), stream = IxfrStream(j, v)
      PROVE  \E s \in AfterFirst(x.rdtype, x.serial, v) : stream = <<Top(v)>> \o s
  <2>1. FlattenSeq(Differences(j, v)) \o <<Top(v)>> \in LeftOver(j, v)
    BY DEF LeftOver
  <2> QED
    BY <1>3, <1>6, <1>7, <2>1 DEF IxfrStream
<1>8. ASSUME stream \in Broken(x)
      PROVE  \E s \in AfterFirst(x.rdtype, x.serial, v) : stream = <<Top(v)>> \o s
  <2>1. PICK p \in {q \in Known(x) \X DOMAIN History : q[1] + q[2] <= v} :
           stream = <<Top(v)>> \o FlattenSeq(RemoveAt(Differences(p[1], v), p[2])) \o <<Top(v)>>
    BY <1>8 DEF Broken
  <2>2. PICK j \in Known(x), r \in DOMAIN History : j = p[1] /\ r = p[2] /\ j + r <= v
    <3>1. p \in Known(x) \X DOMAIN History /\ p[1] + p[2] <= v
      OBVIOUS
    <3>2. p[1] \in Known(x) /\ p[2] \in DOMAIN History
      BY <3>1
    <3> QED
      BY <3>1, <3>2, Zenon
  <2>3. r \in 1..(v - j)
    BY <1>3, <2>2, VersionsBefore
  <2> DEFINE d == RemoveAt(Differences(j, v), r)
  <2>4. d \in Seq(Seq(R))
    BY <1>3, <2>3, RemoveAtIs
  <2>5. FlattenSeq(d) \o <<Top(v)>> \in LeftOver(j, v)
    BY <2>3 DEF LeftOver
  <2>6. stream = (<<Top(v)>> \o FlattenSeq(d)) \o <<Top(v)>>
    BY <2>1, <2>2
  <2> HIDE DEF d
  <2> QED
    BY <1>6, <2>4, <2>5, <2>6
<1> QED
  BY <1>4, <1>5, <1>7, <1>8 DEF Answers

(* The first record.                                                       *)
LEMMA FirstIs ==
    ASSUME NEW v \in DOMAIN History, NEW rdtype, NEW serial, NEW s \in AfterFirst(rdtype, serial, v),
           NEW stream, stream = <<Top(v)>> \o s
    PROVE  stream # <<>> /\ Head(stream) = Top(v) /\ Tail(stream) = s
<1>1. s \in Seq(AllRecords)
  <2>1. CASE s = <<>>
    BY <2>1
  <2>2. CASE s = WholeZone(v)
    <3> DEFINE m == SetToSeq(Records(v))
               a == <<Top(v)>>
    <3>1. m \in Seq(Records(v)) /\ Records(v) \subseteq AllRecords /\ Top(v) \in AllRecords
      BY HistoryIs, SetToSeqIs
    <3>2. m \in Seq(AllRecords)
      BY <3>1, MonotonicSeq
    <3>3. a \in Seq(AllRecords) /\ s = m \o a
      BY <2>2, <3>1 DEF WholeZone
    <3> HIDE DEF m, a
    <3> QED
      BY <3>2, <3>3, ConcatProperties
  <2>3. ASSUME NEW j \in Earlier(serial, v), s \in LeftOver(j, v) PROVE s \in Seq(AllRecords)
    <3>1. j \in 1..v
      BY DEF Earlier
    <3> QED
      BY <2>3, <3>1, LeftOverIs
  <2> QED
    BY <2>1, <2>2, <2>3 DEF AfterFirst
<1>2. Top(v) \in AllRecords
  BY HistoryIs
<1> QED
  BY <1>1, <1>2, OneAhead

-----------------------------------------------------------------------------
(* The invariant: what a transfer has read of its stream, what is left of  *)
(* it, and the content its transaction has made so far.                    *)

XferFields == {"phase", "mode", "udp", "rdtype", "serial", "stream", "soa", "expecting", "deleting", "version", "based"}

IsXfer(x) ==
    /\ DOMAIN x = XferFields
    /\ x.rdtype \in {"AXFR", "IXFR"} /\ x.expecting \in BOOLEAN /\ x.deleting \in BOOLEAN

Unread(x) == x.soa = None /\ x.expecting = FALSE /\ x.deleting = FALSE

InFull(x) ==
    /\ Unread(x)
    /\ \E s \in AfterFirst(x.rdtype, x.serial, x.version) : x.stream = <<Top(x.version)>> \o s

InRestart(x) ==
    /\ x.rdtype = "AXFR" /\ x.expecting = FALSE /\ x.deleting = FALSE
    /\ x.soa = SerialOf(History[x.version]) /\ x.stream = WholeZone(x.version)

Applying(x, c) ==
    IF x.rdtype = "AXFR" THEN x.deleting = FALSE /\ WholeLeft(x.version, x.stream, c)
    ELSE IF x.deleting THEN TakesLeft(x.version, x.serial, x.stream, c)
    ELSE GivesLeft(x.version, x.serial, x.stream, c)

Expects(x, c) ==
    /\ x.rdtype = "IXFR" /\ x.deleting = FALSE
    /\ x.stream \in AfterFirst("IXFR", x.serial, x.version)
    /\ x.based => StartsFrom("IXFR", x.serial, c)

InAnswer(x, c) ==
    IF x.soa = None THEN InFull(x) /\ (x.based => StartsFrom(x.rdtype, x.serial, c))
    ELSE /\ x.soa = SerialOf(History[x.version])
         /\ IF x.expecting THEN Expects(x, c) ELSE x.based => Applying(x, c)

OnTrack(x, where, replacing, c) ==
    /\ IsXfer(x)
    /\ x.phase \in {"read", "again"} => x.version \in DOMAIN History
    /\ x.phase = "sent" => Unread(x)
    /\ x.phase = "again" => InRestart(x)
    /\ x.phase = "read" => IF where = "in" THEN InAnswer(x, c) ELSE InFull(x) \/ InRestart(x)
    /\ x.phase = "read" /\ where = "setup" => (replacing <=> x.rdtype = "AXFR")

LEMMA IdleIs ==
    ASSUME NEW where, NEW replacing, NEW c
    PROVE  OnTrack(Idle, where, replacing, c)
<1>1. Idle.phase = "idle" /\ IsXfer(Idle)
  BY DEF Idle, IsXfer, XferFields
<1> QED
  BY <1>1 DEF OnTrack

LEMMA XferMoves ==
    ASSUME NEW x, DOMAIN x = XferFields
    PROVE  /\ \A phase, stream, version :
                 LET y == [x EXCEPT !.phase = phase, !.stream = stream, !.version = version]
                 IN  /\ DOMAIN y = XferFields /\ y.phase = phase /\ y.stream = stream /\ y.version = version
                     /\ y.rdtype = x.rdtype /\ y.serial = x.serial /\ y.soa = x.soa /\ y.based = x.based
                     /\ y.expecting = x.expecting /\ y.deleting = x.deleting
           /\ \A based :
                 LET y == [x EXCEPT !.based = based]
                 IN  /\ DOMAIN y = XferFields /\ y.phase = x.phase /\ y.stream = x.stream /\ y.version = x.version
                     /\ y.rdtype = x.rdtype /\ y.serial = x.serial /\ y.soa = x.soa /\ y.based = based
                     /\ y.expecting = x.expecting /\ y.deleting = x.deleting
           /\ \A phase :
                 LET y == [x EXCEPT !.phase = phase]
                 IN  /\ DOMAIN y = XferFields /\ y.phase = phase /\ y.stream = x.stream /\ y.version = x.version
                     /\ y.rdtype = x.rdtype /\ y.serial = x.serial /\ y.soa = x.soa /\ y.based = x.based
                     /\ y.expecting = x.expecting /\ y.deleting = x.deleting
           /\ \A soa, stream, expecting :
                 LET y == [x EXCEPT !.soa = soa, !.stream = stream, !.expecting = expecting]
                 IN  /\ DOMAIN y = XferFields /\ y.phase = x.phase /\ y.stream = stream /\ y.version = x.version
                     /\ y.rdtype = x.rdtype /\ y.serial = x.serial /\ y.soa = soa /\ y.based = x.based
                     /\ y.expecting = expecting /\ y.deleting = x.deleting
BY DEF XferFields

LEMMA XferReads ==
    ASSUME NEW x, DOMAIN x = XferFields
    PROVE  /\ \A stream, expecting, deleting :
                 LET y == [x EXCEPT !.stream = stream, !.expecting = expecting, !.deleting = deleting]
                 IN  /\ DOMAIN y = XferFields /\ y.phase = x.phase /\ y.stream = stream /\ y.version = x.version
                     /\ y.rdtype = x.rdtype /\ y.serial = x.serial /\ y.soa = x.soa /\ y.based = x.based
                     /\ y.expecting = expecting /\ y.deleting = deleting
           /\ \A serial :
                 LET y == [x EXCEPT !.serial = serial]
                 IN  /\ DOMAIN y = XferFields /\ y.phase = x.phase /\ y.stream = x.stream /\ y.version = x.version
                     /\ y.rdtype = x.rdtype /\ y.serial = serial /\ y.soa = x.soa /\ y.based = x.based
                     /\ y.expecting = x.expecting /\ y.deleting = x.deleting
           /\ \A stream :
                 LET y == [x EXCEPT !.stream = stream]
                 IN  /\ DOMAIN y = XferFields /\ y.phase = x.phase /\ y.stream = stream /\ y.version = x.version
                     /\ y.rdtype = x.rdtype /\ y.serial = x.serial /\ y.soa = x.soa /\ y.based = x.based
                     /\ y.expecting = x.expecting /\ y.deleting = x.deleting
           /\ \A rdtype, expecting, deleting, phase :
                 LET y == [x EXCEPT !.rdtype = rdtype, !.expecting = expecting, !.deleting = deleting, !.phase = phase]
                 IN  /\ DOMAIN y = XferFields /\ y.phase = phase /\ y.stream = x.stream /\ y.version = x.version
                     /\ y.rdtype = rdtype /\ y.serial = x.serial /\ y.soa = x.soa /\ y.based = x.based
                     /\ y.expecting = expecting /\ y.deleting = deleting
BY DEF XferFields

LEMMA MessageTracks ==
    ASSUME NEW x, NEW where, NEW replacing, NEW c, OnTrack(x, where, replacing, c), x.phase = "sent",
           server \in DOMAIN History, NEW stream \in Answers(x) \cup Broken(x), NEW y,
           y = [x EXCEPT !.phase = "read", !.stream = stream, !.version = server],
           NEW now_replacing, NEW d
    PROVE  OnTrack(y, "ask", now_replacing, d)
<1>1. IsXfer(x) /\ Unread(x)
  BY DEF OnTrack
<1>2. /\ DOMAIN y = XferFields /\ y.phase = "read" /\ y.stream = stream /\ y.version = server
      /\ y.rdtype = x.rdtype /\ y.serial = x.serial /\ y.soa = x.soa /\ y.based = x.based
      /\ y.expecting = x.expecting /\ y.deleting = x.deleting
  BY <1>1, XferMoves DEF IsXfer
<1>3. IsXfer(y)
  BY <1>1, <1>2 DEF IsXfer
<1>4. \E s \in AfterFirst(x.rdtype, x.serial, server) : stream = <<Top(server)>> \o s
  BY AnswersAre
<1>5. Unread(y)
  BY <1>1, <1>2 DEF Unread
<1>6. InFull(y)
  BY <1>2, <1>4, <1>5 DEF InFull
<1> QED
  BY <1>2, <1>3, <1>6 DEF OnTrack

LEMMA RestartTracks ==
    ASSUME NEW x, NEW where, NEW replacing, NEW c, OnTrack(x, where, replacing, c), x.phase = "again", NEW y,
           y = [x EXCEPT !.phase = "read"], NEW now_replacing, NEW d
    PROVE  OnTrack(y, "ask", now_replacing, d)
<1>1. IsXfer(x) /\ InRestart(x) /\ x.version \in DOMAIN History
  BY DEF OnTrack
<1>2. /\ DOMAIN y = XferFields /\ y.phase = "read" /\ y.stream = x.stream /\ y.version = x.version
      /\ y.rdtype = x.rdtype /\ y.soa = x.soa /\ y.expecting = x.expecting /\ y.deleting = x.deleting
  BY <1>1, XferMoves DEF IsXfer
<1>3. IsXfer(y) /\ InRestart(y)
  BY <1>1, <1>2 DEF IsXfer, InRestart
<1> QED
  BY <1>1, <1>2, <1>3 DEF OnTrack

LEMMA SetUpTracks ==
    ASSUME NEW x, NEW replacing, NEW c, OnTrack(x, "setup", replacing, c), NEW based, NEW y,
           y = [x EXCEPT !.based = based], NEW now_replacing, NEW d,
           x.phase = "read" /\ based => StartsFrom(x.rdtype, x.serial, d)
    PROVE  OnTrack(y, "in", now_replacing, d)
<1>1. IsXfer(x)
  BY DEF OnTrack
<1>2. /\ DOMAIN y = XferFields /\ y.phase = x.phase /\ y.stream = x.stream /\ y.version = x.version
      /\ y.rdtype = x.rdtype /\ y.serial = x.serial /\ y.soa = x.soa /\ y.based = based
      /\ y.expecting = x.expecting /\ y.deleting = x.deleting
  BY <1>1, XferMoves DEF IsXfer
<1>3. IsXfer(y) /\ (Unread(x) => Unread(y)) /\ (InRestart(x) => InRestart(y)) /\ (InFull(x) => InFull(y))
  BY <1>1, <1>2 DEF IsXfer, Unread, InRestart, InFull
<1>4. ASSUME x.phase = "read" PROVE InAnswer(y, d)
  <2>1. x.version \in DOMAIN History /\ (InFull(x) \/ InRestart(x))
    BY <1>4 DEF OnTrack
  <2>2. CASE InFull(x)
    BY <1>2, <1>3, <1>4, <2>2 DEF InAnswer, InFull, Unread
  <2>3. CASE InRestart(x)
    <3>1. y.soa # None
      BY <1>2, <2>1, <2>3, HistoryIs DEF InRestart
    <3>2. based => WholeLeft(x.version, WholeZone(x.version), d)
      <4>1. based => d = ZoneOf({})
        BY <1>4, <2>3 DEF StartsFrom, InRestart
      <4> QED
        BY <2>1, <4>1, WholeStarts
    <3>3. based => Applying(y, d)
      BY <1>2, <2>3, <3>2 DEF Applying, InRestart
    <3> QED
      BY <1>2, <2>3, <3>1, <3>3 DEF InAnswer, InRestart
  <2> QED
    BY <2>1, <2>2, <2>3
<1> QED
  BY <1>2, <1>3, <1>4 DEF OnTrack

LEMMA FirstTracks ==
    ASSUME NEW x, NEW replacing, NEW c, OnTrack(x, "in", replacing, c), x.phase = "read", x.soa = None, NEW y,
           y = [x EXCEPT !.soa = Head(x.stream).rd, !.stream = Tail(x.stream), !.expecting = (x.rdtype = "IXFR")]
    PROVE  OnTrack(y, "in", replacing, c)
<1>1. IsXfer(x) /\ InFull(x) /\ x.version \in DOMAIN History /\ (x.based => StartsFrom(x.rdtype, x.serial, c))
  BY DEF OnTrack, InAnswer
<1> DEFINE v == x.version
           rd == Head(x.stream).rd
           tail == Tail(x.stream)
<1>9. PICK expecting \in BOOLEAN : expecting = (x.rdtype = "IXFR")
  OBVIOUS
<1>10. v \in DOMAIN History
  BY <1>1
<1>2. PICK s \in AfterFirst(x.rdtype, x.serial, v) : x.stream = <<Top(v)>> \o s
  BY <1>1 DEF InFull
<1>3. x.stream # <<>> /\ Head(x.stream) = Top(v) /\ tail = s
  <2>1. PICK t : t = x.rdtype
    OBVIOUS
  <2>2. s \in AfterFirst(t, x.serial, v)
    BY <2>1
  <2> HIDE DEF v
  <2> QED
    BY <1>2, <1>10, <2>2, FirstIs
<1>4. rd = SerialOf(History[v]) /\ rd # None
  BY <1>1, <1>3, HistoryIs
<1> HIDE DEF rd, tail
<1>5. /\ DOMAIN y = XferFields /\ y.phase = "read" /\ y.stream = s /\ y.version = v
      /\ y.rdtype = x.rdtype /\ y.serial = x.serial /\ y.soa = rd /\ y.based = x.based
      /\ y.expecting = expecting /\ y.deleting = FALSE
  <2>1. y = [x EXCEPT !.soa = rd, !.stream = tail, !.expecting = expecting]
    BY <1>9 DEF rd, tail
  <2>3. DOMAIN x = XferFields
    BY <1>1 DEF IsXfer
  <2>2. /\ DOMAIN y = XferFields /\ y.phase = x.phase /\ y.stream = tail /\ y.version = x.version
        /\ y.rdtype = x.rdtype /\ y.serial = x.serial /\ y.soa = rd /\ y.based = x.based
        /\ y.expecting = expecting /\ y.deleting = x.deleting
    BY ONLY <2>1, <2>3 DEF XferFields
  <2> QED
    BY <1>1, <1>3, <2>2 DEF InFull, Unread
<1>6. IsXfer(y)
  BY <1>1, <1>5, <1>9 DEF IsXfer
<1>7. CASE x.rdtype = "IXFR"
  <2>1. y.expecting = TRUE
    BY <1>5, <1>7, <1>9
  <2>2. Expects(y, c)
    BY <1>1, <1>2, <1>5, <1>7 DEF Expects
  <2>3. InAnswer(y, c)
    BY <1>4, <1>5, <2>1, <2>2 DEF InAnswer
  <2> QED
    BY <1>1, <1>5, <1>6, <2>3 DEF OnTrack
<1>8. CASE x.rdtype = "AXFR"
  <2>1. y.expecting = FALSE
    BY <1>5, <1>8, <1>9
  <2>2. s \in {<<>>, WholeZone(v)}
    BY <1>2, <1>8 DEF AfterFirst
  <2>3. x.based => WholeLeft(v, s, c)
    <3>1. x.based => c = ZoneOf({})
      BY <1>1, <1>8 DEF StartsFrom
    <3> QED
      BY <1>1, <2>2, <3>1, WholeStarts
  <2>4. y.based => Applying(y, c)
    BY <1>5, <1>8, <2>3 DEF Applying
  <2>5. InAnswer(y, c)
    BY <1>4, <1>5, <2>1, <2>4 DEF InAnswer
  <2> QED
    BY <1>1, <1>5, <1>6, <2>5 DEF OnTrack
<1> QED
  BY <1>1, <1>7, <1>8 DEF IsXfer

(* What the invariant says of a transfer that has had its first SOA.       *)
LEMMA AnswerIs ==
    ASSUME NEW x, NEW replacing, NEW c, OnTrack(x, "in", replacing, c), x.phase = "read", x.soa # None
    PROVE  /\ IsXfer(x) /\ x.version \in DOMAIN History /\ x.soa = SerialOf(History[x.version])
           /\ IF x.expecting THEN Expects(x, c) ELSE x.based => Applying(x, c)
BY DEF OnTrack, InAnswer

(* ... and one that has read on.                                           *)
LEMMA StillTracks ==
    ASSUME NEW y, IsXfer(y), y.phase = "read", y.version \in DOMAIN History, y.expecting = FALSE,
           y.soa = SerialOf(History[y.version]), NEW replacing, NEW d, y.based => Applying(y, d)
    PROVE  OnTrack(y, "in", replacing, d)
<1>1. y.soa # None
  BY HistoryIs
<1>2. InAnswer(y, d)
  BY <1>1 DEF InAnswer
<1> QED
  BY <1>2 DEF OnTrack

(* The SOA that a difference begins with.                                  *)
LEMMA DeletingTracks ==
    ASSUME NEW x, NEW replacing, NEW c, OnTrack(x, "in", replacing, c), x.phase = "read", x.soa # None,
           x.stream # <<>>, IsSoa(Head(x.stream)), x.rdtype = "IXFR", x.deleting = FALSE,
           Head(x.stream).rd = x.serial, Head(x.stream).rd # x.soa, NEW y,
           y = [x EXCEPT !.stream = Tail(x.stream), !.expecting = FALSE, !.deleting = TRUE]
    PROVE  OnTrack(y, "in", replacing, c)
<1> DEFINE v == x.version
           s == x.stream
           tail == Tail(s)
<1>1. IsXfer(x) /\ v \in DOMAIN History /\ x.soa = SerialOf(History[v])
  BY AnswerIs
<1>2. IF x.expecting THEN Expects(x, c) ELSE x.based => Applying(x, c)
  BY AnswerIs
<1>3. /\ DOMAIN y = XferFields /\ y.phase = x.phase /\ y.stream = tail /\ y.version = x.version
      /\ y.rdtype = x.rdtype /\ y.serial = x.serial /\ y.soa = x.soa /\ y.based = x.based
      /\ y.expecting = FALSE /\ y.deleting = TRUE
  <2>1. DOMAIN x = XferFields
    BY <1>1 DEF IsXfer
  <2> HIDE DEF tail
  <2>2. y = [x EXCEPT !.stream = tail, !.expecting = FALSE, !.deleting = TRUE]
    BY DEF tail
  <2> QED
    BY ONLY <2>1, <2>2 DEF XferFields
<1>4. x.based => TakesLeft(v, x.serial, tail, c)
  <2>1. CASE x.expecting
    <3>1. s \in AfterFirst("IXFR", x.serial, v) /\ (x.based => StartsFrom("IXFR", x.serial, c))
      BY <1>2, <2>1 DEF Expects
    <3> QED
      BY <1>1, <3>1, ExpectStep
  <2>2. CASE ~x.expecting
    <3>1. x.based => GivesLeft(v, x.serial, s, c)
      BY <1>2, <2>2 DEF Applying
    <3> QED
      BY <1>1, <3>1, GivesStep
  <2> QED
    BY <2>1, <2>2
<1> HIDE DEF tail
<1>5. y.based => Applying(y, c)
  BY <1>3, <1>4 DEF Applying
<1>6. IsXfer(y)
  BY <1>1, <1>3 DEF IsXfer
<1> QED
  BY <1>1, <1>3, <1>5, <1>6, StillTracks

(* The SOA between what a difference takes and what it adds.               *)
Renewed(x) ==
    [[x EXCEPT !.stream = Tail(x.stream), !.expecting = FALSE, !.deleting = FALSE]
        EXCEPT !.serial = Head(x.stream).rd]

LEMMA AddingTracks ==
    ASSUME NEW x, NEW replacing, NEW c, OnTrack(x, "in", replacing, c), x.phase = "read", x.soa # None,
           x.stream # <<>>, IsSoa(Head(x.stream)), x.rdtype = "IXFR", x.deleting = TRUE,
           NEW y, y = Renewed(x)
    PROVE  /\ ~x.based => \A d : OnTrack(y, "in", replacing, d)
           /\ x.based => \E S : LET T == WithSoa(S, Head(x.stream))
                                IN  c = ZoneOf(S) /\ Consistent(T) /\ OnTrack(y, "in", replacing, ZoneOf(T))
<1> DEFINE v == x.version
           s == x.stream
           tail == Tail(s)
           rr == Head(s)
           rd == rr.rd
<1>1. IsXfer(x) /\ v \in DOMAIN History /\ x.soa = SerialOf(History[v])
  BY AnswerIs
<1>2. IF x.expecting THEN Expects(x, c) ELSE x.based => Applying(x, c)
  BY AnswerIs
<1>3. /\ DOMAIN y = XferFields /\ y.phase = x.phase /\ y.stream = tail /\ y.version = x.version
      /\ y.rdtype = x.rdtype /\ y.serial = rd /\ y.soa = x.soa /\ y.based = x.based
      /\ y.expecting = FALSE /\ y.deleting = FALSE
  <2>1. DOMAIN x = XferFields
    BY <1>1 DEF IsXfer
  <2> HIDE DEF tail, rd
  <2> DEFINE next == [x EXCEPT !.stream = tail, !.expecting = FALSE, !.deleting = FALSE]
  <2>2. next = [x EXCEPT !.stream = tail, !.expecting = FALSE, !.deleting = FALSE] /\ y = [next EXCEPT !.serial = rd]
    BY DEF tail, rd, Renewed
  <2> HIDE DEF next
  <2>3. /\ DOMAIN next = XferFields /\ next.phase = x.phase /\ next.stream = tail /\ next.version = x.version
        /\ next.rdtype = x.rdtype /\ next.soa = x.soa /\ next.based = x.based
        /\ next.expecting = FALSE /\ next.deleting = FALSE
    BY ONLY <2>1, <2>2 DEF XferFields
  <2>4. /\ DOMAIN y = XferFields /\ y.phase = next.phase /\ y.stream = next.stream /\ y.version = next.version
        /\ y.rdtype = next.rdtype /\ y.serial = rd /\ y.soa = next.soa /\ y.based = next.based
        /\ y.expecting = next.expecting /\ y.deleting = next.deleting
    BY ONLY <2>2, <2>3 DEF XferFields
  <2> QED
    BY ONLY <2>3, <2>4
<1>4. IsXfer(y)
  BY <1>1, <1>3 DEF IsXfer
<1>5. ASSUME x.based
      PROVE  \E S : LET T == WithSoa(S, rr)
                    IN  c = ZoneOf(S) /\ Consistent(T) /\ GivesLeft(v, rd, tail, ZoneOf(T))
  <2>1. ~x.expecting
    BY <1>2 DEF Expects
  <2>2. TakesLeft(v, x.serial, s, c)
    BY <1>2, <1>5, <2>1 DEF Applying
  <2> QED
    BY <1>1, <2>2, TakesStep
<1> HIDE DEF tail, rd
<1>6. ASSUME NEW d, y.based => GivesLeft(v, rd, tail, d) PROVE OnTrack(y, "in", replacing, d)
  <2>1. y.based => Applying(y, d)
    BY <1>3, <1>6 DEF Applying
  <2> QED
    BY <1>1, <1>3, <1>4, <2>1, StillTracks
<1> QED
  BY <1>3, <1>5, <1>6

(* The last SOA.                                                           *)
LEMMA LastTracks ==
    ASSUME NEW x, NEW replacing, NEW c, OnTrack(x, "in", replacing, c), x.phase = "read", x.soa # None,
           x.stream # <<>>, IsSoa(Head(x.stream)), x.expecting = FALSE, x.based,
           Head(x.stream).rd = x.soa,
           x.rdtype = "AXFR" \/ (x.deleting = FALSE /\ x.serial = Head(x.stream).rd)
    PROVE  \E S : c = ZoneOf(S) /\ WithSoa(S, Head(x.stream)) = History[x.version] /\ Consistent(History[x.version])
<1> DEFINE v == x.version
           s == x.stream
           rr == Head(s)
<1>1. IsXfer(x) /\ v \in DOMAIN History /\ x.soa = SerialOf(History[v]) /\ Applying(x, c)
  BY AnswerIs
<1>2. /\ IsSoa(Top(v)) /\ History[v] = Records(v) \cup {Top(v)} /\ Consistent(History[v])
      /\ \A other \in Records(v) : ~IsSoa(other)
  BY <1>1, HistoryIs
<1>3. CASE x.rdtype = "AXFR"
  <2>1. WholeLeft(v, s, c)
    BY <1>1, <1>3 DEF Applying
  <2>2. rr = Top(v) /\ c = ZoneOf(Records(v))
    BY <1>1, <2>1, WholeStep
  <2>3. WithSoa(Records(v), rr) = History[v]
    BY <1>2, <2>2 DEF WithSoa
  <2> QED
    BY <1>2, <2>2, <2>3
<1>4. CASE x.rdtype # "AXFR" /\ x.deleting = FALSE /\ x.serial = rr.rd
  <2>1. GivesLeft(v, x.serial, s, c)
    BY <1>1, <1>4 DEF Applying
  <2>2. rr = Top(v) /\ c = ZoneOf(History[v])
    BY <1>1, <1>4, <2>1, GivesStep
  <2>3. WithSoa(History[v], rr) = History[v]
    BY <1>2, <2>2 DEF WithSoa
  <2> QED
    BY <1>2, <2>2, <2>3
<1> QED
  BY <1>3, <1>4

(* Any other record: a whole zone where differences were expected,         *)
LEMMA AgainTracks ==
    ASSUME NEW x, NEW replacing, NEW c, OnTrack(x, "in", replacing, c), x.phase = "read", x.soa # None,
           x.stream # <<>>, ~IsSoa(Head(x.stream)), x.expecting, NEW y,
           y = [x EXCEPT !.rdtype = "AXFR", !.expecting = FALSE, !.deleting = FALSE, !.phase = "again"],
           NEW where, NEW now_replacing, NEW d
    PROVE  OnTrack(y, where, now_replacing, d)
<1> DEFINE v == x.version
           s == x.stream
<1>1. IsXfer(x) /\ v \in DOMAIN History /\ x.soa = SerialOf(History[v]) /\ Expects(x, c)
  BY AnswerIs
<1>2. s = WholeZone(v)
  <2>1. s \in AfterFirst("IXFR", x.serial, v)
    BY <1>1 DEF Expects
  <2> QED
    BY <1>1, <2>1, ExpectStep
<1>3. /\ DOMAIN y = XferFields /\ y.phase = "again" /\ y.stream = s /\ y.version = v
      /\ y.rdtype = "AXFR" /\ y.soa = x.soa /\ y.expecting = FALSE /\ y.deleting = FALSE
  BY <1>1 DEF IsXfer, XferFields
<1>4. IsXfer(y) /\ InRestart(y)
  BY <1>1, <1>2, <1>3 DEF IsXfer, InRestart
<1> QED
  BY <1>1, <1>3, <1>4 DEF OnTrack

(* ... a record to take away, and one to add.                              *)
LEMMA RecordTracks ==
    ASSUME NEW x, NEW replacing, NEW c, OnTrack(x, "in", replacing, c), x.phase = "read", x.soa # None,
           x.stream # <<>>, ~IsSoa(Head(x.stream)), ~x.expecting, NEW y,
           y = [x EXCEPT !.stream = Tail(x.stream)]
    PROVE  /\ ~x.based => \A d : OnTrack(y, "in", replacing, d)
           /\ x.based /\ x.deleting =>
                 \E S : /\ c = ZoneOf(S) /\ Consistent(S) /\ Head(x.stream) \in S
                        /\ OnTrack(y, "in", replacing, ZoneOf(S \ {Head(x.stream)}))
           /\ x.based /\ ~x.deleting =>
                 \E S : /\ c = ZoneOf(S) /\ Consistent(S \cup {Head(x.stream)})
                        /\ OnTrack(y, "in", replacing, ZoneOf(S \cup {Head(x.stream)}))
<1> DEFINE v == x.version
           s == x.stream
           tail == Tail(s)
           rr == Head(s)
<1>1. IsXfer(x) /\ v \in DOMAIN History /\ x.soa = SerialOf(History[v]) /\ (x.based => Applying(x, c))
  BY AnswerIs
<1>2. /\ DOMAIN y = XferFields /\ y.phase = "read" /\ y.stream = tail /\ y.version = x.version
      /\ y.rdtype = x.rdtype /\ y.serial = x.serial /\ y.soa = x.soa /\ y.based = x.based
      /\ y.expecting = x.expecting /\ y.deleting = x.deleting
  BY <1>1, XferReads DEF IsXfer
<1>3. IsXfer(y) /\ y.expecting = FALSE
  BY <1>1, <1>2 DEF IsXfer
<1>4. ASSUME NEW d, y.based => Applying(y, d) PROVE OnTrack(y, "in", replacing, d)
  BY <1>1, <1>2, <1>3, <1>4, StillTracks
<1>5. ASSUME x.based, x.rdtype = "AXFR"
      PROVE  ~x.deleting /\ \E S : /\ c = ZoneOf(S) /\ Consistent(S \cup {rr})
                                   /\ Applying(y, ZoneOf(S \cup {rr}))
  <2>1. x.deleting = FALSE /\ WholeLeft(v, s, c)
    BY <1>1, <1>5 DEF Applying
  <2>2. PICK S : /\ c = ZoneOf(S) /\ Consistent(S \cup {rr}) /\ WholeLeft(v, tail, ZoneOf(S \cup {rr}))
    BY <1>1, <2>1, WholeStep
  <2> HIDE DEF tail, rr
  <2>3. Applying(y, ZoneOf(S \cup {rr}))
    BY <1>2, <1>5, <2>1, <2>2 DEF Applying
  <2> QED
    BY <2>1, <2>2, <2>3
<1>6. ASSUME x.based, x.rdtype # "AXFR", x.deleting
      PROVE  \E S : c = ZoneOf(S) /\ Consistent(S) /\ rr \in S /\ Applying(y, ZoneOf(S \ {rr}))
  <2>1. TakesLeft(v, x.serial, s, c)
    BY <1>1, <1>6 DEF Applying
  <2>2. PICK S : /\ c = ZoneOf(S) /\ Consistent(S) /\ rr \in S /\ TakesLeft(v, x.serial, tail, ZoneOf(S \ {rr}))
    BY <1>1, <2>1, TakesStep
  <2> HIDE DEF tail, rr
  <2>3. Applying(y, ZoneOf(S \ {rr}))
    BY <1>2, <1>6, <2>2 DEF Applying
  <2> QED
    BY <2>2, <2>3
<1>7. ASSUME x.based, x.rdtype # "AXFR", ~x.deleting
      PROVE  \E S : c = ZoneOf(S) /\ Consistent(S \cup {rr}) /\ Applying(y, ZoneOf(S \cup {rr}))
  <2>1. GivesLeft(v, x.serial, s, c)
    BY <1>1, <1>7 DEF Applying
  <2>2. PICK S : c = ZoneOf(S) /\ Consistent(S \cup {rr}) /\ GivesLeft(v, x.serial, tail, ZoneOf(S \cup {rr}))
    BY <1>1, <2>1, GivesStep
  <2> HIDE DEF tail, rr
  <2>3. Applying(y, ZoneOf(S \cup {rr}))
    BY <1>2, <1>7, <2>2 DEF Applying
  <2> QED
    BY <2>2, <2>3
<1> HIDE DEF rr
<1>8. ~x.based => \A d : OnTrack(y, "in", replacing, d)
  BY <1>2, <1>4
<1>9. ASSUME x.based, x.deleting
      PROVE  \E S : c = ZoneOf(S) /\ Consistent(S) /\ rr \in S /\ OnTrack(y, "in", replacing, ZoneOf(S \ {rr}))
  BY <1>4, <1>5, <1>6, <1>9
<1>10. ASSUME x.based, ~x.deleting
       PROVE  \E S : c = ZoneOf(S) /\ Consistent(S \cup {rr}) /\ OnTrack(y, "in", replacing, ZoneOf(S \cup {rr}))
  BY <1>4, <1>5, <1>7, <1>10
<1> QED
  BY <1>8, <1>9, <1>10 DEF rr

-----------------------------------------------------------------------------
(* What the steps of the zone do to the content an open writer has made.   *)

Made == Content(heap, writer.nodes)

LEMMA MadeIs ==
    ASSUME ZInv, NEW t \in Writers, at[t] = "in"
    PROVE  ContentOf(Working) = Made /\ writer.thread = t
<1>1. Working.heap = heap /\ Working.nodes = writer.nodes
  BY DEF Working
<1>2. Writing(t)
  BY WorkingFits
<1> QED
  BY <1>1, <1>2 DEF ContentOf, Made, Writing

LEMMA WorkMakes ==
    ASSUME ZInv, NEW t \in Writers, NEW w, Fits(w, heap, Newest.id + 1), Work(t, w)
    PROVE  Made' = ContentOf(w) /\ writer'.replacement = writer.replacement /\ at' = at
<1>1. at[t] = "in" /\ Writing(t)
  BY DEF Work, ZInv, WritersOK
<1>2. writer' = [writer EXCEPT !.nodes = w.nodes, !.changed = w.changed] /\ at' = at
  BY DEF Work
<1>3. writer'.nodes = w.nodes /\ writer'.replacement = writer.replacement
  BY <1>1, <1>2 DEF Writing
<1>4. heap' = Collected(w.heap, versions, reading, {w})
  BY DEF Work
<1>5. ASSUME NEW name \in DOMAIN w.nodes PROVE heap'[w.nodes[name]] = w.heap[w.nodes[name]]
  <2>1. w.nodes[name] \in DOMAIN w.heap /\ w \in Range(versions) \cup {w}
    BY DEF Fits, NodesFit
  <2>2. Agree(heap', w.heap, w.nodes[name])
    BY <1>4, <2>1, CollectedKeeps
  <2> QED
    BY <2>2 DEF Agree
<1>6. Content(heap', w.nodes) = Content(w.heap, w.nodes)
  BY <1>5 DEF Content
<1>7. Made' = Content(heap', writer'.nodes)
  BY DEF Made
<1> QED
  BY <1>2, <1>3, <1>6, <1>7 DEF ContentOf

LEMMA CommitMakes ==
    ASSUME ZInv, NEW t \in Writers, NEW w, Fits(w, heap, Newest.id + 1), NEW commit, End(t, commit, w),
           versions' # versions
    PROVE  Content(heap', Last(versions').nodes) = ContentOf(w)
<1> DEFINE made == [id |-> w.id, nodes |-> w.nodes]
           more == Append(versions, made)
<1>1. VersionsOK /\ ReadersOK /\ w.id = Newest.id + 1
  BY DEF ZInv, Fits
<1>2. versions' = Pruned(more, reading, policy) /\ heap' = Collected(w.heap, versions', reading', {}) /\ reading' = reading
  BY DEF End
<1>3. made.id = Last(versions).id + 1 /\ made.nodes = w.nodes
  BY <1>1 DEF Newest
<1>4. Aging(more) /\ Last(more) = made /\ Range(more) = Range(versions) \cup {made}
  BY <1>1, <1>3, AppendingAges DEF VersionsOK
<1>5. DOMAIN reading = Readers /\ \A r \in Readers : reading[r] # None => reading[r] \in Range(versions)
  BY <1>1 DEF ReadersOK
<1> HIDE DEF more, made
<1>6. Range(versions) \subseteq Range(more)
  BY <1>4
<1>7. Aging(versions') /\ Last(versions') = made
  BY <1>1, <1>2, <1>4, <1>5, <1>6, VersionsAfter
<1>8. made \in Range(versions')
  BY <1>7, NewestIsNewest
<1>9. ASSUME NEW name \in DOMAIN w.nodes PROVE heap'[w.nodes[name]] = w.heap[w.nodes[name]]
  <2>1. made.nodes[name] \in DOMAIN w.heap /\ name \in DOMAIN made.nodes /\ made \in Range(versions') \cup {}
    BY <1>3, <1>8 DEF Fits, NodesFit
  <2>2. Agree(heap', w.heap, made.nodes[name])
    BY <1>2, <2>1, CollectedKeeps
  <2> QED
    BY <1>3, <2>2 DEF Agree
<1>10. Content(heap', w.nodes) = Content(w.heap, w.nodes)
  BY <1>9 DEF Content
<1> QED
  BY <1>3, <1>7, <1>10 DEF ContentOf

LEMMA EndGoes ==
    ASSUME ZInv, NEW t \in Writers, NEW commit, NEW w, End(t, commit, w)
    PROVE  /\ at'[t] # "in" /\ at'[t] # "setup" /\ writer.thread = t
           /\ \A u \in Writers : u # t => at'[u] \in {at[u], "ask"}
<1>1. \/ at' = [at EXCEPT ![t] = "out", ![Head(waiters)] = "ask"]
      \/ at' = [at EXCEPT ![t] = "out"]
  BY DEF End, EndWrite, Goes
<1>2. DOMAIN at = Writers /\ writer.thread = t
  BY DEF ZInv, WritersOK, End
<1> QED
  BY <1>1, <1>2

(* A step that leaves the transaction of a thread alone.                   *)
Apart(t) ==
    /\ at'[t] \in {at[t], "ask"}
    /\ at[t] = "setup" => writer'.replacement = writer.replacement
    /\ at[t] = "in" => at'[t] = "in" /\ Made' = Made

LEMMA OthersApart ==
    ASSUME ZInv, NEW t \in Writers, NEW u \in Writers, u # t,
           \/ Goes(u, "ask") /\ UNCHANGED <<heap, writer>>
           \/ UNCHANGED <<heap, writer, at>>
           \/ (\E replacement : AskWriter(u, replacement))
           \/ SetUpVersion(u)
           \/ (\E w : Work(u, w))
           \/ (\E commit, w : End(u, commit, w))
    PROVE  Apart(t)
<1>1. DOMAIN at = Writers /\ (at[t] \in {"setup", "in"} => writer.thread = t)
      /\ (at[u] \in {"setup", "in"} => writer.thread = u)
  BY DEF ZInv, WritersOK, Writing
<1>2. CASE Goes(u, "ask") /\ UNCHANGED <<heap, writer>>
  BY <1>1, <1>2 DEF Goes, Apart, Made
<1>3. CASE UNCHANGED <<heap, writer, at>>
  BY <1>3 DEF Apart, Made
<1>4. ASSUME NEW replacement, AskWriter(u, replacement) PROVE Apart(t)
  <2>1. t # None
    BY VersionedAssumption
  <2>2. at' = [at EXCEPT ![u] = "setup"] \/ at' = [at EXCEPT ![u] = "asleep"]
    BY <1>4 DEF AskWriter, Goes
  <2>3. at'[t] = at[t]
    BY <1>1, <2>2
  <2>4. CASE writer' = writer
    BY <1>4, <2>3, <2>4 DEF AskWriter, Apart, Made
  <2>5. CASE writer.thread = None
    BY <1>1, <2>1, <2>3, <2>5 DEF Apart
  <2> QED
    BY <1>4, <2>4, <2>5 DEF AskWriter
<1>5. ASSUME writer.thread = u, at'[t] \in {at[t], "ask"} PROVE Apart(t)
  BY <1>1, <1>5 DEF Apart
<1>6. CASE SetUpVersion(u)
  <2>1. at[u] = "setup" /\ at' = [at EXCEPT ![u] = "in"]
    BY <1>6 DEF SetUpVersion, Goes
  <2> QED
    BY <1>1, <1>5, <2>1
<1>7. CASE \E w : Work(u, w)
  BY <1>5, <1>7 DEF Work
<1>8. ASSUME NEW commit, NEW w, End(u, commit, w) PROVE Apart(t)
  <2>1. writer.thread = u /\ at'[t] \in {at[t], "ask"}
    BY <1>8, EndGoes
  <2> QED
    BY <1>5, <2>1
<1> QED
  BY <1>2, <1>3, <1>4, <1>6, <1>7, <1>8

LEMMA PruningApart ==
    ASSUME ZInv, NEW t \in Writers, NEW rs, NEW keep, PrunesTo(rs, keep)
    PROVE  Apart(t)
<1>1. heap' = Collected(heap, versions', rs, {writer}) /\ UNCHANGED <<writer, at>>
  BY DEF PrunesTo
<1>2. ASSUME at[t] = "in" PROVE Made' = Made
  <2>1. NodesFit(writer.nodes, heap, writer.id)
    BY <1>2 DEF ZInv, WritersOK, Writing
  <2>2. ASSUME NEW name \in DOMAIN writer.nodes PROVE heap'[writer.nodes[name]] = heap[writer.nodes[name]]
    <3>1. writer.nodes[name] \in DOMAIN heap /\ writer \in Range(versions') \cup {writer}
      BY <2>1 DEF NodesFit
    <3>2. Agree(heap', heap, writer.nodes[name])
      BY <1>1, <3>1, CollectedKeeps
    <3> QED
      BY <3>2 DEF Agree
  <2>3. Content(heap', writer.nodes) = Content(heap, writer.nodes)
    BY <2>2 DEF Content
  <2> QED
    BY <1>1, <2>3 DEF Made
<1> QED
  BY <1>1, <1>2 DEF Apart

LEMMA ReadersApart ==
    ASSUME ZInv, NEW t \in Writers, ReadersAct \/ \E keep \in Policies : SetPolicy(keep)
    PROVE  Apart(t)
<1>1. CASE \E r \in Readers : OpenReader(r)
  BY <1>1 DEF OpenReader, Apart, Made
<1>2. CASE \E r \in Readers : CloseReader(r)
  BY <1>2, PruningApart DEF CloseReader
<1>3. CASE \E keep \in Policies : SetPolicy(keep)
  BY <1>3, PruningApart DEF SetPolicy
<1> QED
  BY <1>1, <1>2, <1>3 DEF ReadersAct

-----------------------------------------------------------------------------
(* The transfers' steps.                                                   *)

Tracked(t) == OnTrack(xfer[t], at[t], writer.replacement, Made)

TransferInv ==
    /\ server \in DOMAIN History /\ DOMAIN xfer = Secondaries
    /\ \A t \in Secondaries : Tracked(t)

LEMMA ApartTracks ==
    ASSUME NEW t \in Secondaries, Tracked(t), Apart(t), xfer'[t] = xfer[t]
    PROVE  Tracked(t)'
<1> DEFINE x == xfer[t]
<1>1. OnTrack(x, at[t], writer.replacement, Made)
  BY DEF Tracked
<1> HIDE DEF x
<1>2. OnTrack(x, at'[t], writer'.replacement, Made')
  BY <1>1 DEF OnTrack, Apart
<1> QED
  BY <1>2 DEF Tracked, x

LEMMA BecomesIs ==
    ASSUME TransferInv, NEW t \in Secondaries, NEW y, Becomes(t, y)
    PROVE  /\ xfer'[t] = y /\ DOMAIN xfer' = Secondaries
           /\ \A u \in Secondaries : u # t => xfer'[u] = xfer[u]
BY DEF Becomes, TransferInv

LEMMA IdleTracks ==
    ASSUME TransferInv, NEW t \in Secondaries, Becomes(t, Idle)
    PROVE  Tracked(t)'
<1>1. xfer'[t] = Idle
  BY BecomesIs
<1>2. OnTrack(Idle, at'[t], writer'.replacement, Made')
  BY IdleIs
<1> QED
  BY <1>1, <1>2 DEF Tracked

LEMMA SentIs ==
    ASSUME NEW rdtype \in {"AXFR", "IXFR"}, NEW serial, NEW mode, NEW udp, NEW y,
           \/ y = [Idle EXCEPT !.phase = "sent", !.mode = mode, !.udp = udp, !.rdtype = rdtype, !.serial = serial]
           \/ y = [Idle EXCEPT !.phase = "sent", !.rdtype = rdtype, !.serial = serial],
           NEW where, NEW replacing, NEW c
    PROVE  OnTrack(y, where, replacing, c)
<1>1. /\ DOMAIN y = XferFields /\ y.phase = "sent" /\ y.rdtype = rdtype /\ y.soa = None
      /\ y.expecting = FALSE /\ y.deleting = FALSE
  BY DEF Idle, XferFields
<1>2. IsXfer(y) /\ Unread(y)
  BY <1>1 DEF IsXfer, Unread
<1> QED
  BY <1>1, <1>2 DEF OnTrack

LEMMA BeginTracks ==
    ASSUME TransferInv, NEW t \in Secondaries, Begin(t)
    PROVE  Tracked(t)'
<1> DEFINE apex == IF Apex \in DOMAIN Newest.nodes THEN heap[Newest.nodes[Apex]] ELSE EmptyNode
           soa == "SOA" \in DOMAIN apex
           rdtype == IF soa THEN "IXFR" ELSE "AXFR"
           serial == IF soa THEN CHOOSE s \in apex["SOA"].rdatas : TRUE ELSE 0
<1>1. PICK mode \in UdpModes :
         Becomes(t, [Idle EXCEPT !.phase = "sent", !.mode = mode, !.udp = soa /\ mode # "never",
                                 !.rdtype = rdtype, !.serial = serial])
  BY DEF Begin
<1>2. rdtype \in {"AXFR", "IXFR"}
  OBVIOUS
<1> HIDE DEF soa, rdtype, serial
<1>3. PICK udp \in BOOLEAN : udp = (soa /\ mode # "never")
  OBVIOUS
<1> DEFINE y == [Idle EXCEPT !.phase = "sent", !.mode = mode, !.udp = udp, !.rdtype = rdtype, !.serial = serial]
<1>4. Becomes(t, y)
  BY <1>1, <1>3
<1>5. OnTrack(y, at'[t], writer'.replacement, Made')
  BY <1>2, SentIs
<1> HIDE DEF y
<1>6. xfer'[t] = y
  BY <1>4, BecomesIs
<1> QED
  BY <1>5, <1>6 DEF Tracked

LEMMA AsksTracks ==
    ASSUME ZInv, TransferInv, NEW t \in Secondaries, t \in Writers, TransferAsks(t)
    PROVE  Tracked(t)' /\ xfer' = xfer
<1> DEFINE x == xfer[t]
<1>1. OnTrack(x, at[t], writer.replacement, Made) /\ at[t] = "ask" /\ xfer' = xfer
  BY DEF TransferInv, Tracked, TransferAsks, AskWriter, transferVars
<1>2. DOMAIN at = Writers
  BY DEF ZInv, WritersOK
<1>3. CASE /\ writer' = [NoWriter EXCEPT !.thread = t, !.replacement = Replacement(t)]
           /\ at' = [at EXCEPT ![t] = "setup"]
  <2>1. writer'.replacement = (x.rdtype = "AXFR")
    BY <1>3 DEF NoWriter, Replacement
  <2>2. at'[t] = "setup"
    BY <1>2, <1>3
  <2> HIDE DEF x
  <2>3. OnTrack(x, "setup", writer'.replacement, Made')
    BY <1>1, <2>1 DEF OnTrack
  <2> QED
    BY <1>1, <2>2, <2>3 DEF Tracked, x
<1>4. CASE at' = [at EXCEPT ![t] = "asleep"]
  <2>1. at'[t] = "asleep"
    BY <1>2, <1>4
  <2> HIDE DEF x
  <2>2. OnTrack(x, "asleep", writer'.replacement, Made')
    BY <1>1 DEF OnTrack
  <2> QED
    BY <1>1, <2>1, <2>2 DEF Tracked, x
<1> QED
  BY <1>1, <1>3, <1>4 DEF TransferAsks, AskWriter, Goes

LEMMA SetsUpTracks ==
    ASSUME ZInv, TransferInv, NEW t \in Secondaries, t \in Writers, TransferSetsUp(t)
    PROVE  Tracked(t)'
<1> DEFINE x == xfer[t]
           known == \E k \in DOMAIN History : /\ SerialOf(History[k]) = x.serial
                                              /\ Content(heap, Newest.nodes) = ZoneOf(History[k])
<1>1. PICK based \in BOOLEAN : based = (Replacement(t) \/ known) /\ Becomes(t, [x EXCEPT !.based = based])
  BY DEF TransferSetsUp
<1>2. /\ at[t] = "setup" /\ at' = [at EXCEPT ![t] = "in"] /\ heap' = heap
      /\ writer' = [writer EXCEPT !.id = Newest.id + 1,
                                  !.nodes = IF writer.replacement THEN NoNodes ELSE Newest.nodes]
  BY DEF TransferSetsUp, SetUpVersion, Goes
<1>3. Writing(t) /\ DOMAIN at = Writers
  BY <1>2 DEF ZInv, WritersOK
<1>4. at'[t] = "in" /\ writer'.nodes = IF writer.replacement THEN NoNodes ELSE Newest.nodes
  BY <1>2, <1>3 DEF Writing
<1>5. Made' = Content(heap, IF writer.replacement THEN NoNodes ELSE Newest.nodes)
  BY <1>2, <1>4 DEF Made
<1>6. OnTrack(x, "setup", writer.replacement, Made)
  BY <1>2 DEF TransferInv, Tracked
<1>7. Content(heap, NoNodes) = ZoneOf({})
  <2>1. Content(heap, NoNodes) = [name \in {} |-> heap[NoNodes[name]]]
    BY DEF Content, NoNodes
  <2>2. ZoneOf({}) = [name \in {} |-> NodeIn({}, name)]
    <3>1. NamesOf({}) = {}
      BY DEF NamesOf
    <3> QED
      BY <3>1, ZoneIs
  <2> QED
    BY <2>1, <2>2
<1>8. ASSUME x.phase = "read", based PROVE StartsFrom(x.rdtype, x.serial, Made')
  <2>1. writer.replacement <=> x.rdtype = "AXFR"
    BY <1>6, <1>8 DEF OnTrack
  <2>2. CASE x.rdtype = "AXFR"
    BY <1>5, <1>7, <2>1, <2>2 DEF StartsFrom
  <2>3. CASE x.rdtype # "AXFR"
    <3>1. known
      BY <1>1, <1>8, <2>3 DEF Replacement
    <3>2. Made' = Content(heap, Newest.nodes)
      BY <1>5, <2>1, <2>3
    <3>3. \E k \in DOMAIN History : SerialOf(History[k]) = x.serial /\ Made' = ZoneOf(History[k])
      BY <3>1, <3>2
    <3> QED
      BY <2>3, <3>3 DEF StartsFrom
  <2> QED
    BY <2>2, <2>3
<1> DEFINE y == [x EXCEPT !.based = based]
<1>9. xfer'[t] = y
  BY <1>1, BecomesIs
<1> HIDE DEF x
<1>10. OnTrack(y, "in", writer'.replacement, Made')
  BY <1>6, <1>8, SetUpTracks
<1> QED
  BY <1>4, <1>9, <1>10 DEF Tracked

LEMMA MessagesTrack ==
    ASSUME ZInv, TransferInv, NEW t \in Secondaries, t \in Writers, FirstMessage(t) \/ AskAgain(t)
    PROVE  Tracked(t)'
<1> DEFINE x == xfer[t]
<1>1. OnTrack(x, at[t], writer.replacement, Made) /\ server \in DOMAIN History
  BY DEF TransferInv, Tracked
<1>2. at'[t] = "ask"
  BY DEF FirstMessage, AskAgain, Goes, ZInv, WritersOK
<1>3. CASE FirstMessage(t)
  <2>1. PICK stream \in Answers(x) \cup Broken(x) :
           Becomes(t, [x EXCEPT !.phase = "read", !.stream = stream, !.version = server])
    BY <1>3 DEF FirstMessage
  <2> DEFINE y == [x EXCEPT !.phase = "read", !.stream = stream, !.version = server]
  <2>2. xfer'[t] = y /\ x.phase = "sent"
    BY <1>3, <2>1, BecomesIs DEF FirstMessage
  <2> HIDE DEF x
  <2>3. OnTrack(y, "ask", writer'.replacement, Made')
    BY <1>1, <2>2, MessageTracks
  <2> QED
    BY <1>2, <2>2, <2>3 DEF Tracked
<1>4. CASE AskAgain(t)
  <2> DEFINE y == [x EXCEPT !.phase = "read"]
  <2>1. xfer'[t] = y /\ x.phase = "again"
    BY <1>4, BecomesIs DEF AskAgain
  <2> HIDE DEF x
  <2>2. OnTrack(y, "ask", writer'.replacement, Made')
    BY <1>1, <2>1, RestartTracks
  <2> QED
    BY <1>2, <2>1, <2>2 DEF Tracked
<1> QED
  BY <1>3, <1>4

(* What is common to the steps that read a record.                         *)
LEMMA ReadingIs ==
    ASSUME ZInv, TransferInv, NEW t \in Secondaries, t \in Writers, Read(t)
    PROVE  /\ OnTrack(xfer[t], "in", writer.replacement, Made) /\ xfer[t].phase = "read" /\ at[t] = "in"
           /\ Fits(Working, heap, Newest.id + 1) /\ Newest.id + 1 \in Nat
           /\ ContentOf(Working) = Made /\ IsXfer(xfer[t])
<1>1. at[t] = "in" /\ xfer[t].phase = "read"
  BY DEF Read
<1>2. OnTrack(xfer[t], "in", writer.replacement, Made)
  BY <1>1 DEF TransferInv, Tracked
<1>3. IsXfer(xfer[t])
  BY <1>2 DEF OnTrack
<1> QED
  BY <1>1, <1>2, <1>3, WorkingFits, MadeIs

LEMMA FailTracks ==
    ASSUME ZInv, TransferInv, NEW t \in Secondaries, t \in Writers, Fail(t)
    PROVE  Tracked(t)' /\ versions' = versions
BY IdleTracks DEF Fail, End

LEMMA FirstRecordTracks ==
    ASSUME ZInv, TransferInv, NEW t \in Secondaries, t \in Writers, FirstRecord(t)
    PROVE  Tracked(t)' /\ versions' = versions
<1> DEFINE x == xfer[t]
           rr == Head(x.stream)
<1>1. /\ Read(t) /\ x.soa = None /\ x.stream # <<>>
      /\ OnTrack(x, "in", writer.replacement, Made) /\ x.phase = "read" /\ at[t] = "in" /\ IsXfer(x)
  BY ReadingIs DEF FirstRecord
<1>2. CASE Fail(t)
  BY <1>2, FailTracks
<1>3. CASE End(t, FALSE, Working) /\ Becomes(t, Idle)
  BY <1>3, IdleTracks DEF End
<1>4. CASE /\ End(t, FALSE, Working)
           /\ Becomes(t, [Idle EXCEPT !.phase = "sent", !.rdtype = x.rdtype, !.serial = x.serial])
  <2> DEFINE y == [Idle EXCEPT !.phase = "sent", !.rdtype = x.rdtype, !.serial = x.serial]
  <2>1. x.rdtype \in {"AXFR", "IXFR"}
    BY <1>1 DEF IsXfer
  <2>2. OnTrack(y, at'[t], writer'.replacement, Made')
    BY <2>1, SentIs
  <2>3. Becomes(t, y)
    BY <1>4
  <2> HIDE DEF y
  <2>4. xfer'[t] = y
    BY <2>3, BecomesIs
  <2>5. versions' = versions
    BY <1>4 DEF End
  <2> QED
    BY <2>2, <2>4, <2>5 DEF Tracked
<1>5. CASE /\ Becomes(t, [x EXCEPT !.soa = rr.rd, !.stream = Tail(x.stream), !.expecting = (x.rdtype = "IXFR")])
           /\ UNCHANGED zoneVars
  <2> DEFINE y == [x EXCEPT !.soa = rr.rd, !.stream = Tail(x.stream), !.expecting = (x.rdtype = "IXFR")]
  <2>1. OnTrack(y, "in", writer.replacement, Made)
    BY <1>1, FirstTracks
  <2>2. Becomes(t, y)
    BY <1>5
  <2> HIDE DEF y
  <2>3. xfer'[t] = y
    BY <2>2, BecomesIs
  <2>4. at'[t] = "in" /\ writer' = writer /\ Made' = Made /\ versions' = versions
    BY <1>1, <1>5 DEF zoneVars, Made
  <2> QED
    BY <2>1, <2>3, <2>4 DEF Tracked
<1> QED
  BY <1>2, <1>3, <1>4, <1>5 DEF FirstRecord

(* Putting a SOA, and what it makes of the content.                        *)
LEMMA SoaPut ==
    ASSUME NEW w, NEW memory, NEW id \in Nat, Fits(w, memory, id), NEW S, ContentOf(w) = ZoneOf(S),
           NEW rr, IsSoa(rr), Consistent(WithSoa(S, rr))
    PROVE  /\ Fits(Replace(w, rr.name, "SOA", JustOne(rr), FALSE), memory, id)
           /\ ContentOf(Replace(w, rr.name, "SOA", JustOne(rr), FALSE)) = ZoneOf(WithSoa(S, rr))
<1>1. Fits(Replace(w, rr.name, "SOA", JustOne(rr), FALSE), memory, id)
  BY ReplaceFits
<1>2. PICK T : T = WithSoa(S, rr)
  OBVIOUS
<1>3. T = WithSoa(S, rr) /\ Consistent(T)
  BY <1>2
<1>4. ContentOf(Replace(w, rr.name, "SOA", JustOne(rr), FALSE)) = ZoneOf(T)
  BY <1>3, SoaContent
<1> QED
  BY <1>1, <1>2, <1>4

(* The cases of a SOA after the first.                                     *)
LEMMA SoaCases ==
    ASSUME ZInv, TransferInv, NEW t \in Secondaries, t \in Writers, SoaRecord(t)
    PROVE  LET x == xfer[t]
               rr == Head(x.stream)
               put == Replace(Working, rr.name, "SOA", JustOne(rr), FALSE)
               next(deleting) == [x EXCEPT !.stream = Tail(x.stream), !.expecting = FALSE, !.deleting = deleting]
           IN  /\ Read(t) /\ x.soa # None /\ x.stream # <<>> /\ IsSoa(rr)
               /\ \/ Fail(t)
                  \/ /\ rr.rd = x.soa /\ ~x.expecting
                     /\ x.rdtype = "AXFR" \/ (x.deleting = FALSE /\ x.serial = rr.rd)
                     /\ End(t, TRUE, put) /\ Becomes(t, Idle)
                  \/ /\ x.rdtype = "IXFR" /\ x.deleting = FALSE /\ rr.rd = x.serial /\ rr.rd # x.soa
                     /\ Becomes(t, next(TRUE)) /\ UNCHANGED zoneVars
                  \/ /\ x.rdtype = "IXFR" /\ x.deleting = TRUE
                     /\ Work(t, put) /\ Becomes(t, [next(FALSE) EXCEPT !.serial = rr.rd])
<1> DEFINE x == xfer[t]
           rr == Head(x.stream)
           put == Replace(Working, rr.name, "SOA", JustOne(rr), FALSE)
           deleting == (x.rdtype = "IXFR") # x.deleting
           final == rr.rd = x.soa /\ (x.rdtype = "AXFR" \/ deleting)
           wrong == IF final THEN x.expecting \/ (x.rdtype = "IXFR" /\ x.serial # rr.rd)
                    ELSE x.rdtype = "AXFR" \/ (deleting /\ rr.rd # x.serial)
           next == [x EXCEPT !.stream = Tail(x.stream), !.expecting = FALSE, !.deleting = deleting]
<1>1. Read(t) /\ x.soa # None /\ x.stream # <<>> /\ IsSoa(rr) /\ IsXfer(x)
  BY ReadingIs DEF SoaRecord
<1>2. IF wrong THEN Fail(t)
      ELSE IF final THEN End(t, TRUE, put) /\ Becomes(t, Idle)
      ELSE IF deleting THEN Becomes(t, next) /\ UNCHANGED zoneVars
      ELSE Work(t, put) /\ Becomes(t, [next EXCEPT !.serial = rr.rd])
  BY DEF SoaRecord, JustOne
<1>3. deleting \in BOOLEAN /\ (deleting <=> (x.rdtype = "IXFR" /\ x.deleting = FALSE)
                                          \/ (x.rdtype = "AXFR" /\ x.deleting = TRUE))
      /\ x.deleting \in BOOLEAN /\ x.rdtype \in {"AXFR", "IXFR"} /\ x.expecting \in BOOLEAN
  BY <1>1 DEF IsXfer
<1>4. CASE wrong
  BY <1>1, <1>2, <1>4
<1>5. CASE ~wrong /\ final
  <2>1. End(t, TRUE, put) /\ Becomes(t, Idle)
    BY <1>2, <1>5
  <2>2. rr.rd = x.soa /\ ~x.expecting /\ (x.rdtype = "AXFR" \/ (x.deleting = FALSE /\ x.serial = rr.rd))
    BY <1>3, <1>5
  <2> QED
    BY <1>1, <2>1, <2>2
<1>6. CASE ~wrong /\ ~final /\ deleting
  <2>1. Becomes(t, next) /\ UNCHANGED zoneVars
    BY <1>2, <1>6
  <2>2. x.rdtype = "IXFR" /\ x.deleting = FALSE /\ rr.rd = x.serial /\ rr.rd # x.soa
    BY <1>3, <1>6
  <2>3. next = [x EXCEPT !.stream = Tail(x.stream), !.expecting = FALSE, !.deleting = TRUE]
    <3>1. deleting = TRUE
      BY <1>3, <1>6
    <3> QED
      BY <3>1
  <2> QED
    BY <1>1, <2>1, <2>2, <2>3
<1>7. CASE ~wrong /\ ~final /\ ~deleting
  <2>1. Work(t, put) /\ Becomes(t, [next EXCEPT !.serial = rr.rd])
    BY <1>2, <1>7
  <2>2. x.rdtype = "IXFR" /\ x.deleting = TRUE
    BY <1>3, <1>7
  <2>3. next = [x EXCEPT !.stream = Tail(x.stream), !.expecting = FALSE, !.deleting = FALSE]
    <3>1. deleting = FALSE
      BY <1>3, <1>7
    <3> QED
      BY <3>1
  <2> QED
    BY <1>1, <2>1, <2>2, <2>3
<1> QED
  BY <1>4, <1>5, <1>6, <1>7

(* What a transfer adds is the version it was sent, when it knows what it  *)
(* started from.                                                           *)
AddsSent(t) ==
    versions' # versions /\ xfer[t].based
    => Content(heap', Last(versions').nodes) = ZoneOf(History[xfer[t].version])

(* The operations on what the writer works on.                             *)
LEMMA WorkingPut ==
    ASSUME Fits(Working, heap, Newest.id + 1), Newest.id + 1 \in Nat, ContentOf(Working) = Made,
           NEW S, Made = ZoneOf(S), NEW rr, IsSoa(rr), Consistent(WithSoa(S, rr))
    PROVE  LET w == Replace(Working, rr.name, "SOA", JustOne(rr), FALSE)
           IN  Fits(w, heap, Newest.id + 1) /\ ContentOf(w) = ZoneOf(WithSoa(S, rr))
<1>1. PICK work, memory, id : work = Working /\ memory = heap /\ id = Newest.id + 1
  OBVIOUS
<1>2. Fits(work, memory, id) /\ id \in Nat /\ ContentOf(work) = ZoneOf(S) /\ IsSoa(rr) /\ Consistent(WithSoa(S, rr))
  BY <1>1
<1>3. /\ Fits(Replace(work, rr.name, "SOA", JustOne(rr), FALSE), memory, id)
      /\ ContentOf(Replace(work, rr.name, "SOA", JustOne(rr), FALSE)) = ZoneOf(WithSoa(S, rr))
  BY ONLY <1>2, SoaPut
<1> QED
  BY <1>1, <1>3

LEMMA WorkingTakes ==
    ASSUME Fits(Working, heap, Newest.id + 1), Newest.id + 1 \in Nat, ContentOf(Working) = Made,
           NEW S, Made = ZoneOf(S), NEW rr, Consistent(S), rr \in S
    PROVE  ContentOf(Delete(Working, rr.name, rr.type, JustOne(rr), TRUE)) = ZoneOf(S \ {rr})
<1>1. PICK work, memory, id : work = Working /\ memory = heap /\ id = Newest.id + 1
  OBVIOUS
<1>2. Fits(work, memory, id) /\ id \in Nat /\ ContentOf(work) = ZoneOf(S) /\ Consistent(S) /\ rr \in S
  BY <1>1
<1>3. ContentOf(Delete(work, rr.name, rr.type, JustOne(rr), TRUE)) = ZoneOf(S \ {rr})
  BY ONLY <1>2, DeleteRecordContent
<1> QED
  BY <1>1, <1>3

LEMMA LastSoa ==
    ASSUME ZInv, TransferInv, NEW t \in Secondaries, t \in Writers, Read(t), NEW x, x = xfer[t], NEW rr, rr = Head(x.stream),
           x.soa # None, x.stream # <<>>, IsSoa(rr), rr.rd = x.soa, ~x.expecting,
           x.rdtype = "AXFR" \/ (x.deleting = FALSE /\ x.serial = rr.rd),
           End(t, TRUE, Replace(Working, rr.name, "SOA", JustOne(rr), FALSE)), Becomes(t, Idle)
    PROVE  Tracked(t)' /\ AddsSent(t)
<1>1. Tracked(t)'
  BY IdleTracks
<1>2. /\ OnTrack(x, "in", writer.replacement, Made) /\ x.phase = "read"
      /\ Fits(Working, heap, Newest.id + 1) /\ Newest.id + 1 \in Nat
      /\ ContentOf(Working) = Made /\ x.expecting = FALSE
  BY ReadingIs DEF IsXfer
<1>3. ASSUME versions' # versions, x.based
      PROVE  Content(heap', Last(versions').nodes) = ZoneOf(History[x.version])
  <2>1. PICK S : Made = ZoneOf(S) /\ WithSoa(S, rr) = History[x.version] /\ Consistent(History[x.version])
    <3>1. PICK old, made : old = writer.replacement /\ made = Made
      OBVIOUS
    <3>2. /\ OnTrack(x, "in", old, made) /\ x.phase = "read" /\ x.soa # None /\ x.stream # <<>>
          /\ IsSoa(Head(x.stream)) /\ x.expecting = FALSE /\ x.based /\ Head(x.stream).rd = x.soa
          /\ x.rdtype = "AXFR" \/ (x.deleting = FALSE /\ x.serial = Head(x.stream).rd)
      BY <1>2, <1>3, <3>1
    <3>3. \E S : /\ made = ZoneOf(S) /\ WithSoa(S, Head(x.stream)) = History[x.version]
                 /\ Consistent(History[x.version])
      BY ONLY <3>2, LastTracks
    <3> QED
      BY <3>1, <3>3
  <2> DEFINE w == Replace(Working, rr.name, "SOA", JustOne(rr), FALSE)
  <2>2. Fits(w, heap, Newest.id + 1) /\ ContentOf(w) = ZoneOf(WithSoa(S, rr))
    BY <1>2, <2>1, WorkingPut
  <2>3. End(t, TRUE, w)
    OBVIOUS
  <2> HIDE DEF w
  <2>4. Content(heap', Last(versions').nodes) = ContentOf(w)
    BY <1>3, <2>2, <2>3, CommitMakes
  <2> QED
    BY <2>1, <2>2, <2>4
<1> QED
  BY <1>1, <1>3 DEF AddsSent

LEMMA MiddleSoa ==
    ASSUME ZInv, TransferInv, NEW t \in Secondaries, t \in Writers, Read(t), NEW x, x = xfer[t], NEW rr, rr = Head(x.stream),
           x.soa # None, x.stream # <<>>, IsSoa(rr), x.rdtype = "IXFR", x.deleting = TRUE,
           Work(t, Replace(Working, rr.name, "SOA", JustOne(rr), FALSE)),
           NEW y, y = Renewed(x), Becomes(t, y)
    PROVE  Tracked(t)'
<1> DEFINE w == Replace(Working, rr.name, "SOA", JustOne(rr), FALSE)
           old == writer.replacement
<1>1. /\ OnTrack(x, "in", old, Made) /\ x.phase = "read" /\ at[t] = "in"
      /\ Fits(Working, heap, Newest.id + 1) /\ Newest.id + 1 \in Nat /\ ContentOf(Working) = Made
  BY ReadingIs
<1>2. xfer'[t] = y
  BY BecomesIs
<1>3. Fits(w, heap, Newest.id + 1)
  BY <1>1, ReplaceFits
<1>4. Work(t, w)
  OBVIOUS
<1>5. /\ ~x.based => \A d : OnTrack(y, "in", old, d)
      /\ x.based => \E S : Made = ZoneOf(S) /\ Consistent(WithSoa(S, rr)) /\ OnTrack(y, "in", old, ZoneOf(WithSoa(S, rr)))
  <2>1. PICK made : made = Made
    OBVIOUS
  <2>2. /\ OnTrack(x, "in", old, made) /\ x.phase = "read" /\ x.soa # None /\ x.stream # <<>>
        /\ IsSoa(Head(x.stream)) /\ x.rdtype = "IXFR" /\ x.deleting = TRUE
        /\ y = Renewed(x)
    BY <1>1, <2>1
  <2> HIDE DEF old
  <2>3. /\ ~x.based => \A d : OnTrack(y, "in", old, d)
        /\ x.based => \E S : /\ made = ZoneOf(S) /\ Consistent(WithSoa(S, Head(x.stream)))
                              /\ OnTrack(y, "in", old, ZoneOf(WithSoa(S, Head(x.stream))))
    BY ONLY <2>2, AddingTracks
  <2> QED
    BY <2>1, <2>3
<1>6. ASSUME NEW S, Made = ZoneOf(S), Consistent(WithSoa(S, rr)) PROVE ContentOf(w) = ZoneOf(WithSoa(S, rr))
  BY <1>1, <1>6, WorkingPut
<1> HIDE DEF w, old
<1>7. Made' = ContentOf(w) /\ writer'.replacement = old /\ at'[t] = "in"
  BY <1>1, <1>3, <1>4, WorkMakes DEF old
<1>8. OnTrack(y, "in", old, ContentOf(w))
  BY <1>5, <1>6
<1> QED
  BY <1>2, <1>7, <1>8 DEF Tracked

LEMMA SoaRecordTracks ==
    ASSUME ZInv, TransferInv, NEW t \in Secondaries, t \in Writers, SoaRecord(t)
    PROVE  Tracked(t)' /\ AddsSent(t)
<1> DEFINE x == xfer[t]
           rr == Head(x.stream)
           put == Replace(Working, rr.name, "SOA", JustOne(rr), FALSE)
           next(deleting) == [x EXCEPT !.stream = Tail(x.stream), !.expecting = FALSE, !.deleting = deleting]
<1>1. Read(t) /\ x.soa # None /\ x.stream # <<>> /\ IsSoa(rr)
  BY SoaCases, Zenon
<1>2. \/ Fail(t)
      \/ /\ rr.rd = x.soa /\ ~x.expecting
         /\ x.rdtype = "AXFR" \/ (x.deleting = FALSE /\ x.serial = rr.rd)
         /\ End(t, TRUE, put) /\ Becomes(t, Idle)
      \/ /\ x.rdtype = "IXFR" /\ x.deleting = FALSE /\ rr.rd = x.serial /\ rr.rd # x.soa
         /\ Becomes(t, next(TRUE)) /\ UNCHANGED zoneVars
      \/ /\ x.rdtype = "IXFR" /\ x.deleting = TRUE
         /\ Work(t, put) /\ Becomes(t, [next(FALSE) EXCEPT !.serial = rr.rd])
  BY SoaCases, Zenon
<1>3. CASE Fail(t)
  BY <1>3, FailTracks DEF AddsSent
<1>4. CASE /\ rr.rd = x.soa /\ ~x.expecting
           /\ x.rdtype = "AXFR" \/ (x.deleting = FALSE /\ x.serial = rr.rd)
           /\ End(t, TRUE, put) /\ Becomes(t, Idle)
  BY <1>1, <1>4, LastSoa
<1>5. CASE /\ x.rdtype = "IXFR" /\ x.deleting = FALSE /\ rr.rd = x.serial /\ rr.rd # x.soa
           /\ Becomes(t, next(TRUE)) /\ UNCHANGED zoneVars
  <2> DEFINE y == next(TRUE)
  <2>1. OnTrack(x, "in", writer.replacement, Made) /\ x.phase = "read" /\ at[t] = "in"
    BY <1>1, ReadingIs
  <2>2. OnTrack(y, "in", writer.replacement, Made)
    BY <1>1, <1>5, <2>1, DeletingTracks
  <2>3. Becomes(t, y)
    BY <1>5
  <2> HIDE DEF y
  <2>4. xfer'[t] = y
    BY <2>3, BecomesIs
  <2>5. at'[t] = "in" /\ writer' = writer /\ Made' = Made /\ versions' = versions
    BY <1>5, <2>1 DEF zoneVars, Made
  <2> QED
    BY <2>2, <2>4, <2>5 DEF Tracked, AddsSent
<1>6. CASE /\ x.rdtype = "IXFR" /\ x.deleting = TRUE
           /\ Work(t, put) /\ Becomes(t, [next(FALSE) EXCEPT !.serial = rr.rd])
  <2>1. Tracked(t)'
    BY <1>1, <1>6, MiddleSoa DEF Renewed
  <2>2. versions' = versions
    BY <1>6 DEF Work
  <2> QED
    BY <2>1, <2>2, Zenon DEF AddsSent
<1> HIDE DEF x, rr, put, next
<1> QED
  BY <1>2, <1>3, <1>4, <1>5, <1>6, Zenon

LEMMA OtherRecordTracks ==
    ASSUME ZInv, TransferInv, NEW t \in Secondaries, t \in Writers, OtherRecord(t)
    PROVE  Tracked(t)' /\ versions' = versions
<1> DEFINE x == xfer[t]
           rr == Head(x.stream)
           old == writer.replacement
           taken == Delete(Working, rr.name, rr.type, JustOne(rr), TRUE)
           given == Add(Working, rr.name, rr.type, JustOne(rr), FALSE)
<1>1. /\ Read(t) /\ x.soa # None /\ x.stream # <<>> /\ ~IsSoa(rr)
      /\ OnTrack(x, "in", old, Made) /\ x.phase = "read" /\ at[t] = "in"
      /\ Fits(Working, heap, Newest.id + 1) /\ Newest.id + 1 \in Nat /\ ContentOf(Working) = Made
      /\ IsXfer(x)
  BY ReadingIs DEF OtherRecord
<1>2. \/ /\ x.expecting /\ End(t, FALSE, Working)
         /\ Becomes(t, [x EXCEPT !.rdtype = "AXFR", !.expecting = FALSE, !.deleting = FALSE, !.phase = "again"])
      \/ Fail(t)
      \/ /\ ~x.expecting /\ Becomes(t, [x EXCEPT !.stream = Tail(x.stream)])
         /\ IF x.deleting THEN Work(t, taken) ELSE Work(t, given)
  BY <1>1 DEF OtherRecord, JustOne, IsXfer
<1>3. CASE /\ x.expecting /\ End(t, FALSE, Working)
           /\ Becomes(t, [x EXCEPT !.rdtype = "AXFR", !.expecting = FALSE, !.deleting = FALSE, !.phase = "again"])
  <2> DEFINE y == [x EXCEPT !.rdtype = "AXFR", !.expecting = FALSE, !.deleting = FALSE, !.phase = "again"]
  <2>1. OnTrack(y, at'[t], writer'.replacement, Made')
    BY <1>1, <1>3, AgainTracks
  <2>2. Becomes(t, y)
    BY <1>3
  <2> HIDE DEF y
  <2>3. xfer'[t] = y
    BY <2>2, BecomesIs
  <2>4. versions' = versions
    BY <1>3 DEF End
  <2> QED
    BY <2>1, <2>3, <2>4 DEF Tracked
<1>4. CASE Fail(t)
  BY <1>4, FailTracks
<1>5. CASE /\ ~x.expecting /\ Becomes(t, [x EXCEPT !.stream = Tail(x.stream)])
           /\ IF x.deleting THEN Work(t, taken) ELSE Work(t, given)
  <2> DEFINE y == [x EXCEPT !.stream = Tail(x.stream)]
  <2>1. /\ ~x.based => \A d : OnTrack(y, "in", old, d)
        /\ x.based /\ x.deleting =>
              \E S : /\ Made = ZoneOf(S) /\ Consistent(S) /\ rr \in S
                     /\ OnTrack(y, "in", old, ZoneOf(S \ {rr}))
        /\ x.based /\ ~x.deleting =>
              \E S : /\ Made = ZoneOf(S) /\ Consistent(S \cup {rr})
                     /\ OnTrack(y, "in", old, ZoneOf(S \cup {rr}))
    <3>1. /\ OnTrack(x, "in", old, Made) /\ x.phase = "read" /\ x.soa # None
          /\ x.stream # <<>> /\ ~IsSoa(Head(x.stream)) /\ ~x.expecting
      BY <1>1, <1>5
    <3> HIDE DEF x, old
    <3> QED
      BY <3>1, RecordTracks DEF rr
  <2>2. Becomes(t, y)
    BY <1>5
  <2>3. Fits(taken, heap, Newest.id + 1) /\ Fits(given, heap, Newest.id + 1)
    BY <1>1, DeleteFits, AddFits
  <2>4. ASSUME NEW S, Made = ZoneOf(S), Consistent(S), rr \in S PROVE ContentOf(taken) = ZoneOf(S \ {rr})
    BY <1>1, <2>4, WorkingTakes
  <2>5. ASSUME NEW S, Made = ZoneOf(S), Consistent(S \cup {rr}) PROVE ContentOf(given) = ZoneOf(S \cup {rr})
    BY <1>1, <2>5, AddContent
  <2>6. PICK w : w = (IF x.deleting THEN taken ELSE given) /\ Work(t, w)
    BY <1>5
  <2> HIDE DEF y, taken, given, old, rr
  <2>7. Fits(w, heap, Newest.id + 1)
    BY <2>3, <2>6
  <2>8. Made' = ContentOf(w) /\ writer'.replacement = old /\ at'[t] = "in" /\ versions' = versions
    BY <1>1, <2>6, <2>7, WorkMakes DEF old, Work
  <2>9. OnTrack(y, "in", old, ContentOf(w))
    <3>1. CASE ~x.based
      BY <2>1, <3>1
    <3>2. CASE x.based /\ x.deleting
      <4>1. PICK S : /\ Made = ZoneOf(S) /\ Consistent(S) /\ rr \in S
                     /\ OnTrack(y, "in", old, ZoneOf(S \ {rr}))
        BY <2>1, <3>2
      <4>2. ContentOf(taken) = ZoneOf(S \ {rr})
        BY <2>4, <4>1
      <4> QED
        BY <2>6, <3>2, <4>1, <4>2
    <3>3. CASE x.based /\ ~x.deleting
      <4>1. PICK S : /\ Made = ZoneOf(S) /\ Consistent(S \cup {rr})
                     /\ OnTrack(y, "in", old, ZoneOf(S \cup {rr}))
        BY <2>1, <3>3
      <4>2. ContentOf(given) = ZoneOf(S \cup {rr})
        BY <2>5, <4>1
      <4> QED
        BY <2>6, <3>3, <4>1, <4>2
    <3> QED
      BY <3>1, <3>2, <3>3
  <2>10. xfer'[t] = y
    BY <2>2, BecomesIs
  <2> QED
    BY <2>8, <2>9, <2>10 DEF Tracked
<1> QED
  BY <1>2, <1>3, <1>4, <1>5

(* A step of a transfer, as an operation on the zone.                      *)
LEMMA StepsOfTransfers ==
    ASSUME NEW t, TransferActs(t)
    PROVE  /\ server' = server /\ (xfer' = xfer \/ \E y : Becomes(t, y))
           /\ \/ UNCHANGED zoneVars
              \/ Goes(t, "ask") /\ UNCHANGED <<heap, versions, writer>>
              \/ (\E replacement : AskWriter(t, replacement))
              \/ SetUpVersion(t)
              \/ (\E w : Work(t, w))
              \/ (\E commit, w : End(t, commit, w))
<1>1. CASE Begin(t)
  BY <1>1, Zenon DEF Begin
<1>2. CASE TransferAsks(t)
  <2>1. UNCHANGED transferVars /\ \E replacement : AskWriter(t, replacement)
    BY <1>2, Zenon DEF TransferAsks
  <2> QED
    BY <2>1 DEF transferVars
<1>3. CASE TransferSetsUp(t)
  BY <1>3, Zenon DEF TransferSetsUp
<1>4. CASE FirstMessage(t)
  BY <1>4, Zenon DEF FirstMessage
<1>5. CASE AskAgain(t)
  BY <1>5, Zenon DEF AskAgain
<1>6. CASE Unanswered(t)
  BY <1>6, Zenon DEF Unanswered
<1>7. ASSUME Read(t),
             \/ Fail(t)
             \/ /\ \E y : Becomes(t, y)
                /\ (\E commit, w : End(t, commit, w)) \/ (\E w : Work(t, w)) \/ UNCHANGED zoneVars
      PROVE  /\ server' = server /\ \E y : Becomes(t, y)
             /\ (\E commit, w : End(t, commit, w)) \/ (\E w : Work(t, w)) \/ UNCHANGED zoneVars
  BY <1>7, Zenon DEF Read, Fail
<1>8. CASE FirstRecord(t)
  <2>1. /\ Read(t)
        /\ \/ Fail(t)
           \/ /\ \E y : Becomes(t, y)
              /\ (\E commit, w : End(t, commit, w)) \/ UNCHANGED zoneVars
    BY <1>8 DEF FirstRecord
  <2> QED
    BY <1>7, <2>1, Zenon
<1>9. CASE SoaRecord(t)
  <2>1. /\ Read(t)
        /\ \/ Fail(t)
           \/ /\ \E y : Becomes(t, y)
              /\ (\E commit, w : End(t, commit, w)) \/ (\E w : Work(t, w)) \/ UNCHANGED zoneVars
    BY <1>9 DEF SoaRecord
  <2> QED
    BY <1>7, <2>1, Zenon
<1>10. CASE OtherRecord(t)
  <2>1. /\ Read(t)
        /\ \/ Fail(t)
           \/ /\ \E y : Becomes(t, y)
              /\ (\E commit, w : End(t, commit, w)) \/ (\E w : Work(t, w))
    BY <1>10 DEF OtherRecord
  <2> QED
    BY <1>7, <2>1, Zenon
<1>11. CASE StreamEnds(t)
  BY <1>7, <1>11, Zenon DEF StreamEnds
<1> QED
  BY <1>1, <1>2, <1>3, <1>4, <1>5, <1>6, <1>8, <1>9, <1>10, <1>11, Zenon DEF TransferActs

LEMMA CommitsItsOwn ==
    ASSUME NEW t \in Secondaries, TransferActs(t)
    PROVE  versions' = versions \/ writer.thread = t
<1>1. CASE UNCHANGED zoneVars
  BY <1>1 DEF zoneVars
<1>2. CASE \/ (\E replacement : AskWriter(t, replacement))
           \/ SetUpVersion(t)
           \/ (\E w : Work(t, w))
           \/ (\E commit, w : End(t, commit, w))
  BY <1>2 DEF AskWriter, SetUpVersion, Work, End
<1> QED
  BY <1>1, <1>2, StepsOfTransfers

(* A step of a transfer: it stays on track, and the others are not touched. *)
LEMMA TransferTracks ==
    ASSUME ZInv, TransferInv, NEW t \in Secondaries, t \in Writers, TransferActs(t)
    PROVE  Tracked(t)' /\ (writer'.thread = None => AddsSent(t))
<1>1. CASE Begin(t)
  BY <1>1, BeginTracks DEF Begin, zoneVars, AddsSent
<1>2. CASE TransferAsks(t)
  BY <1>2, AsksTracks, Zenon DEF TransferAsks, AskWriter, AddsSent
<1>3. CASE TransferSetsUp(t)
  BY <1>3, SetsUpTracks DEF TransferSetsUp, SetUpVersion, AddsSent
<1>4. CASE FirstMessage(t) \/ AskAgain(t)
  <2>1. Tracked(t)'
    BY <1>4, MessagesTrack
  <2>2. UNCHANGED versions
    BY <1>4, Zenon DEF FirstMessage, AskAgain
  <2> QED
    BY <2>1, <2>2 DEF AddsSent
<1>5. CASE Unanswered(t)
  BY <1>5, IdleTracks DEF Unanswered, zoneVars, AddsSent
<1>6. CASE FirstRecord(t)
  BY <1>6, FirstRecordTracks DEF AddsSent
<1>7. CASE OtherRecord(t)
  BY <1>7, OtherRecordTracks DEF AddsSent
<1>8. CASE SoaRecord(t)
  BY <1>8, SoaRecordTracks, Zenon
<1>9. CASE StreamEnds(t)
  <2>1. Fail(t)
    BY <1>9, Zenon DEF StreamEnds
  <2> QED
    BY <2>1, FailTracks DEF AddsSent
<1> QED
  BY <1>1, <1>2, <1>3, <1>4, <1>5, <1>6, <1>7, <1>8, <1>9, Zenon DEF TransferActs

LEMMA TransferFrame ==
    ASSUME ZInv, TransferInv, NEW t \in Secondaries, t \in Writers, TransferActs(t)
    PROVE  /\ DOMAIN xfer' = Secondaries /\ server' = server
           /\ \A u \in Secondaries : u # t => xfer'[u] = xfer[u]
           /\ \A u \in Writers : u # t => Apart(u)
<1>1. /\ DOMAIN xfer' = Secondaries /\ server' = server
      /\ \A u \in Secondaries : u # t => xfer'[u] = xfer[u]
  <2>1. ASSUME NEW y, Becomes(t, y)
        PROVE  DOMAIN xfer' = Secondaries /\ \A u \in Secondaries : u # t => xfer'[u] = xfer[u]
    BY <2>1, BecomesIs
  <2>2. DOMAIN xfer = Secondaries
    BY DEF TransferInv
  <2>3. server' = server /\ (xfer' = xfer \/ \E y : Becomes(t, y))
    BY StepsOfTransfers
  <2> QED
    BY <2>1, <2>2, <2>3
<1>2. ASSUME NEW u \in Writers, u # t PROVE Apart(u)
  <2>1. CASE UNCHANGED zoneVars
    <3>1. UNCHANGED <<heap, writer, at>>
      BY <2>1 DEF zoneVars
    <3> QED
      BY <1>2, <3>1, OthersApart
  <2>2. CASE ~UNCHANGED zoneVars
    BY <1>2, <2>2, StepsOfTransfers, OthersApart
  <2> QED
    BY <2>1, <2>2
<1> QED
  BY <1>1, <1>2

LEMMA UpdatesApart ==
    ASSUME ZInv, NEW u \in Updaters, WantsToUpdate(u) \/ Updates(u), NEW t \in Secondaries
    PROVE  Apart(t) /\ (versions' = versions \/ writer.thread # t)
<1>1. t \in Writers /\ u \in Writers /\ u # t
  BY ZoneAssumption
<1>2. \/ Goes(u, "ask") /\ UNCHANGED <<heap, writer, versions>>
      \/ (\E replacement : AskWriter(u, replacement)) /\ versions' = versions
      \/ SetUpVersion(u) /\ versions' = versions
      \/ (\E w : Work(u, w)) /\ versions' = versions
      \/ (\E commit, w : End(u, commit, w)) /\ writer.thread = u
  BY DEF WantsToUpdate, Updates, UpdaterStarts, Update, EndUpdate, AskWriter, SetUpVersion, Work, End
<1> QED
  BY <1>1, <1>2, OthersApart

Exact ==
    \A t \in Secondaries :
        versions' # versions /\ writer.thread = t /\ writer'.thread = None /\ xfer[t].based
        => Content(heap', Last(versions').nodes) = ZoneOf(History[xfer[t].version])

LEMMA TransferStarts == Init => TransferInv
<1> SUFFICES ASSUME Init PROVE TransferInv
  OBVIOUS
<1>1. server = 1 /\ xfer = [t \in Secondaries |-> Idle]
  BY DEF Init, TransferInit
<1>2. 1 \in DOMAIN History
  BY HistoryAssumption, LenProperties, EmptySeq
<1>3. \A t \in Secondaries : Tracked(t)
  BY <1>1, IdleIs DEF Tracked
<1> QED
  BY <1>1, <1>2, <1>3 DEF TransferInv

LEMMA TransferStep == ZInv /\ TransferInv /\ [Next]_vars => TransferInv' /\ Exact
<1> SUFFICES ASSUME ZInv, TransferInv, [Next]_vars PROVE TransferInv' /\ Exact
  OBVIOUS
<1>1. \A t \in Secondaries : t \in Writers /\ t # None
  BY ZoneAssumption, VersionedAssumption
<1>2. ASSUME \A t \in Secondaries : Apart(t), UNCHANGED xfer PROVE \A t \in Secondaries : Tracked(t)'
  BY <1>2, ApartTracks DEF TransferInv
<1>3. CASE \E u \in Updaters : (WantsToUpdate(u) \/ Updates(u)) /\ UNCHANGED transferVars
  <2>1. UNCHANGED <<xfer, server>>
    BY <1>3 DEF transferVars
  <2>2. \A t \in Secondaries : Apart(t) /\ (versions' = versions \/ writer.thread # t)
    BY <1>3, UpdatesApart
  <2> QED
    BY <1>2, <2>1, <2>2 DEF TransferInv, Exact
<1>4. ASSUME NEW t \in Secondaries, TransferActs(t) PROVE TransferInv' /\ Exact
  <2>1. /\ DOMAIN xfer' = Secondaries /\ server' = server
        /\ \A u \in Secondaries : u # t => xfer'[u] = xfer[u]
        /\ \A u \in Secondaries : u # t => Apart(u)
    BY <1>1, <1>4, TransferFrame
  <2>2. Tracked(t)' /\ (writer'.thread = None => AddsSent(t))
    BY <1>1, <1>4, TransferTracks
  <2>3. \A u \in Secondaries : Tracked(u)'
    BY <2>1, <2>2, ApartTracks DEF TransferInv
  <2>4. versions' = versions \/ writer.thread = t
    BY <1>1, <1>4, CommitsItsOwn
  <2> QED
    BY <2>1, <2>2, <2>3, <2>4 DEF TransferInv, Exact, AddsSent
<1>5. CASE (ReadersAct \/ \E keep \in Policies : SetPolicy(keep)) /\ UNCHANGED transferVars
  <2>1. UNCHANGED <<xfer, server>> /\ \A t \in Secondaries : Apart(t)
    BY <1>1, <1>5, ReadersApart DEF transferVars
  <2>2. writer' = writer
    BY <1>5 DEF ReadersAct, OpenReader, CloseReader, SetPolicy, PrunesTo
  <2> QED
    BY <1>1, <1>2, <2>1, <2>2 DEF TransferInv, Exact
<1>6. CASE ServerAdvances
  <2>1. UNCHANGED zoneVars /\ xfer' = xfer /\ server' = server + 1 /\ server < Len(History)
    BY <1>6 DEF ServerAdvances
  <2>2. server' \in DOMAIN History
    BY <2>1, VersionsBefore DEF TransferInv
  <2>3. \A t \in Secondaries : Apart(t)
    BY <2>1 DEF zoneVars, Apart, Made
  <2> QED
    BY <1>2, <2>1, <2>2, <2>3 DEF TransferInv, Exact, zoneVars
<1>7. CASE UNCHANGED vars
  <2>1. UNCHANGED zoneVars /\ UNCHANGED <<xfer, server>>
    BY <1>7 DEF vars, transferVars
  <2>2. \A t \in Secondaries : Apart(t)
    BY <2>1 DEF zoneVars, Apart, Made
  <2> QED
    BY <1>2, <2>1, <2>2 DEF TransferInv, Exact, zoneVars
<1> QED
  BY <1>3, <1>4, <1>5, <1>6, <1>7 DEF Next

(* A transfer that adds a version adds the one the server sent, record for *)
(* record, if the zone it started from had the content its serial stands   *)
(* for (dns/xfr.py:177-314): whatever the zones hold, however many         *)
(* differences lie between, and though one is left out or the answer stops.*)
(* Assumed of the server's history is that each version is a zone, and     *)
(* that no two have the same serial.                                       *)
THEOREM TransfersAreExact == Spec => TransferExact
<1>1. ZInv /\ TransferInv /\ [Next]_vars => ZInv' /\ TransferInv'
  BY ZoneStep, TransferStep
<1>2. ZInv /\ TransferInv /\ [Next]_vars => [Exact]_<<zoneVars, transferVars>>
  BY TransferStep
<1>3. Init => ZInv /\ TransferInv
  BY ZoneStarts, TransferStarts
<1>4. Spec => [][Exact]_<<zoneVars, transferVars>>
  BY <1>1, <1>2, <1>3, PTL DEF Spec
<1> QED
  BY <1>4 DEF TransferExact, Exact

=============================================================================
