------------------------------ MODULE Versioned ------------------------------
(***************************************************************************)
(* A versioned zone (dns/versioned.py, with the versions of dns/zone.py):  *)
(* readers each see one version, writers take turns to make the next one.  *)
(* Versions share the node objects that no writer changed: a writer copies *)
(* a node before it changes it, and only then.                             *)
(*                                                                         *)
(* Names are as the zone stores them (_validate_name has been applied).    *)
(* The steps of a thread outside _version_lock are separate actions.       *)
(***************************************************************************)
EXTENDS Rdatasets, Sequences, SequencesExt, FiniteSetsExt, TLC

CONSTANTS
    Writers, Readers,   \* threads
    Names, Apex,        \* names, and the one of the zone's origin
    Policies,           \* pruning policies that may be set: a number of
                        \* versions to keep, or KeepAll
    KeepAll,
    None,               \* no thread, no version
    MaxId               \* bound: the greatest version id

ASSUME VersionedAssumption ==
    /\ Apex \in Names /\ MaxId \in Nat /\ Policies \subseteq (Nat \ {0}) \cup {KeepAll}
    /\ KeepAll \notin Nat /\ None \notin Writers

VARIABLES
    heap,           \* node objects: the content of each
    versions,       \* _versions: each with its id and its map of nodes
    writer,         \* _write_txn: its thread and its version, or NoWriter
    writeEvent,     \* _write_event: the thread that waits for it, or None
    waiters,        \* _write_waiters
    waited,         \* the threads whose local "event" is the one they wait for
    at,             \* where each writing thread is
    reading,        \* the version each reader has open, or None
    policy          \* how many versions to keep

zoneVars == <<heap, versions, writer, writeEvent, waiters, waited, at, reading, policy>>

(* A node object is named by the version that made it and its name: one    *)
(* writer makes at most one live object for a name.                        *)
Content(memory, nodes) == [name \in DOMAIN nodes |-> memory[nodes[name]]]

NoNodes == [name \in {} |-> <<>>]

NoWriter == [thread |-> None, replacement |-> FALSE, id |-> 0, nodes |-> NoNodes, changed |-> {}]

Newest == Last(versions)

VersionedInit ==
    /\ heap = [object \in {} |-> EmptyNode]
    /\ versions = <<[id |-> 1, nodes |-> NoNodes]>>
    /\ writer = NoWriter /\ writeEvent = None /\ waiters = <<>> /\ waited = {}
    /\ at = [w \in Writers |-> "out"]
    /\ reading = [r \in Readers |-> None]
    /\ policy = 1

(* Objects that a version, an open reader or the writer still refers to.   *)
Reachable(vs, rs, ws) ==
    UNION {Range(v.nodes) : v \in Range(vs) \cup {r \in Range(rs) : r # None} \cup ws}

Collected(memory, vs, rs, ws) == Restrict(memory, DOMAIN memory \cap Reachable(vs, rs, ws))

-----------------------------------------------------------------------------
(* The writer's version.  Operations take and return the pair of the heap  *)
(* and the version, with ok FALSE when they raise an exception.            *)

ForgetsReadersMutant(vs, rs, keep) ==
    LET least == Last(vs).id
        pruned(n) == \A k \in 1 .. n : vs[k].id < least /\ keep # KeepAll /\ Len(vs) - k + 1 > keep
    IN  SubSeq(vs, Max({n \in 0 .. Len(vs) : pruned(n)}) + 1, Len(vs))

(* _prune_versions_unlocked: from the oldest version, as long as it is     *)
(* older than every open one, and too many for the policy.                 *)
Pruned(vs, rs, keep) ==
    LET opened == {r.id : r \in {x \in Range(rs) : x # None}}
        least == IF opened = {} THEN Last(vs).id ELSE Min(opened)
        pruned(n) == \A k \in 1 .. n : vs[k].id < least /\ keep # KeepAll /\ Len(vs) - k + 1 > keep
    IN  SubSeq(vs, Max({n \in 0 .. Len(vs) : pruned(n)}) + 1, Len(vs))

Assign(f, key, value) == [k \in DOMAIN f \cup {key} |-> IF k = key THEN value ELSE f[k]]

MaybeCow(w, name) ==
    IF name \in DOMAIN w.nodes /\ name \in w.changed THEN w
    ELSE LET node == IF name \in DOMAIN w.nodes THEN w.heap[w.nodes[name]] ELSE EmptyNode
         IN  [w EXCEPT !.heap = Assign(@, <<w.id, name>>, node),
                       !.nodes = Assign(@, name, <<w.id, name>>),
                       !.changed = @ \cup {name}]

PutRdataset(w, name, type, set) ==
    LET copy == MaybeCow(w, name)
    IN  [copy EXCEPT !.heap[copy.nodes[name]] = Replaced(@, type, set)]

DropNode(w, name) == [w EXCEPT !.nodes = Restrict(@, DOMAIN @ \ {name})]

DeleteRdataset(w, name, type) ==
    LET copy == MaybeCow(w, name)
        less == [copy EXCEPT !.heap[copy.nodes[name]] = WithoutType(@, type)]
    IN  IF less.heap[less.nodes[name]] = EmptyNode THEN DropNode(less, name) ELSE less

DeleteNode(w, name) ==
    IF name \in DOMAIN w.nodes THEN [DropNode(w, name) EXCEPT !.changed = @ \cup {name}] ELSE w

Node(w, name) == IF name \in DOMAIN w.nodes THEN w.heap[w.nodes[name]] ELSE EmptyNode

-----------------------------------------------------------------------------

(* What a transaction does to its version (dns/transaction.py and the      *)
(* Transaction of dns/zone.py): each operation looks at the set of records *)
(* that is there and puts or deletes a whole set.                          *)

Refused(w) == [w EXCEPT !.ok = FALSE]

Has(w, name, type) == type \in DOMAIN Node(w, name)
Existing(w, name, type) == Node(w, name)[type]

(* zonefile._check_cname_and_other_data, a check the reader of zone files  *)
(* adds to its transaction.                                                *)
Clashes(w, name, type) ==
    {Classify(Node(w, name)), Kind(type)} = {"cname", "regular"}

PutChecked(w, name, type, set, strict) ==
    IF strict /\ Clashes(w, name, type) THEN Refused(w) ELSE PutRdataset(w, name, type, set)

(* add(), and replace().                                                   *)
Add(w, name, type, set, strict) ==
    IF type = "SOA" /\ name # Apex THEN Refused(w)
    ELSE PutChecked(w, name, type,
                    IF Has(w, name, type) THEN UnionOf(type, Existing(w, name, type), set) ELSE set,
                    strict)

Replace(w, name, type, set, strict) ==
    IF type = "SOA" /\ name # Apex THEN Refused(w) ELSE PutChecked(w, name, type, set, strict)

(* delete() and delete_exact() of some records of a type.                  *)
Delete(w, name, type, set, exact) ==
    IF ~Has(w, name, type) THEN IF exact THEN Refused(w) ELSE w
    ELSE LET existing == Existing(w, name, type)
             left == Difference(existing, set)
         IN  IF exact /\ Intersection(existing, set).rdatas # set.rdatas THEN Refused(w)
             ELSE IF left.rdatas = {} THEN DeleteRdataset(w, name, type)
             ELSE PutRdataset(w, name, type, left)

(* ... of a type, and of a name.                                           *)
DeleteType(w, name, type, exact) ==
    IF Has(w, name, type) THEN DeleteRdataset(w, name, type)
    ELSE IF exact THEN Refused(w) ELSE w

DeleteName(w, name, exact) ==
    IF exact /\ name \notin DOMAIN w.nodes THEN Refused(w) ELSE DeleteNode(w, name)

(* update_serial(): zero is skipped.                                       *)
UpdateSerial(w, value, relative) ==
    IF ~Has(w, Apex, "SOA") \/ (relative /\ value > MaxDelta) THEN Refused(w)
    ELSE LET soa == Existing(w, Apex, "SOA")
             old == CHOOSE serial \in soa.rdatas : TRUE
             serial == IF relative THEN SerialPlus(old, value) ELSE value % (2 * Half)
         IN  Replace(w, Apex, "SOA", [soa EXCEPT !.rdatas = {IF serial = 0 THEN 1 ELSE serial}], FALSE)

(* One operation, as a record of what was called with what.                *)
Apply(w, o) ==
    CASE o.op = "add"        -> Add(w, o.name, o.type, o.set, FALSE)
      [] o.op = "load"       -> Add(w, o.name, o.type, o.set, TRUE)
      [] o.op = "replace"    -> Replace(w, o.name, o.type, o.set, FALSE)
      [] o.op = "delete"     -> Delete(w, o.name, o.type, o.set, o.exact)
      [] o.op = "deleteType" -> DeleteType(w, o.name, o.type, o.exact)
      [] o.op = "deleteName" -> DeleteName(w, o.name, o.exact)
      [] o.op = "serial"     -> UpdateSerial(w, o.value, o.relative)

-----------------------------------------------------------------------------

Goes(t, where) == at' = [at EXCEPT ![t] = where]

(* writer(): one turn of its loop, under the lock.  "event" is None before *)
(* the thread has waited, and its own last event after.                    *)
AskWriter(t, replacement) ==
    LET event == IF t \in waited THEN t ELSE None
    IN  /\ at[t] = "ask"
        /\ IF writer.thread = None /\ event = writeEvent
           THEN /\ writer' = [NoWriter EXCEPT !.thread = t, !.replacement = replacement]
                /\ writeEvent' = None /\ waited' = waited \ {t}
                /\ Goes(t, "setup")
                /\ UNCHANGED waiters
           ELSE /\ waiters' = Append(waiters, t) /\ waited' = waited \cup {t}
                /\ Goes(t, "asleep")
                /\ UNCHANGED <<writer, writeEvent>>
        /\ UNCHANGED <<heap, versions, reading, policy>>

(* _setup_version, after the lock was given up.                            *)
SetUpVersion(t) ==
    /\ at[t] = "setup"
    /\ writer' = [writer EXCEPT !.id = Newest.id + 1,
                                !.nodes = IF writer.replacement THEN NoNodes ELSE Newest.nodes]
    /\ Goes(t, "in")
    /\ UNCHANGED <<heap, versions, writeEvent, waiters, waited, reading, policy>>

(* What the writer works on, and the step that leaves it with w.           *)
Working == [ok |-> TRUE, heap |-> heap, id |-> writer.id, nodes |-> writer.nodes,
            changed |-> writer.changed]

Work(t, w) ==
    /\ at[t] = "in" /\ writer.thread = t /\ w.ok
    /\ writer' = [writer EXCEPT !.nodes = w.nodes, !.changed = w.changed]
    /\ heap' = Collected(w.heap, versions, reading, {w})
    /\ UNCHANGED <<versions, writeEvent, waiters, waited, at, reading, policy>>

LostWakeupMutant(t) ==
    /\ writer' = NoWriter
    /\ IF Len(waiters) > 1
       THEN /\ writeEvent' = Head(waiters) /\ waiters' = Tail(waiters)
            /\ at' = [at EXCEPT ![t] = "out", ![Head(waiters)] = "ask"]
       ELSE Goes(t, "out") /\ UNCHANGED <<writeEvent, waiters>>
    /\ UNCHANGED waited

(* _end_write_unlocked: the first of those that wait is woken.             *)
EndWrite(t) ==
    /\ writer' = NoWriter
    /\ IF waiters # <<>>
       THEN /\ writeEvent' = Head(waiters) /\ waiters' = Tail(waiters)
            /\ at' = [at EXCEPT ![t] = "out", ![Head(waiters)] = "ask"]
       ELSE Goes(t, "out") /\ UNCHANGED <<writeEvent, waiters>>
    /\ UNCHANGED waited

(* _end_transaction: a commit that changed nothing is a rollback.          *)
End(t, commit, w) ==
    /\ at[t] = "in" /\ writer.thread = t
    /\ versions' = IF commit /\ w.changed # {}
                   THEN Pruned(Append(versions, [id |-> w.id, nodes |-> w.nodes]), reading, policy)
                   ELSE versions
    /\ heap' = Collected(w.heap, versions', reading, {})
    /\ EndWrite(t)
    /\ UNCHANGED <<reading, policy>>

-----------------------------------------------------------------------------

(* reader(): the newest version, or one that is still kept, by id or by    *)
(* serial.                                                                 *)
OpenReader(r) ==
    /\ reading[r] = None
    /\ \E v \in Range(versions) : reading' = [reading EXCEPT ![r] = v]
    /\ UNCHANGED <<heap, versions, writer, writeEvent, waiters, waited, at, policy>>

PrunesTo(readers, keep) ==
    /\ reading' = readers /\ policy' = keep
    /\ versions' = Pruned(versions, readers, keep)
    /\ heap' = Collected(heap, versions', readers, {writer})
    /\ UNCHANGED <<writer, writeEvent, waiters, waited, at>>

CloseReader(r) == reading[r] # None /\ PrunesTo([reading EXCEPT ![r] = None], policy)

SetPolicy(keep) == keep # policy /\ PrunesTo(reading, keep)

ReadersAct == \E r \in Readers : OpenReader(r) \/ CloseReader(r)

-----------------------------------------------------------------------------

(* A reader sees one version as long as it is open: that version is kept,  *)
(* with every newer one, and nothing a writer does shows in it, though the *)
(* two share node objects.                                                 *)
ReadersSeeOneVersion ==
    [][\A r \in Readers : reading[r] # None /\ reading'[r] # None =>
          /\ \A v \in Range(versions) : v.id >= reading[r].id => v \in Range(versions')
          /\ Content(heap', reading'[r].nodes) = Content(heap, reading[r].nodes)]_zoneVars

(* Whoever asks to write gets to.                                          *)
WritersServed == \A t \in Writers : at[t] = "ask" ~> at[t] = "in"

=============================================================================
