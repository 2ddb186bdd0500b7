-------------------------------- MODULE Zone --------------------------------
(***************************************************************************)
(* A versioned zone in use: threads that transfer it from a server         *)
(* (Transfer), threads that update it by hand, readers, and changes of the *)
(* pruning policy.                                                         *)
(***************************************************************************)
EXTENDS Transfer

CONSTANTS
    Updaters,       \* the threads that update the zone
    Operations,     \* what they may do to it, see Apply
    MaxOperations   \* bound on the operations of a transaction

ASSUME ZoneAssumption ==
    /\ Secondaries \cap Updaters = {} /\ Writers = Secondaries \cup Updaters
    /\ \A o \in Operations :
          o.op \in {"add", "load", "replace", "delete", "deleteType", "deleteName", "serial"}

VARIABLE operations     \* operations made in the open transaction

vars == <<zoneVars, transferVars, operations>>

Init ==
    /\ VersionedInit /\ TransferInit
    /\ operations = 0

(* "with zone.writer() as txn:" of an updating thread.                     *)
WantsToUpdate(t) ==
    /\ at[t] = "out" /\ Newest.id < MaxId
    /\ Goes(t, "ask")
    /\ UNCHANGED <<heap, versions, writer, writeEvent, waiters, waited, reading, policy, operations>>

UpdaterStarts(t) ==
    \/ AskWriter(t, FALSE) /\ UNCHANGED operations
    \/ SetUpVersion(t) /\ operations' = 0

(* An operation; when it raises, __exit__ rolls the transaction back.      *)
Update(t) ==
    /\ operations < MaxOperations /\ at[t] = "in"
    /\ \E o \in Operations :
         LET w == Apply(Working, o)
         IN  IF w.ok THEN Work(t, w) ELSE End(t, FALSE, Working)
    /\ operations' = operations + 1

EndUpdate(t) ==
    /\ \E commit \in BOOLEAN : End(t, commit, Working)
    /\ operations' = 0

Updates(t) == UpdaterStarts(t) \/ Update(t) \/ EndUpdate(t)

Next ==
    \/ \E t \in Updaters : (WantsToUpdate(t) \/ Updates(t)) /\ UNCHANGED transferVars
    \/ \E t \in Secondaries : TransferActs(t) /\ UNCHANGED operations
    \/ (ReadersAct \/ \E keep \in Policies : SetPolicy(keep)) /\ UNCHANGED <<transferVars, operations>>
    \/ ServerAdvances /\ UNCHANGED operations

(* Threads run, a transaction that was opened ends (it is used "with"), and *)
(* so does a transfer: its records run out, then it is closed or times out. *)
TransferRuns(t) == TransferAsks(t) \/ TransferSetsUp(t) \/ StreamEnds(t)

Fairness ==
    /\ \A t \in Updaters : WF_vars((UpdaterStarts(t) \/ EndUpdate(t)) /\ UNCHANGED transferVars)
    /\ \A t \in Secondaries : WF_vars(TransferRuns(t) /\ UNCHANGED operations)

Spec == Init /\ [][Next]_vars /\ Fairness

=============================================================================
