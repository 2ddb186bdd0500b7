------------------------------ MODULE Keepalive ------------------------------
(***************************************************************************)
(* keepalive.py: a KeepaliveManager, its loops (a thread and a stop event  *)
(* each), and the heartbeat file one of them writes.  The manager's start  *)
(* and stop run in the caller's thread, step by step, beside the loops.    *)
(***************************************************************************)
EXTENDS Naturals, Sequences

CONSTANTS
    Order,      \* the enabled loops, in the order start() and stop() take them
    FileLoop,   \* the loop that writes the heartbeat file
    SlowLoop,   \* loops one turn of which may outlast join(timeout=5)
    Slot,       \* bound: threads of one loop alive at once
    NoThread    \* self._thread before the first start

Loop == {Order[i] : i \in 1..Len(Order)}

ASSUME OrderAssumption ==   \* no loop occurs twice
    /\ Order \in Seq(Loop)
    /\ \A i, j \in 1..Len(Order) : Order[i] = Order[j] => i = j
ASSUME FileAssumption == FileLoop \in Loop \ SlowLoop   \* a small write takes no five seconds
ASSUME SlotAssumption == NoThread \notin Slot

Extra == {"idle timer", "location"}   \* Pythonista only; no thread of their own

VARIABLES
    thread,     \* thread[l][s]: where the thread in slot s of loop l is, "ended" if there is none
    current,    \* the slot of self._thread
    stopEvent,  \* self._stop_event of each loop
    heartbeat,  \* the heartbeat file exists
    held,       \* the extras in effect: idle timer disabled, location updates running
    started,    \* KeepaliveManager._started
    call        \* the call in progress: its name, loop and step

kvars == <<thread, current, stopEvent, heartbeat, held, started, call>>

Idle == [op |-> "none", at |-> 0, step |-> "none"]
At(op, i, step) == [op |-> op, at |-> i, step |-> step]
Calling == call # Idle
Live(l) == {s \in Slot : thread[l][s] # "ended"}

(* Types, and: a manager that does not run holds nothing of the platform     *)
(* (keepalive.py:524-526).                                                   *)
KTypeOK ==
    /\ thread \in [Loop -> [Slot -> {"ended", "test", "work", "wait"}]]
    /\ current \in [Loop -> Slot \cup {NoThread}]
    /\ stopEvent \in [Loop -> BOOLEAN]
    /\ heartbeat \in BOOLEAN /\ held \subseteq Extra /\ started \in BOOLEAN
    /\ ~started => held = {}
    /\ \/ call = Idle
       \/ /\ call.op \in {"start", "stop"} /\ call.at \in 1..Len(Order) + 1
          /\ call.step \in (IF call.op = "start" THEN {"start"} ELSE {"set", "join", "remove"})

(* A heartbeat file may be left over from a process that iOS killed.         *)
KInit ==
    /\ thread = [l \in Loop |-> [s \in Slot |-> "ended"]]
    /\ current = [l \in Loop |-> NoThread]
    /\ stopEvent = [l \in Loop |-> FALSE]
    /\ heartbeat \in BOOLEAN
    /\ held = {} /\ started = FALSE /\ call = Idle

-----------------------------------------------------------------------------
(* The threads.  Whatever a turn raises is swallowed.                        *)
Go(l, s, from, to) ==
    /\ thread[l][s] = from
    /\ thread' = [thread EXCEPT ![l][s] = to]
    /\ UNCHANGED <<current, stopEvent, held, started, call>>

\* while not self._stop_event.is_set()
Test(l, s) ==
    Go(l, s, "test", IF stopEvent[l] THEN "ended" ELSE "work") /\ UNCHANGED heartbeat

\* the turn: a connection, a HEAD request, or the heartbeat file
Work(l, s) ==
    /\ Go(l, s, "work", "wait")
    /\ heartbeat' \in {heartbeat} \cup (IF l = FileLoop THEN {TRUE} ELSE {})

\* self._stop_event.wait(self._interval)
Wait(l, s) == Go(l, s, "wait", "test") /\ UNCHANGED heartbeat

LoopStep(l, s) == Test(l, s) \/ Work(l, s) \/ Wait(l, s)

-----------------------------------------------------------------------------
(* KeepaliveManager.start                                                    *)
CallStart ==
    /\ ~Calling /\ ~started
    /\ \A l \in Loop : Live(l) # Slot
    /\ call' = At("start", 1, "start")
    /\ UNCHANGED <<thread, current, stopEvent, heartbeat, held, started>>

Running(op, step) ==
    /\ call.op = op /\ call.step = step /\ call.at \in 1..Len(Order)

KeepEventMutant(l, s) ==   \* start does not clear the event
    /\ thread' = [thread EXCEPT ![l][s] = "test"]
    /\ current' = [current EXCEPT ![l] = s]
    /\ UNCHANGED stopEvent

\* the start() of one loop: clear the event, start a new thread
StartThread(l, s) ==
    /\ stopEvent' = [stopEvent EXCEPT ![l] = FALSE]
    /\ thread' = [thread EXCEPT ![l][s] = "test"]
    /\ current' = [current EXCEPT ![l] = s]

StartLoop ==
    /\ Running("start", "start")
    /\ LET l == Order[call.at] IN \E s \in Slot \ Live(l) : StartThread(l, s)
    /\ call' = At("start", call.at + 1, "start")
    /\ UNCHANGED <<heartbeat, held, started>>

\* the extras, as far as the platform has them; _started
StartEnds ==
    /\ call = At("start", Len(Order) + 1, "start")
    /\ held' \in SUBSET Extra
    /\ started' = TRUE /\ call' = Idle
    /\ UNCHANGED <<thread, current, stopEvent, heartbeat>>

-----------------------------------------------------------------------------
(* KeepaliveManager.stop                                                     *)
CallStop ==
    /\ ~Calling /\ started
    /\ call' = At("stop", 1, "set")
    /\ UNCHANGED <<thread, current, stopEvent, heartbeat, held, started>>

ForgetsSlowMutant ==   \* stop() of a slow loop joins without setting the event
    /\ Running("stop", "set")
    /\ stopEvent' = [stopEvent EXCEPT ![Order[call.at]] = (Order[call.at] \notin SlowLoop)]
    /\ call' = At("stop", call.at, "join")
    /\ UNCHANGED <<thread, current, heartbeat, held, started>>

SetEvent ==
    /\ Running("stop", "set")
    /\ stopEvent' = [stopEvent EXCEPT ![Order[call.at]] = TRUE]
    /\ call' = At("stop", call.at, "join")
    /\ UNCHANGED <<thread, current, heartbeat, held, started>>

AfterJoin ==
    IF Order[call.at] = FileLoop THEN At("stop", call.at, "remove")
    ELSE At("stop", call.at + 1, "set")

NoJoinMutant ==   \* stop does not wait for the thread
    /\ Running("stop", "join")
    /\ call' = AfterJoin
    /\ UNCHANGED <<thread, current, stopEvent, heartbeat, held, started>>

\* join(timeout=5) ends with the thread, or in the middle of a turn that takes longer
Join ==
    /\ Running("stop", "join")
    /\ LET l == Order[call.at] IN
       \/ thread[l][current[l]] = "ended"
       \/ l \in SlowLoop /\ thread[l][current[l]] = "work"
    /\ call' = AfterJoin
    /\ UNCHANGED <<thread, current, stopEvent, heartbeat, held, started>>

RemoveHeartbeat ==
    /\ Running("stop", "remove")
    /\ heartbeat' = FALSE
    /\ call' = At("stop", call.at + 1, "set")
    /\ UNCHANGED <<thread, current, stopEvent, held, started>>

StopEnds ==
    /\ call = At("stop", Len(Order) + 1, "set")
    /\ held' = {} /\ started' = FALSE /\ call' = Idle
    /\ UNCHANGED <<thread, current, stopEvent, heartbeat>>

ManagerStep ==
    StartLoop \/ StartEnds \/ SetEvent \/ Join \/ RemoveHeartbeat \/ StopEnds

Client == CallStart \/ CallStop

KNext ==
    \/ Client \/ ManagerStep
    \/ \E l \in Loop, s \in Slot : LoopStep(l, s)

(* Threads are scheduled, waits time out, and so do connections; a client    *)
(* need not call.                                                            *)
KFairness ==
    /\ WF_kvars(ManagerStep)
    /\ \A l \in Loop, s \in Slot : WF_kvars(LoopStep(l, s))

KSafeSpec == KInit /\ [][KNext]_kvars
KSpec     == KSafeSpec /\ KFairness

-----------------------------------------------------------------------------
(* Properties.                                                               *)

(* Once stop() has returned the file loop is gone for good and so is its     *)
(* heartbeat file, in whatever turn stop() found the loop, and after any     *)
(* earlier starts and stops: nobody writes the file after its removal        *)
(* (keepalive.py:246-255, "Clean up heartbeat file").                        *)
StoppedIsSilent ==
    ~started /\ ~Calling /\ current[FileLoop] # NoThread =>
        Live(FileLoop) = {} /\ ~heartbeat

(* A restart never revives a thread of the stop before it, though both use   *)
(* the same event: at most one thread of each loop lives, but for the loops  *)
(* whose turn outlasts the join (keepalive.py:111-123).                      *)
OneThreadEach ==
    \A l \in Loop \ SlowLoop : \A s, t \in Live(l) : s = t

(* A manager that says it runs has a live thread in every loop, with an      *)
(* event that lets it go on; also after it was stopped and started again     *)
(* while an old thread was still in its turn (keepalive.py:457-509).         *)
StartedIsAlive ==
    started /\ ~Calling =>
        \A l \in Loop : current[l] \in Live(l) /\ ~stopEvent[l]

(* After the last stop() every thread ends, those a join gave up on and      *)
(* those of earlier starts too ("Stop all keepalive strategies",             *)
(* keepalive.py:512).                                                        *)
StopEndsLoops ==
    <>[](~started /\ ~Calling) => <>[](\A l \in Loop : Live(l) = {})
=============================================================================
