-------------------------- MODULE Keepalive_proof --------------------------
(***************************************************************************)
(* What a stopped and what a started KeepaliveManager guarantee, proved    *)
(* for any loops in any order and any number of threads; and what is left  *)
(* when the run() of Supervisor, its client, has returned.                 *)
(***************************************************************************)
EXTENDS Supervisor, TLAPS

Place == 1..Len(Order)

(* Loop i is one the manager keeps running: it has been started and its      *)
(* stop() has not begun.                                                     *)
Runs(i) ==
    \/ started /\ call = Idle
    \/ call.op = "start" /\ i < call.at
    \/ call.op = "stop" /\ (call.at < i \/ (call.at = i /\ call.step = "set"))

(* The manager waits in join for the thread of loop i. *)
Joining(i) == call.op = "stop" /\ call.at = i /\ call.step = "join"

Down(i) == ~Runs(i) /\ ~Joining(i)

(* The manager works through a call exactly when _started says so. *)
CallFits ==
    /\ call.op = "start" => ~started
    /\ call.op = "stop" => started
    /\ call.step \in {"join", "remove"} => call.at \in Place
    /\ call.step = "remove" => Order[call.at] = FileLoop

(* A running loop has its thread and a clear event; the one that is joined   *)
(* still has an event that is set.                                           *)
RunningIsLive ==
    \A i \in Place :
        /\ Runs(i) => current[Order[i]] \in Live(Order[i]) /\ ~stopEvent[Order[i]]
        /\ Joining(i) => current[Order[i]] \in Slot

(* A loop that join waits for to the end has no thread but the current one,  *)
(* and none once it is down.                                                 *)
NoneSurvives ==
    \A i \in Place : Order[i] \notin SlowLoop =>
        /\ \A s \in Live(Order[i]) : current[Order[i]] = s
        /\ Down(i) => Live(Order[i]) = {}

(* The file is gone when the file loop is down and its stop() has ended. *)
FileGone ==
    \A i \in Place :
        Order[i] = FileLoop /\ Down(i) /\ current[FileLoop] # NoThread =>
            heartbeat = FALSE \/ (call.step = "remove" /\ call.at = i)

KInv == KTypeOK /\ CallFits /\ RunningIsLive /\ NoneSurvives /\ FileGone

-----------------------------------------------------------------------------
(* Every place names a loop, every loop has one place. *)
LEMMA Places ==
    /\ Len(Order) \in Nat
    /\ \A i \in Place : Order[i] \in Loop
    /\ \A l \in Loop : \E i \in Place : Order[i] = l
    /\ \A i, j \in Place : Order[i] = Order[j] => i = j
BY OrderAssumption DEF Loop, Place

(* Before the first start nothing runs. *)
LEMMA InitHolds == KInit => KInv
<1> SUFFICES ASSUME KInit PROVE KInv
  OBVIOUS
<1>1. KTypeOK
  BY DEF KInit, KTypeOK, Extra, Idle
<1>2. \A i \in Place : ~Runs(i) /\ ~Joining(i)
  BY DEF KInit, Runs, Joining, Idle
<1>3. CallFits
  BY DEF KInit, CallFits, Idle
<1>4. RunningIsLive
  BY <1>2 DEF RunningIsLive
<1>5. NoneSurvives
  BY Places DEF KInit, NoneSurvives, Live
<1>6. FileGone
  BY FileAssumption DEF KInit, FileGone
<1> QED
  BY <1>1, <1>3, <1>4, <1>5, <1>6 DEF KInv

(* A thread that takes a step starts no other, and ends only at a set event; *)
(* only a live thread of the file loop writes the file.                      *)
LEMMA ThreadKeepsKInv ==
    ASSUME KInv, NEW l \in Loop, NEW s \in Slot, LoopStep(l, s)
    PROVE  KInv'
<1> USE DEF KInv
<1>1. PICK to \in {"ended", "test", "work", "wait"} :
          /\ thread[l][s] # "ended"
          /\ thread' = [thread EXCEPT ![l][s] = to]
          /\ to = "ended" => stopEvent[l]
          /\ UNCHANGED <<current, stopEvent, held, started, call>>
  BY DEF LoopStep, Test, Work, Wait, Go
<1>2. heartbeat' \in BOOLEAN /\ (heartbeat' # heartbeat => l = FileLoop)
  BY DEF LoopStep, Test, Work, Wait, KTypeOK
<1>3. KTypeOK'
  BY <1>1, <1>2 DEF KTypeOK
<1>4. \A i : Runs(i)' = Runs(i) /\ Joining(i)' = Joining(i) /\ Down(i)' = Down(i)
  BY <1>1 DEF Runs, Joining, Down
<1>5. \A k \in Loop, t \in Slot :
          thread'[k][t] = IF k = l /\ t = s THEN to ELSE thread[k][t]
  BY <1>1 DEF KTypeOK
<1>6. \A k \in Loop : Live(k)' \subseteq Live(k)
  BY <1>1, <1>5 DEF Live
<1>7. CallFits'
  BY <1>1 DEF CallFits
<1>8. RunningIsLive'
  BY <1>1, <1>4, <1>5, Places DEF RunningIsLive, Live
<1>9. NoneSurvives'
  BY <1>1, <1>4, <1>6, Places DEF NoneSurvives
<1>10. FileGone'
  <2> SUFFICES ASSUME NEW i \in Place, Order[i] = FileLoop, Down(i), current[FileLoop] # NoThread
               PROVE  heartbeat' = FALSE \/ (call.step = "remove" /\ call.at = i)
    BY <1>1, <1>4 DEF FileGone
  <2>1. l # FileLoop
    BY <1>1, FileAssumption DEF NoneSurvives, Live
  <2> QED
    BY <2>1, <1>2 DEF FileGone
<1> QED
  BY <1>3, <1>7, <1>8, <1>9, <1>10

(* A call begins: the loops that run, run on; those that are down stay down. *)
LEMMA CallKeepsKInv ==
    ASSUME KInv, Client
    PROVE  KInv'
<1> USE DEF KInv
<1>1. UNCHANGED <<thread, current, stopEvent, heartbeat, held, started>> /\ call = Idle
  BY DEF Client, CallStart, CallStop, Calling
<1>2. \/ call' = At("start", 1, "start") /\ ~started
      \/ call' = At("stop", 1, "set") /\ started
  BY DEF Client, CallStart, CallStop
<1>3. \A i \in Place : Runs(i)' = Runs(i) /\ ~Joining(i) /\ ~Joining(i)' /\ Down(i)' = Down(i)
  BY <1>1, <1>2, Places DEF Place, Runs, Joining, Down, At, Idle
<1>4. KTypeOK'
  BY <1>1, <1>2, Places DEF KTypeOK, At
<1>5. CallFits'
  BY <1>1, <1>2 DEF CallFits, At
<1>6. RunningIsLive'
  BY <1>1, <1>3 DEF RunningIsLive, Live
<1>7. NoneSurvives'
  BY <1>1, <1>3 DEF NoneSurvives, Live
<1>8. FileGone'
  BY <1>1, <1>3 DEF FileGone, Idle
<1> QED
  BY <1>4, <1>5, <1>6, <1>7, <1>8

(* The call in progress is at a place of the order. *)
LEMMA CallPlace ==
    ASSUME KInv, NEW op, NEW step, Running(op, step)
    PROVE  /\ call.at \in Place /\ call.op = op /\ call.step = step
           /\ Order[call.at] \in Loop /\ call # Idle
           /\ op = "start" => ~started
           /\ op = "stop" => started
BY Places DEF KInv, CallFits, Running, Place, Idle

(* start() of the loop at call.at: it was down, it has one thread now.       *)
LEMMA StartLoopKeepsKInv ==
    ASSUME KInv, StartLoop
    PROVE  KInv'
<1> USE DEF KInv
<1>0. PICK i0 \in Place, l0 \in Loop : call.at = i0 /\ Order[i0] = l0
  BY CallPlace DEF StartLoop
<1>1. /\ call.at = i0 /\ Order[i0] = l0
      /\ call.op = "start" /\ call.step = "start" /\ call # Idle /\ ~started
  BY <1>0, CallPlace DEF StartLoop
<1>2. PICK s0 \in Slot \ Live(l0) :
          /\ stopEvent' = [stopEvent EXCEPT ![l0] = FALSE]
          /\ thread' = [thread EXCEPT ![l0][s0] = "test"]
          /\ current' = [current EXCEPT ![l0] = s0]
  BY <1>1 DEF StartLoop, StartThread
<1>3. call' = At("start", i0 + 1, "start") /\ UNCHANGED <<heartbeat, held, started>>
  BY <1>1 DEF StartLoop
<1>4. \A i \in Place :
          /\ Runs(i)' <=> Runs(i) \/ i = i0
          /\ ~Joining(i) /\ ~Joining(i)'
          /\ Down(i)' <=> Down(i) /\ i # i0
  BY <1>1, <1>3, Places DEF Place, Runs, Joining, Down, At, Idle
<1>5. ~Runs(i0) /\ Down(i0)
  BY <1>1, Places DEF Place, Runs, Joining, Down, Idle
<1>6. KTypeOK'
  BY <1>1, <1>2, <1>3, Places DEF KTypeOK, At, Place
<1>7. \A k \in Loop, t \in Slot :
          /\ thread'[k][t] = IF k = l0 /\ t = s0 THEN "test" ELSE thread[k][t]
          /\ current'[k] = IF k = l0 THEN s0 ELSE current[k]
          /\ stopEvent'[k] = IF k = l0 THEN FALSE ELSE stopEvent[k]
  BY <1>1, <1>2 DEF KTypeOK
<1>8. Live(l0)' = Live(l0) \cup {s0} /\ \A k \in Loop \ {l0} : Live(k)' = Live(k)
  <2>1. Live(l0)' = {s \in Slot : thread'[l0][s] # "ended"}
    BY DEF Live
  <2>2. \A s \in Slot : thread'[l0][s] # "ended" <=> s = s0 \/ thread[l0][s] # "ended"
    BY <1>7
  <2>3. Live(l0)' = Live(l0) \cup {s0}
    BY <2>1, <2>2 DEF Live
  <2>4. ASSUME NEW k \in Loop \ {l0} PROVE Live(k)' = Live(k)
    <3>1. Live(k)' = {s \in Slot : thread'[k][s] # "ended"}
      BY DEF Live
    <3>2. \A s \in Slot : thread'[k][s] = thread[k][s]
      BY <1>7
    <3> QED
      BY <3>1, <3>2 DEF Live
  <2> QED
    BY <2>3, <2>4
<1>9. \A i \in Place : i # i0 => Order[i] \in Loop \ {l0}
  BY <1>1, Places
<1>10. CallFits'
  BY <1>1, <1>3 DEF CallFits, At
<1>11. RunningIsLive'
  <2> SUFFICES ASSUME NEW i \in Place
               PROVE  Runs(i)' => current'[Order[i]] \in Live(Order[i])' /\ ~stopEvent'[Order[i]]
    BY <1>4 DEF RunningIsLive
  <2>1. CASE i = i0
    BY <2>1, <1>1, <1>7, <1>8
  <2>2. CASE i # i0
    BY <2>2, <1>4, <1>7, <1>8, <1>9 DEF RunningIsLive
  <2> QED
    BY <2>1, <2>2
<1>12. NoneSurvives'
  <2> SUFFICES ASSUME NEW i \in Place, Order[i] \notin SlowLoop
               PROVE  /\ \A s \in Live(Order[i])' : current'[Order[i]] = s
                      /\ Down(i)' => Live(Order[i])' = {}
    BY DEF NoneSurvives
  <2>1. CASE i = i0
    <3>1. Live(l0) = {}
      BY <2>1, <1>1, <1>5 DEF NoneSurvives
    <3>2. Live(l0)' = {s0} /\ current'[l0] = s0 /\ ~Down(i0)'
      BY <3>1, <1>4, <1>7, <1>8
    <3> QED
      BY <3>2, <2>1, <1>1
  <2>2. CASE i # i0
    <3>1. Order[i] \in Loop \ {l0}
      BY <2>2, <1>9
    <3>2. /\ Live(Order[i])' = Live(Order[i]) /\ current'[Order[i]] = current[Order[i]]
          /\ Down(i)' => Down(i)
      BY <3>1, <1>4, <1>7, <1>8
    <3> QED
      BY <3>2 DEF NoneSurvives
  <2> QED
    BY <2>1, <2>2
<1>13. FileGone'
  <2> SUFFICES ASSUME NEW i \in Place, Order[i] = FileLoop, Down(i)', current'[FileLoop] # NoThread
               PROVE  heartbeat' = FALSE
    BY DEF FileGone
  <2>1. i # i0 /\ Down(i) /\ FileLoop # l0
    BY <1>1, <1>4, Places
  <2>2. current[FileLoop] # NoThread
    BY <2>1, <1>7, FileAssumption
  <2> QED
    BY <2>1, <2>2, <1>1, <1>3 DEF FileGone
<1> QED
  BY <1>6, <1>10, <1>11, <1>12, <1>13

(* The steps of the manager that touch neither threads nor self._thread.     *)
LEMMA QuietKeepsNoneSurvives ==
    ASSUME KInv, UNCHANGED <<thread, current>>,
           \A i \in Place : Order[i] \notin SlowLoop /\ Down(i)' =>
               Down(i) \/ Live(Order[i]) = {}
    PROVE  NoneSurvives'
BY DEF KInv, NoneSurvives, Live

(* The last step of start(): all loops run. *)
LEMMA StartEndsKeepsKInv ==
    ASSUME KInv, StartEnds
    PROVE  KInv'
<1> USE DEF KInv
<1>1. /\ call.op = "start" /\ call.at = Len(Order) + 1 /\ call.step = "start" /\ ~started
      /\ call # Idle
  BY DEF StartEnds, At, CallFits, Idle
<1>2. /\ UNCHANGED <<thread, current, stopEvent, heartbeat>>
      /\ held' \in SUBSET Extra /\ started' = TRUE /\ call' = Idle
  BY DEF StartEnds
<1>3. \A i \in Place : Runs(i) /\ Runs(i)' /\ ~Joining(i)' /\ ~Down(i)'
  BY <1>1, <1>2, Places DEF Place, Runs, Joining, Down, Idle
<1>4. KTypeOK'
  BY <1>2 DEF KTypeOK, Extra
<1>5. CallFits'
  BY <1>2 DEF CallFits, Idle
<1>6. RunningIsLive'
  BY <1>2, <1>3 DEF RunningIsLive, Live
<1>7. NoneSurvives'
  BY <1>2, <1>3, QuietKeepsNoneSurvives
<1>8. FileGone'
  BY <1>3 DEF FileGone
<1> QED
  BY <1>4, <1>5, <1>6, <1>7, <1>8

(* stop() of loop i0 sets its event: the loop runs no more, it is joined.    *)
LEMMA SetEventKeepsKInv ==
    ASSUME KInv, SetEvent
    PROVE  KInv'
<1> USE DEF KInv
<1>1. PICK i0 \in Place, l0 \in Loop : call.at = i0 /\ Order[i0] = l0
  BY CallPlace DEF SetEvent
<1>2. call.op = "stop" /\ call.step = "set" /\ started /\ call # Idle
  BY CallPlace DEF SetEvent
<1>3. /\ stopEvent' = [stopEvent EXCEPT ![l0] = TRUE]
      /\ call' = At("stop", i0, "join")
      /\ UNCHANGED <<thread, current, heartbeat, held, started>>
  BY <1>1 DEF SetEvent
<1>4. \A i \in Place :
          /\ Runs(i)' <=> Runs(i) /\ i # i0
          /\ Joining(i)' <=> i = i0
          /\ Down(i)' <=> Down(i)
  BY <1>1, <1>2, <1>3, Places DEF Place, Runs, Joining, Down, At, Idle
<1>5. Runs(i0)
  BY <1>1, <1>2 DEF Runs
<1>6. KTypeOK'
  BY <1>1, <1>3, Places DEF KTypeOK, At, Place
<1>7. CallFits'
  BY <1>1, <1>2, <1>3 DEF CallFits, At
<1>8. RunningIsLive'
  <2> SUFFICES ASSUME NEW i \in Place
               PROVE  /\ Runs(i)' => current[Order[i]] \in Live(Order[i]) /\ ~stopEvent'[Order[i]]
                      /\ Joining(i)' => current[Order[i]] \in Slot
    BY <1>3 DEF RunningIsLive, Live
  <2>1. i # i0 => stopEvent'[Order[i]] = stopEvent[Order[i]]
    BY <1>1, <1>3, Places DEF KTypeOK
  <2> QED
    BY <2>1, <1>4, <1>5 DEF RunningIsLive, Live
<1>9. NoneSurvives'
  BY <1>3, <1>4, QuietKeepsNoneSurvives
<1>10. FileGone'
  <2> SUFFICES ASSUME NEW i \in Place, Order[i] = FileLoop, Down(i), current[FileLoop] # NoThread
               PROVE  heartbeat = FALSE
    BY <1>3, <1>4 DEF FileGone
  <2> QED
    BY <1>2 DEF FileGone
<1> QED
  BY <1>6, <1>7, <1>8, <1>9, <1>10

(* The join of loop i0 returns: its thread has ended, or it is a slow one.   *)
LEMMA JoinKeepsKInv ==
    ASSUME KInv, Join
    PROVE  KInv'
<1> USE DEF KInv
<1>1. PICK i0 \in Place, l0 \in Loop : call.at = i0 /\ Order[i0] = l0
  BY CallPlace DEF Join
<1>2. call.op = "stop" /\ call.step = "join" /\ started /\ call # Idle
  BY CallPlace DEF Join
<1>3. /\ call' = IF l0 = FileLoop THEN At("stop", i0, "remove") ELSE At("stop", i0 + 1, "set")
      /\ UNCHANGED <<thread, current, stopEvent, heartbeat, held, started>>
  BY <1>1 DEF Join, AfterJoin
<1>4. thread[l0][current[l0]] = "ended" \/ l0 \in SlowLoop
  BY <1>1 DEF Join
<1>5. \A i \in Place :
          /\ Runs(i)' <=> Runs(i)
          /\ ~Joining(i)'
          /\ Down(i)' <=> Down(i) \/ i = i0
  BY <1>1, <1>2, <1>3, Places DEF Place, Runs, Joining, Down, At, Idle
<1>6. l0 \notin SlowLoop => Live(l0) = {}
  BY <1>1, <1>4 DEF NoneSurvives, Live
<1>7. KTypeOK'
  BY <1>1, <1>3, Places DEF KTypeOK, At, Place
<1>8. CallFits'
  BY <1>1, <1>2, <1>3, Places DEF CallFits, At, Place
<1>9. RunningIsLive'
  BY <1>3, <1>5 DEF RunningIsLive, Live
<1>10. NoneSurvives'
  BY <1>1, <1>3, <1>5, <1>6, QuietKeepsNoneSurvives
<1>11. FileGone'
  <2> SUFFICES ASSUME NEW i \in Place, Order[i] = FileLoop, Down(i)', current[FileLoop] # NoThread
               PROVE  heartbeat = FALSE \/ (call'.step = "remove" /\ call'.at = i)
    BY <1>3 DEF FileGone
  <2>1. CASE i = i0
    BY <2>1, <1>1, <1>3 DEF At
  <2>2. CASE i # i0
    BY <2>2, <1>2, <1>5 DEF FileGone
  <2> QED
    BY <2>1, <2>2
<1> QED
  BY <1>7, <1>8, <1>9, <1>10, <1>11

(* The heartbeat file goes while the file loop is down. *)
LEMMA RemoveKeepsKInv ==
    ASSUME KInv, RemoveHeartbeat
    PROVE  KInv'
<1> USE DEF KInv
<1>1. PICK i0 \in Place, l0 \in Loop : call.at = i0 /\ Order[i0] = l0
  BY CallPlace DEF RemoveHeartbeat
<1>2. call.op = "stop" /\ call.step = "remove" /\ started /\ call # Idle
  BY CallPlace DEF RemoveHeartbeat
<1>3. /\ heartbeat' = FALSE /\ call' = At("stop", i0 + 1, "set")
      /\ UNCHANGED <<thread, current, stopEvent, held, started>>
  BY <1>1 DEF RemoveHeartbeat
<1>4. \A i \in Place : (Runs(i)' <=> Runs(i)) /\ ~Joining(i)' /\ (Down(i)' <=> Down(i))
  BY <1>1, <1>2, <1>3, Places DEF Place, Runs, Joining, Down, At, Idle
<1>5. KTypeOK'
  <2>1. /\ call'.op = "stop" /\ call'.at \in 1..Len(Order) + 1 /\ call'.step = "set"
    BY <1>3, Places DEF At, Place
  <2>2. heartbeat' \in BOOLEAN
    BY <1>3
  <2> QED
    BY <1>3, <2>1, <2>2 DEF KTypeOK
<1>6. CallFits'
  BY <1>2, <1>3 DEF CallFits, At
<1>7. RunningIsLive'
  BY <1>3, <1>4 DEF RunningIsLive, Live
<1>8. NoneSurvives'
  BY <1>3, <1>4, QuietKeepsNoneSurvives
<1>9. FileGone'
  BY <1>3 DEF FileGone
<1> QED
  BY <1>5, <1>6, <1>7, <1>8, <1>9

(* The last step of stop(): all loops are down. *)
LEMMA StopEndsKeepsKInv ==
    ASSUME KInv, StopEnds
    PROVE  KInv'
<1> USE DEF KInv
<1>1. call.op = "stop" /\ call.at = Len(Order) + 1 /\ call.step = "set" /\ call # Idle
  BY DEF StopEnds, At, Idle
<1>2. /\ UNCHANGED <<thread, current, stopEvent, heartbeat>>
      /\ held' = {} /\ started' = FALSE /\ call' = Idle
  BY DEF StopEnds
<1>3. \A i \in Place : Down(i) /\ ~Runs(i)' /\ ~Joining(i)'
  BY <1>1, <1>2, Places DEF Place, Runs, Joining, Down, Idle
<1>4. KTypeOK'
  BY <1>2 DEF KTypeOK, Extra
<1>5. CallFits'
  BY <1>2 DEF CallFits, Idle
<1>6. RunningIsLive'
  BY <1>3 DEF RunningIsLive
<1>7. NoneSurvives'
  BY <1>2, <1>3, QuietKeepsNoneSurvives
<1>8. FileGone'
  BY <1>1, <1>2, <1>3 DEF FileGone
<1> QED
  BY <1>4, <1>5, <1>6, <1>7, <1>8

-----------------------------------------------------------------------------
LEMMA ManagerKeepsKInv == KInv /\ ManagerStep => KInv'
BY StartLoopKeepsKInv, StartEndsKeepsKInv, SetEventKeepsKInv, JoinKeepsKInv, RemoveKeepsKInv,
   StopEndsKeepsKInv DEF ManagerStep

LEMMA StutterKeepsKInv == KInv /\ UNCHANGED kvars => KInv'
BY DEF kvars, KInv, KTypeOK, CallFits, RunningIsLive, NoneSurvives, FileGone, Runs, Joining, Down, Live

(* KInv holds throughout, in every sequence of starts and stops.             *)
THEOREM KeepaliveInvariant == KSafeSpec => []KInv
<1>1. KInv /\ [KNext]_kvars => KInv'
  BY CallKeepsKInv, ManagerKeepsKInv, ThreadKeepsKInv, StutterKeepsKInv DEF KNext
<1> QED
  BY InitHolds, <1>1, PTL DEF KSafeSpec

(* The variables keep their types, and a call its place. *)
THEOREM KeepaliveTypes == KSafeSpec => []KTypeOK
BY KeepaliveInvariant, PTL DEF KInv

LEMMA KInvSilent == KInv => StoppedIsSilent
<1> SUFFICES ASSUME KInv, ~started, call = Idle, current[FileLoop] # NoThread
             PROVE  Live(FileLoop) = {} /\ ~heartbeat
  BY DEF StoppedIsSilent, Calling
<1>1. PICK i \in Place : Order[i] = FileLoop /\ FileLoop \notin SlowLoop
  BY Places, FileAssumption
<1>2. Down(i) /\ call.step = "none"
  BY DEF Down, Runs, Joining, Idle
<1> QED
  BY <1>1, <1>2 DEF KInv, NoneSurvives, FileGone

(* Nobody writes the heartbeat file after a stop() has removed it            *)
(* (keepalive.py:246-255).                                                   *)
THEOREM SilentAfterStop == KSafeSpec => []StoppedIsSilent
BY KeepaliveInvariant, KInvSilent, PTL

(* At most one thread of each loop, but for the slow ones. *)
THEOREM NoDoubleThread == KSafeSpec => []OneThreadEach
<1>1. KInv => OneThreadEach
  BY Places DEF KInv, NoneSurvives, OneThreadEach
<1> QED
  BY KeepaliveInvariant, <1>1, PTL

(* A manager that has been started keeps every loop alive. *)
THEOREM StartedStaysAlive == KSafeSpec => []StartedIsAlive
<1>1. KInv => StartedIsAlive
  BY Places DEF KInv, RunningIsLive, StartedIsAlive, Runs, Calling
<1> QED
  BY KeepaliveInvariant, <1>1, PTL

-----------------------------------------------------------------------------
(* run(), stop() and the interrupt of Supervisor.                            *)

(* What a call of the manager has to do with the place run() is at.          *)
ManagerFits ==
    /\ at = "new" => ~started /\ call = Idle
    /\ at = "keepalive" => config.keepalive /\ (call.op = "start" \/ (call = Idle /\ started))
    /\ at \in {"while", "wpad", "servers", "serving", "failed", "backoff", "cleanup"} =>
           call = Idle /\ (started <=> config.keepalive)
    /\ at = "stop keepalive" => config.keepalive /\ (call.op = "stop" \/ (call = Idle /\ ~started))
    /\ at = "returned" => call = Idle /\ ~started

(* The loops stop() has gone through: each had been started, and is told to  *)
(* stop.                                                                     *)
ToldToStop ==
    at \in {"stop keepalive", "returned"} /\ config.keepalive =>
        \A i \in Place :
            /\ current[Order[i]] # NoThread
            /\ ~Runs(i) => stopEvent[Order[i]]

(* The WPAD server ends in _cleanup, the tasks with the loop that runs them. *)
ServersFit ==
    /\ at \in {"stop keepalive", "returned"} => wpad # "serving"
    /\ at # "serving" => task = NoTask

SInv ==
    /\ at \in Position /\ config \in [auto_restart : BOOLEAN, keepalive : BOOLEAN]
    /\ at # "interrupted" => KInv
    /\ ManagerFits /\ ToldToStop /\ ServersFit

LEMMA SupervisorStarts == SInit => SInv
BY InitHolds DEF SInit, KInit, SInv, Position, ManagerFits, ToldToStop, ServersFit

(* What runs during a stop(), and after it.                                  *)
LEMMA RunsInStop ==
    ASSUME NEW i \in Place
    PROVE  /\ call.op = "stop" => (Runs(i) <=> call.at < i \/ (call.at = i /\ call.step = "set"))
           /\ call'.op = "stop" => (Runs(i)' <=> call'.at < i \/ (call'.at = i /\ call'.step = "set"))
           /\ call = Idle => (Runs(i) <=> started)
           /\ call' = Idle => (Runs(i)' <=> started')
BY DEF Runs, Idle

LEMMA Parts ==
    /\ Idle.op = "none"
    /\ \A op, i, step : /\ At(op, i, step).op = op
                        /\ At(op, i, step).at = i /\ At(op, i, step).step = step
BY DEF At, Idle

LEMMA StartSteps ==
    ASSUME StartLoop \/ StartEnds
    PROVE  call.op = "start" /\ (call'.op = "start" \/ (call' = Idle /\ started'))
<1>1. CASE StartLoop
  BY <1>1 DEF StartLoop, Running, At
<1>2. CASE StartEnds
  BY <1>2 DEF StartEnds, At
<1> QED
  BY <1>1, <1>2

LEMMA StopSteps ==
    ASSUME SetEvent \/ Join \/ RemoveHeartbeat \/ StopEnds
    PROVE  call.op = "stop" /\ (call'.op = "stop" \/ (call' = Idle /\ ~started'))
<1>1. CASE SetEvent
  BY <1>1 DEF SetEvent, Running, At
<1>2. CASE Join
  BY <1>2 DEF Join, AfterJoin, Running, At
<1>3. CASE RemoveHeartbeat
  BY <1>3 DEF RemoveHeartbeat, Running, At
<1>4. CASE StopEnds
  BY <1>4 DEF StopEnds, At
<1> QED
  BY <1>1, <1>2, <1>3, <1>4

(* stop() takes the loops off one by one.                                    *)
LEMMA StopMoves ==
    ASSUME KInv, call.op = "stop", NEW i \in Place
    PROVE  /\ SetEvent => (i # call.at => (Runs(i)' <=> Runs(i)))
           /\ Join \/ RemoveHeartbeat =>
                  (Runs(i)' <=> Runs(i)) /\ UNCHANGED <<stopEvent, current>>
           /\ StopEnds => ~Runs(i) /\ UNCHANGED <<stopEvent, current>>
<1>1. i \in Nat /\ Len(Order) \in Nat /\ i <= Len(Order)
  BY Places DEF Place
<1>2. ASSUME SetEvent PROVE i # call.at => (Runs(i)' <=> Runs(i))
  <2>1. call'.op = "stop" /\ call'.at = call.at
    BY <1>2, Parts DEF SetEvent
  <2>2. /\ Runs(i) <=> call.at < i \/ (call.at = i /\ call.step = "set")
        /\ Runs(i)' <=> call'.at < i \/ (call'.at = i /\ call'.step = "set")
    BY <2>1, RunsInStop
  <2> QED
    BY <2>1, <2>2
<1>3. ASSUME Join PROVE (Runs(i)' <=> Runs(i)) /\ UNCHANGED <<stopEvent, current>>
  <2>1. call.at \in Nat /\ call.step = "join"
    BY <1>3, CallPlace DEF Join, Place
  <2>2. /\ call'.op = "stop"
        /\ \/ call'.at = call.at /\ call'.step = "remove"
           \/ call'.at = call.at + 1 /\ call'.step = "set"
    BY <1>3, Parts DEF Join, AfterJoin
  <2>3. /\ Runs(i) <=> call.at < i \/ (call.at = i /\ call.step = "set")
        /\ Runs(i)' <=> call'.at < i \/ (call'.at = i /\ call'.step = "set")
    BY <2>2, RunsInStop
  <2>4. UNCHANGED <<stopEvent, current>>
    BY <1>3 DEF Join
  <2> QED
    BY <1>1, <2>1, <2>2, <2>3, <2>4
<1>4. ASSUME RemoveHeartbeat PROVE (Runs(i)' <=> Runs(i)) /\ UNCHANGED <<stopEvent, current>>
  <2>1. call.at \in Nat /\ call.step = "remove"
    BY <1>4, CallPlace DEF RemoveHeartbeat, Place
  <2>2. call'.op = "stop" /\ call'.at = call.at + 1 /\ call'.step = "set"
    BY <1>4, Parts DEF RemoveHeartbeat
  <2>3. /\ Runs(i) <=> call.at < i \/ (call.at = i /\ call.step = "set")
        /\ Runs(i)' <=> call'.at < i \/ (call'.at = i /\ call'.step = "set")
    BY <2>2, RunsInStop
  <2>4. UNCHANGED <<stopEvent, current>>
    BY <1>4 DEF RemoveHeartbeat
  <2> QED
    BY <1>1, <2>1, <2>2, <2>3, <2>4
<1>5. ASSUME StopEnds PROVE ~Runs(i) /\ UNCHANGED <<stopEvent, current>>
  <2>1. call.at = Len(Order) + 1
    BY <1>5, Parts DEF StopEnds
  <2> QED
    BY <1>1, <1>5, <2>1, RunsInStop DEF StopEnds
<1> QED
  BY <1>2, <1>3, <1>4, <1>5

(* run() goes on, and the manager does not.                                  *)
LEMMA RunGoesOn ==
    ASSUME SInv, UNCHANGED <<kvars, config>>,
           KeepaliveStarted \/ While \/ CreateWpad \/ StartServers \/ HandleFailure \/ Backoff
               \/ Return \/ (\E s \in Server : Bind(s)) \/ RenderFails
    PROVE  SInv'
<1>1. UNCHANGED <<thread, current, stopEvent, heartbeat, held, started, call>>
  BY DEF kvars
<1>2. KInv => KInv'
  BY StutterKeepsKInv
<1>3. at' \in Position /\ at # "interrupted" /\ at' # "interrupted"
  BY DEF SInv, Position, KeepaliveStarted, While, CreateWpad, StartServers, HandleFailure, Backoff,
     Return, Bind, RenderFails, Goto
<1>4. ManagerFits'
  <2>1. CASE KeepaliveStarted
    <3>1. at = "keepalive" /\ at' = "while" /\ call = Idle
      BY <2>1 DEF KeepaliveStarted, Goto, Calling
    <3>2. call' = Idle /\ started' /\ config'.keepalive
      BY <1>1, <3>1, Parts DEF SInv, ManagerFits
    <3> QED
      BY <3>1, <3>2 DEF ManagerFits
  <2>2. CASE Return
    <3>1. at = "stop keepalive" /\ at' = "returned" /\ call = Idle
      BY <2>2 DEF Return, Goto, Calling
    <3>2. call' = Idle /\ ~started'
      BY <1>1, <3>1, Parts DEF SInv, ManagerFits
    <3> QED
      BY <3>1, <3>2 DEF ManagerFits
  <2>3. CASE ~KeepaliveStarted /\ ~Return
    <3>1. /\ at \in {"while", "wpad", "servers", "serving", "failed", "backoff", "cleanup"}
          /\ at' \in {"while", "wpad", "servers", "serving", "failed", "backoff", "cleanup"}
      BY <2>3 DEF While, CreateWpad, StartServers, HandleFailure, Backoff, Bind, RenderFails, Goto
    <3>2. call' = Idle /\ (started' <=> config'.keepalive)
      BY <1>1, <3>1 DEF SInv, ManagerFits
    <3> QED
      BY <3>1, <3>2 DEF ManagerFits
  <2> QED
    BY <2>1, <2>2, <2>3
<1>5. ToldToStop'
  BY <1>1 DEF SInv, ToldToStop, ManagerFits, Runs, KeepaliveStarted, While, CreateWpad, StartServers,
     HandleFailure, Backoff, Return, Bind, RenderFails, Goto
<1>6. ServersFit'
  BY DEF SInv, ServersFit, KeepaliveStarted, While, CreateWpad, StartServers, HandleFailure,
     Backoff, Return, Bind, RenderFails, Goto, CancelTasks
<1> QED
  BY <1>1, <1>2, <1>3, <1>4, <1>5, <1>6 DEF SInv

(* run() calls the manager.                                                  *)
LEMMA RunCalls ==
    ASSUME SInv, Run \/ Cleanup
    PROVE  SInv'
<1>1. KInv /\ KInv'
  <2>1. KInv
    BY DEF SInv, Run, Cleanup, Goto
  <2> QED
    BY <2>1, CallKeepsKInv, StutterKeepsKInv DEF Run, Cleanup, Client
<1>2. CASE Run
  BY <1>1, <1>2 DEF SInv, Run, Goto, Position, ManagerFits, ToldToStop, ServersFit, CallStart, At,
     kvars, Idle
<1>3. CASE Cleanup
  <2>1. /\ at = "cleanup" /\ call = Idle /\ (started <=> config.keepalive)
        /\ config' = config /\ task' = task /\ wpad' # "serving" /\ started' = started
        /\ UNCHANGED <<current, stopEvent>>
    BY <1>3 DEF SInv, ManagerFits, Cleanup, Goto, CallStop, kvars
  <2>2. CASE config.keepalive
    <3>1. at' = "stop keepalive" /\ call' = At("stop", 1, "set")
      BY <1>3, <2>2 DEF Cleanup, Goto, CallStop
    <3>2. \A i \in Place : Runs(i) /\ Runs(i)'
      <4>1. started /\ call' = At("stop", 1, "set")
        BY <2>1, <2>2, <3>1
      <4> QED
        BY <2>1, <4>1, Parts, Places, RunsInStop DEF Place
    <3>3. ToldToStop'
      BY <1>1, <2>1, <3>2, SlotAssumption DEF ToldToStop, KInv, RunningIsLive, Live
    <3> QED
      BY <1>1, <2>1, <2>2, <3>1, <3>3 DEF SInv, Position, ManagerFits, ServersFit, At
  <2>3. CASE ~config.keepalive
    <3>1. at' = "returned" /\ call' = call
      BY <1>3, <2>3 DEF Cleanup, Goto, kvars
    <3> QED
      BY <1>1, <2>1, <2>3, <3>1 DEF SInv, Position, ManagerFits, ToldToStop, ServersFit, Idle
  <2> QED
    BY <2>2, <2>3
<1> QED
  BY <1>2, <1>3

(* The manager's steps while run() waits for them.                           *)
LEMMA ManagerKeepsSInv ==
    ASSUME SInv, at \in {"keepalive", "stop keepalive"}, ManagerStep, UNCHANGED supvars
    PROVE  SInv'
<1>1. KInv /\ KInv' /\ UNCHANGED <<at, config, wpad, task>>
  BY ManagerKeepsKInv DEF SInv, supvars
<1>2. /\ at = "keepalive" => call'.op = "start" \/ (call' = Idle /\ started')
      /\ at = "stop keepalive" => call.op = "stop" /\ (call'.op = "stop" \/ (call' = Idle /\ ~started'))
  <2>1. /\ at = "keepalive" => call.op # "stop"
        /\ at = "stop keepalive" => call.op # "start"
    BY Parts DEF SInv, ManagerFits
  <2> QED
    BY <2>1, StartSteps, StopSteps DEF ManagerStep
<1>20. ManagerFits'
  BY <1>1, <1>2 DEF SInv, ManagerFits
<1>3. ToldToStop'
  <2> SUFFICES ASSUME at = "stop keepalive", NEW i \in Place
               PROVE  /\ current'[Order[i]] # NoThread
                      /\ ~Runs(i)' => stopEvent'[Order[i]]
    BY <1>1 DEF SInv, ToldToStop, ManagerFits
  <2>1. call.op = "stop" /\ current[Order[i]] # NoThread /\ (~Runs(i) => stopEvent[Order[i]])
    BY <1>1, <1>2 DEF SInv, ManagerFits, ToldToStop
  <2>2. CASE SetEvent
    <3>1. /\ stopEvent' = [stopEvent EXCEPT ![Order[call.at]] = TRUE] /\ current' = current
          /\ call' = At("stop", call.at, "join") /\ call.at \in Place
      BY <2>2, CallPlace, <1>1 DEF SetEvent
    <3>2. stopEvent'[Order[i]] = IF i = call.at THEN TRUE ELSE stopEvent[Order[i]]
      BY <1>1, <3>1, Places DEF KInv, KTypeOK
    <3>3. i # call.at => (Runs(i)' <=> Runs(i))
      BY <1>1, <2>1, <2>2, StopMoves
    <3> QED
      BY <2>1, <3>1, <3>2, <3>3
  <2>3. CASE Join \/ RemoveHeartbeat
    BY <1>1, <2>1, <2>3, StopMoves
  <2>4. CASE StopEnds
    BY <1>1, <2>1, <2>4, StopMoves
  <2> QED
    BY <2>1, <2>2, <2>3, <2>4, StartSteps DEF ManagerStep
<1>4. ServersFit'
  BY <1>1 DEF SInv, ServersFit
<1> QED
  BY <1>1, <1>3, <1>4, <1>20 DEF SInv

(* What comes from elsewhere: stop(), Ctrl+C, other processes, the loops.    *)
LEMMA ElseKeepsSInv ==
    ASSUME SInv, Signal \/ StopFlag \/ StopEvent \/ Other \/ UNCHANGED svars
    PROVE  SInv'
<1>1. UNCHANGED <<kvars, config, at, wpad, task>>
  BY DEF Signal, StopFlag, StopEvent, Other, svars, supvars
<1>2. UNCHANGED <<thread, current, stopEvent, heartbeat, held, started, call>>
  BY <1>1 DEF kvars
<1> QED
  BY <1>1, <1>2, StutterKeepsKInv DEF SInv, ManagerFits, ToldToStop, ServersFit, Runs

LEMMA InterruptKeepsSInv == SInv /\ Interrupt => SInv'
<1> SUFFICES ASSUME SInv, Interrupt PROVE SInv'
  OBVIOUS
<1>1. CASE at \in {"wpad", "servers", "serving"} /\ at' = "cleanup" /\ UNCHANGED kvars /\ CancelTasks
  <2>1. UNCHANGED <<started, call, config>>
    BY <1>1 DEF Interrupt, kvars
  <2> QED
    BY <1>1, <2>1, StutterKeepsKInv DEF SInv, Position, ManagerFits, ToldToStop, ServersFit, CancelTasks
<1>2. CASE at' = "interrupted" /\ task' = NoTask
  BY <1>2 DEF Interrupt, SInv, Position, ManagerFits, ToldToStop, ServersFit
<1> QED
  BY <1>1, <1>2 DEF Interrupt

LEMMA LoopsKeepSInv == SInv /\ Loops => SInv'
<1> SUFFICES ASSUME SInv, NEW l \in Loop, NEW s \in Slot, LoopStep(l, s), UNCHANGED supvars PROVE SInv'
  BY DEF Loops
<1>1. UNCHANGED <<current, stopEvent, held, started, call, at, config, wpad, task>>
  BY DEF LoopStep, Test, Work, Wait, Go, supvars
<1> QED
  BY <1>1, ThreadKeepsKInv DEF SInv, ManagerFits, ToldToStop, ServersFit, Runs

THEOREM SupervisorInvariant == SSafeSpec => []SInv
<1>1. SInv /\ [SNext]_svars => SInv'
  <2> SUFFICES ASSUME SInv, [SNext]_svars PROVE SInv'
    OBVIOUS
  <2>1. CASE KeepaliveStarted \/ While \/ CreateWpad \/ StartServers \/ HandleFailure \/ Backoff
               \/ Return \/ (\E s \in Server : Bind(s)) \/ RenderFails
    <3>1. UNCHANGED <<kvars, config>>
      BY <2>1 DEF KeepaliveStarted, While, CreateWpad, StartServers, HandleFailure, Backoff, Return,
         Bind, RenderFails
    <3> QED
      BY <2>1, <3>1, RunGoesOn
  <2> QED
    BY <2>1, RunCalls, ManagerKeepsSInv, ElseKeepsSInv, InterruptKeepsSInv, LoopsKeepSInv
       DEF SNext, RunStep
<1> QED
  BY <1>1, SupervisorStarts, PTL DEF SSafeSpec

(* run() returns with everything shut down (_cleanup), however it came to    *)
(* its end but by an interrupt that nothing catches.                         *)
THEOREM ShutsDownCleanly == SSafeSpec => []CleanShutdown
<1>1. SInv => CleanShutdown
  <2> SUFFICES ASSUME SInv, at = "returned", config.keepalive
               PROVE  (\A l \in Loop : stopEvent[l]) /\ Live(FileLoop) = {} /\ ~heartbeat
    BY DEF CleanShutdown, SInv, ServersFit
  <2>1. KInv /\ call = Idle /\ ~started
    BY DEF SInv, ManagerFits
  <2>2. \A i \in Place : current[Order[i]] # NoThread /\ stopEvent[Order[i]]
    BY <2>1 DEF SInv, ToldToStop, Runs, Idle
  <2>3. \A l \in Loop : current[l] # NoThread /\ stopEvent[l]
    BY <2>2, Places
  <2> QED
    BY <2>1, <2>3, KInvSilent, FileAssumption DEF StoppedIsSilent, Calling
<1> QED
  BY <1>1, SupervisorInvariant, PTL

-----------------------------------------------------------------------------
(* What stop() leaves behind it.                                             *)

EventSet == stopping = "done" => shutdown

(* A failure after stop(): from here run() only goes on to its end.          *)
NoMore ==
    /\ stopping = "done" /\ shutdown
    /\ \/ at \in {"failed", "backoff", "cleanup", "stop keepalive", "returned", "interrupted"}
       \/ at = "while" /\ ~running

(* The attempt that fails when stop() has been called is the last one, and   *)
(* whoever called it, and wherever run() was then (camofox_proxy.py:460).    *)
THEOREM StopIsFinal == SSafeSpec => NoRestartAfterStop
<1>1. SInit => EventSet
  BY DEF SInit, EventSet
<1>2. EventSet /\ [SNext]_svars => EventSet'
  BY DEF EventSet, SNext, RunStep, Run, KeepaliveStarted, While, CreateWpad, StartServers, HandleFailure,
     Backoff, Cleanup, Return, Bind, RenderFails, Signal, StopFlag, StopEvent, Interrupt, Other, Loops,
     svars, supvars
<1>3. NoMore /\ [SNext]_svars => NoMore'
  <2> SUFFICES ASSUME NoMore, [SNext]_svars PROVE NoMore'
    OBVIOUS
  <2>1. CASE RunStep \/ RenderFails
    BY <2>1 DEF NoMore, RunStep, Run, KeepaliveStarted, While, CreateWpad, StartServers, HandleFailure,
       Backoff, Cleanup, Return, Bind, RenderFails, supvars, Goto
  <2>2. CASE Interrupt
    BY <2>2 DEF NoMore, Interrupt
  <2>3. CASE Signal \/ StopFlag \/ StopEvent
    BY <2>3 DEF NoMore, Signal, StopFlag, StopEvent
  <2>4. CASE Other
    BY <2>4 DEF NoMore, Other
  <2>5. CASE Loops \/ UNCHANGED svars
    <3>1. UNCHANGED supvars
      BY <2>5 DEF Loops, svars
    <3> QED
      BY <3>1 DEF NoMore, supvars
  <2> QED
    BY <2>1, <2>2, <2>3, <2>4, <2>5 DEF SNext
<1>4. /\ EventSet /\ stopping = "done" /\ (at \in {"failed", "backoff"} \/ (at = "while" /\ ~running))
         => NoMore
  BY DEF EventSet, NoMore
<1>5. NoMore => at # "wpad"
  BY DEF NoMore
<1> QED
  BY <1>1, <1>2, <1>3, <1>4, <1>5, PTL DEF SSafeSpec, NoRestartAfterStop
=============================================================================
