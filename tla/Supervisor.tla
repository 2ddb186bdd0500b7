----------------------------- MODULE Supervisor -----------------------------
(***************************************************************************)
(* camofox_proxy.py: CamoFoxProxy.run with its restart loop, what one run  *)
(* of the servers does, stop() and the ways it is called, and the          *)
(* keepalive manager that run() starts and _cleanup stops.                 *)
(*                                                                         *)
(* Delays and counters that only reach the display are left out: no branch *)
(* depends on them.                                                        *)
(***************************************************************************)
EXTENDS Keepalive

CONSTANTS
    MaxAttempts,   \* max_restart_attempts
    MaxCrashes,    \* bound: exceptions raised for reasons of the environment
    MaxTaken       \* bound: times another process takes a port

ASSUME AttemptsAssumption == MaxAttempts \in Nat \ {0}

Server == {"socks", "http"}      \* run by asyncio tasks
Port   == Server \cup {"wpad"}

(* How the proxy is started: camofox_proxy.py, whose signal handlers call    *)
(* stop(); camofox_start.py, which has none, so that Ctrl+C interrupts; or   *)
(* from a program of which another thread calls stop().                      *)
Entry == {"camofox_proxy", "camofox_start", "library"}

VARIABLES
    entry,     \* in Entry
    config,    \* auto_restart and enable_keepalive
    at,        \* where run() is
    running,   \* self._running
    shutdown,  \* self._shutdown_event
    failures,  \* consecutive_failures
    wpad,      \* self._wpad_server: "none", "serving" or "shut down"
    task,      \* the server tasks: "none", "pending" or "serving"
    port,      \* who listens on each port: "nobody", "us" or "other"
    stopping,  \* stop() called by a thread: "no", "flag" between its two lines, "done"
    crashes, taken   \* used up of MaxCrashes, MaxTaken

supvars == <<entry, config, at, running, shutdown, failures, wpad, task, port, stopping, crashes, taken>>
svars   == <<kvars, supvars>>

Position == {"new", "keepalive", "while", "wpad", "servers", "serving", "failed", "backoff",
           "cleanup", "stop keepalive", "returned", "interrupted"}

(* Types, and: a port is ours exactly while the server that has it lives;    *)
(* the WPAD server's for good (camofox_proxy.py:516-566).                    *)
STypeOK ==
    /\ KTypeOK
    /\ entry \in Entry /\ config \in [auto_restart : BOOLEAN, keepalive : BOOLEAN]
    /\ at \in Position /\ running \in BOOLEAN /\ shutdown \in BOOLEAN
    /\ failures \in 0..MaxAttempts
    /\ wpad \in {"none", "serving", "shut down"}
    /\ task \in [Server -> {"none", "pending", "serving"}]
    /\ port \in [Port -> {"nobody", "us", "other"}]
    /\ stopping \in {"no", "flag", "done"}
    /\ crashes \in 0..MaxCrashes /\ taken \in 0..MaxTaken
    /\ \A s \in Server : port[s] = "us" <=> task[s] = "serving"
    /\ port["wpad"] = "us" <=> wpad # "none"

NoTask == [s \in Server |-> "none"]

SInit ==
    /\ KInit
    /\ entry \in Entry /\ config \in [auto_restart : BOOLEAN, keepalive : BOOLEAN]
    /\ at = "new" /\ running = FALSE /\ shutdown = FALSE /\ failures = 0
    /\ wpad = "none" /\ task = NoTask
    /\ port = [p \in Port |-> "nobody"]
    /\ stopping = "no" /\ crashes = 0 /\ taken = 0

-----------------------------------------------------------------------------
(* run()                                                                     *)
Goto(from, to) == at = from /\ at' = to

\* up to the loop: _running, keepalive
Run ==
    /\ Goto("new", IF config.keepalive THEN "keepalive" ELSE "while")
    /\ running' = TRUE
    /\ IF config.keepalive THEN CallStart ELSE UNCHANGED kvars
    /\ UNCHANGED <<entry, config, shutdown, failures, wpad, task, port, stopping, crashes, taken>>

KeepaliveStarted ==
    /\ Goto("keepalive", "while") /\ ~Calling
    /\ UNCHANGED <<kvars, entry, config, running, shutdown, failures, wpad, task, port, stopping,
                   crashes, taken>>

\* while self._running
While ==
    /\ Goto("while", IF running THEN "wpad" ELSE "cleanup")
    /\ UNCHANGED <<kvars, entry, config, running, shutdown, failures, wpad, task, port, stopping,
                   crashes, taken>>

\* _run_once: create_wpad_server fails if anybody listens on its port already
CreateWpad ==
    /\ \/ /\ port["wpad"] = "nobody" /\ Goto("wpad", "servers")
          /\ port' = [port EXCEPT !["wpad"] = "us"] /\ wpad' = "serving"
       \/ port["wpad"] # "nobody" /\ Goto("wpad", "failed") /\ UNCHANGED <<port, wpad>>
    /\ UNCHANGED <<kvars, entry, config, running, shutdown, failures, task, stopping, crashes, taken>>

Raise == crashes < MaxCrashes /\ crashes' = crashes + 1

\* _async_main: two servers are made and their tasks created; a resolver
\* without suitable name servers raises before that
StartServers ==
    /\ \/ Goto("servers", "serving") /\ task' = [s \in Server |-> "pending"] /\ UNCHANGED crashes
       \/ Goto("servers", "failed") /\ Raise /\ UNCHANGED task
    /\ UNCHANGED <<kvars, entry, config, running, shutdown, failures, wpad, port, stopping, taken>>

\* a server task binds its port, or ends with an exception nobody looks at
Bind(s) ==
    /\ at = "serving" /\ task[s] = "pending"
    /\ \/ /\ port[s] = "nobody"
          /\ port' = [port EXCEPT ![s] = "us"] /\ task' = [task EXCEPT ![s] = "serving"]
       \/ /\ port[s] = "other"
          /\ task' = [task EXCEPT ![s] = "none"] /\ UNCHANGED port
    /\ UNCHANGED <<kvars, entry, config, at, running, shutdown, failures, wpad, stopping, crashes, taken>>

\* asyncio.run cancels all tasks, and the sockets are closed
CancelTasks ==
    /\ task' = NoTask
    /\ port' = [p \in Port |-> IF p \in Server /\ port[p] = "us" THEN "nobody" ELSE port[p]]

\* render_forever raises: the terminal is gone
RenderFails ==
    /\ Goto("serving", "failed") /\ Raise /\ CancelTasks
    /\ UNCHANGED <<kvars, entry, config, running, shutdown, failures, wpad, stopping, taken>>

\* except Exception
HandleFailure ==
    /\ failures' = failures + 1
    /\ Goto("failed", IF ~config.auto_restart \/ failures' >= MaxAttempts THEN "cleanup" ELSE "backoff")
    /\ UNCHANGED <<kvars, entry, config, running, shutdown, wpad, task, port, stopping, crashes, taken>>

SleepMutant ==   \* time.sleep(delay)
    /\ Goto("backoff", "while")
    /\ UNCHANGED <<kvars, entry, config, running, shutdown, failures, wpad, task, port, stopping,
                   crashes, taken>>

\* self._shutdown_event.wait(delay)
Backoff ==
    /\ Goto("backoff", IF shutdown THEN "cleanup" ELSE "while")
    /\ UNCHANGED <<kvars, entry, config, running, shutdown, failures, wpad, task, port, stopping,
                   crashes, taken>>

NoWpadMutant ==   \* the WPAD server is not shut down
    /\ Goto("cleanup", IF config.keepalive THEN "stop keepalive" ELSE "returned")
    /\ IF config.keepalive THEN CallStop ELSE UNCHANGED kvars
    /\ UNCHANGED <<entry, config, running, shutdown, failures, wpad, task, port, stopping, crashes, taken>>

\* _cleanup: the WPAD server, then keepalive
Cleanup ==
    /\ Goto("cleanup", IF config.keepalive THEN "stop keepalive" ELSE "returned")
    /\ wpad' = IF wpad = "serving" THEN "shut down" ELSE wpad
    /\ IF config.keepalive THEN CallStop ELSE UNCHANGED kvars
    /\ UNCHANGED <<entry, config, running, shutdown, failures, task, port, stopping, crashes, taken>>

Return ==
    /\ Goto("stop keepalive", "returned") /\ ~Calling
    /\ UNCHANGED <<kvars, entry, config, running, shutdown, failures, wpad, task, port, stopping,
                   crashes, taken>>

RunStep ==
    \/ Run \/ KeepaliveStarted \/ While \/ CreateWpad \/ StartServers \/ HandleFailure \/ Backoff
    \/ Cleanup \/ Return
    \/ \E s \in Server : Bind(s)
    \/ at \in {"keepalive", "stop keepalive"} /\ ManagerStep /\ UNCHANGED supvars

-----------------------------------------------------------------------------
(* stop(), and Ctrl+C.                                                       *)
Ended == at \in {"returned", "interrupted"}

\* SIGINT or SIGTERM: the handler runs stop() in the thread that runs run()
Signal ==
    /\ entry = "camofox_proxy" /\ ~Ended /\ stopping = "no"
    /\ running' = FALSE /\ shutdown' = TRUE /\ stopping' = "done"
    /\ UNCHANGED <<kvars, entry, config, at, failures, wpad, task, port, crashes, taken>>

\* stop() in another thread: self._running = False,
StopFlag ==
    /\ entry = "library" /\ ~Ended /\ stopping = "no"
    /\ running' = FALSE /\ stopping' = "flag"
    /\ UNCHANGED <<kvars, entry, config, at, shutdown, failures, wpad, task, port, crashes, taken>>

\* self._shutdown_event.set()
StopEvent ==
    /\ stopping = "flag"
    /\ shutdown' = TRUE /\ stopping' = "done"
    /\ UNCHANGED <<kvars, entry, config, at, running, failures, wpad, task, port, crashes, taken>>

\* Ctrl+C without a handler: KeyboardInterrupt, caught around _run_once only.
\* Elsewhere it leaves run(), and the process ends with its threads.
Interrupt ==
    /\ entry = "camofox_start" /\ ~Ended /\ at # "new"
    /\ \/ /\ at \in {"wpad", "servers", "serving"} /\ at' = "cleanup" /\ CancelTasks
          /\ UNCHANGED <<kvars, wpad>>
       \/ /\ at \notin {"wpad", "servers", "serving"} /\ at' = "interrupted"
          /\ task' = NoTask /\ wpad' = "none"
          /\ port' = [p \in Port |-> IF port[p] = "us" THEN "nobody" ELSE port[p]]
          /\ thread' = [l \in Loop |-> [s \in Slot |-> "ended"]]
          /\ current' = [l \in Loop |-> NoThread]
          /\ call' = Idle /\ started' = FALSE /\ held' = {}
          /\ UNCHANGED <<stopEvent, heartbeat>>
    /\ UNCHANGED <<entry, config, running, shutdown, failures, stopping, crashes, taken>>

\* another process takes a port, or gives it up
Other ==
    /\ ~Ended
    /\ \E p \in Port :
       \/ /\ port[p] = "nobody" /\ taken < MaxTaken /\ taken' = taken + 1
          /\ port' = [port EXCEPT ![p] = "other"]
       \/ /\ port[p] = "other" /\ UNCHANGED taken
          /\ port' = [port EXCEPT ![p] = "nobody"]
    /\ UNCHANGED <<kvars, entry, config, at, running, shutdown, failures, wpad, task, stopping, crashes>>

Loops == (\E l \in Loop, s \in Slot : LoopStep(l, s)) /\ UNCHANGED supvars

SNext == RunStep \/ RenderFails \/ Signal \/ StopFlag \/ StopEvent \/ Interrupt \/ Other \/ Loops

(* The thread of run() and those of the loops are scheduled and their waits  *)
(* time out; a stop() that has begun ends.  Nothing else need happen.        *)
SFairness ==
    /\ WF_svars(RunStep) /\ WF_svars(StopEvent)
    /\ \A l \in Loop, s \in Slot : WF_svars(LoopStep(l, s) /\ UNCHANGED supvars)

SSafeSpec == SInit /\ [][SNext]_svars
SSpec     == SSafeSpec /\ SFairness

-----------------------------------------------------------------------------
(* Properties.                                                               *)

(* However run() comes to its end, on every path but an interrupt in a place *)
(* that does not catch it, nothing goes on: the WPAD server of whichever     *)
(* attempt succeeded in making one is shut down, no server listens, every    *)
(* loop has been told to stop and the heartbeat file is gone ("CamoFox proxy *)
(* shut down cleanly", camofox_proxy.py:587).                                *)
CleanShutdown ==
    at = "returned" =>
        /\ wpad # "serving" /\ task = NoTask
        /\ config.keepalive =>
              (\A l \in Loop : stopEvent[l]) /\ Live(FileLoop) = {} /\ ~heartbeat

(* Once stop() has returned, an attempt that fails, or has failed and waits, *)
(* is the last one, also when run() set _running again after stop() cleared  *)
(* it (camofox_proxy.py:460, "shutdown requested during wait").  Not so at   *)
(* "while" with _running set: a stop() whose two lines enclose the whole     *)
(* first attempt is lost.                                                    *)
NoRestartAfterStop ==
    [](stopping = "done" /\ (at \in {"failed", "backoff"} \/ (at = "while" /\ ~running))
        => [](at # "wpad"))

=============================================================================
