--------------------------- MODULE GuardianDaemon ---------------------------
(***************************************************************************)
(* The life of the daemon process (src/guardian/main.py): startup, the     *)
(* main loop with its sections under _config_lock, the signal handlers     *)
(* that run on top of it on the same thread, and the thread of the REST    *)
(* server (src/guardian/exposition/rest_api.py) that stop() waits for.     *)
(*                                                                         *)
(* CPython runs a signal's handler on the main thread between two          *)
(* bytecodes, also while that thread waits for a lock or an event, and a   *)
(* handler can be interrupted in turn.  frames is that stack of handlers;  *)
(* only its top frame takes steps, or the loop where there is none.        *)
(***************************************************************************)
EXTENDS Integers, Sequences

CONSTANTS
    ApiEnabled,     \* api.enabled
    Signals,        \* the signals the environment sends: SIGTERM, SIGHUP
    MaxSignals      \* bound: how many it sends in one life

ASSUME DaemonAssumption ==
    /\ ApiEnabled \in BOOLEAN
    /\ Signals \subseteq {"SIGTERM", "SIGHUP"}
    /\ MaxSignals \in Nat

VARIABLES
    pc,         \* where start() and what it calls are
    frames,     \* signal handlers on the main thread, innermost last
    lock,       \* _config_lock: the depth of the frame that holds it, or Free
    running,    \* _running
    pidFile,    \* whether the pid file exists
    api,        \* the REST server's socket and thread
    shutdown,   \* its __shutdown_request
    pending,    \* signals sent whose handler has not begun
    sentSignals,
    stopping,   \* a stop() has begun in this life
    reloadDue   \* a SIGHUP's handler has begun and not taken effect

vars == <<pc, frames, lock, running, pidFile, api, shutdown, pending, sentSignals,
          stopping, reloadDue>>

Free == -1
Depth == Len(frames)
Top == frames[Depth]

(* The sections under the lock, each the label where it is acquired, the    *)
(* one inside and the one after it.                                        *)
Section == [collect_lock |-> <<"collect_held", "collect">>,
            cycle_lock |-> <<"cycle_held", "cycle">>,
            maintain_lock |-> <<"maintain_held", "maintain">>,
            interval_lock |-> <<"interval_held", "sleep">>]

Held == {Section[l][1] : l \in DOMAIN Section}

Labels == {"install", "write_pid", "create_api", "start_api", "go", "test",
           "collect", "cycle", "maintain", "sleep", "exit", "gone"}
          \cup DOMAIN Section \cup Held

FrameLabels == {"flag", "request", "await", "unlink",
                "load", "reload_lock", "reload_held"}

TypeOK ==
    /\ pc \in Labels
    /\ frames \in Seq(FrameLabels) /\ Depth <= MaxSignals
    /\ lock \in {Free} \cup 0..MaxSignals
    /\ running \in BOOLEAN /\ pidFile \in BOOLEAN
    /\ api \in {"none", "created", "started", "serving", "ended"}
    /\ shutdown \in BOOLEAN
    /\ pending \subseteq Signals
    /\ sentSignals \in 0..MaxSignals
    /\ stopping \in BOOLEAN /\ reloadDue \in BOOLEAN

Init ==
    /\ pc = "install"
    /\ frames = <<>>
    /\ lock = Free
    /\ running = FALSE
    /\ pidFile = FALSE
    /\ api = "none"
    /\ shutdown = FALSE
    /\ pending = {}
    /\ sentSignals = 0
    /\ stopping = FALSE
    /\ reloadDue = FALSE

-----------------------------------------------------------------------------
(* start() and the main loop *)

Main == frames = <<>>

Goto(from, to) == Main /\ pc = from /\ pc' = to

environment == <<pending, sentSignals>>
handlers == <<frames, stopping, reloadDue>>
server == <<api, shutdown>>

InstallHandlers ==
    /\ Goto("install", "write_pid")
    /\ UNCHANGED <<lock, running, pidFile, server, environment, handlers>>

WritePidFile ==
    /\ Goto("write_pid", IF ApiEnabled THEN "create_api" ELSE "go")
    /\ pidFile' = TRUE
    /\ UNCHANGED <<lock, running, server, environment, handlers>>

(* start_background: the server object first, its thread after it; a port   *)
(* that is taken is logged and the daemon goes on without the server.      *)
CreateApi ==
    /\ \/ Goto("create_api", "start_api") /\ api' = "created"
       \/ Goto("create_api", "go") /\ api' = "none"
    /\ UNCHANGED <<lock, running, pidFile, shutdown, environment, handlers>>

StartApi ==
    /\ Goto("start_api", "go")
    /\ api' = "started"
    /\ UNCHANGED <<lock, running, pidFile, shutdown, environment, handlers>>

Go ==
    /\ Goto("go", "test")
    /\ running' = TRUE
    /\ UNCHANGED <<lock, pidFile, server, environment, handlers>>

TestRunning ==
    /\ Goto("test", IF running THEN "collect_lock" ELSE "exit")
    /\ UNCHANGED <<lock, running, pidFile, server, environment, handlers>>

Acquire ==
    /\ \E l \in DOMAIN Section : lock = Free /\ Goto(l, Section[l][1])
    /\ lock' = Depth
    /\ UNCHANGED <<running, pidFile, server, environment, handlers>>

Release ==
    /\ \E l \in DOMAIN Section : Goto(Section[l][1], Section[l][2])
    /\ lock' = Free
    /\ UNCHANGED <<running, pidFile, server, environment, handlers>>

(* The work between the sections.  An exception ends the cycle; the        *)
(* maintenance is due once a day.                                          *)
Work ==
    /\ \/ Goto("collect", "cycle_lock")
       \/ Goto("cycle", "maintain_lock")
       \/ Goto("cycle", "interval_lock")
       \/ Goto("collect", "interval_lock")
       \/ Goto("maintain", "interval_lock")
       \/ Goto("sleep", "test")
    /\ UNCHANGED <<lock, running, pidFile, server, environment, handlers>>

(* The process ends through the atexit hook. *)
Exit ==
    /\ Goto("exit", "gone")
    /\ pidFile' = FALSE
    /\ UNCHANGED <<lock, running, server, environment, handlers>>

MainStep ==
    \/ InstallHandlers \/ WritePidFile \/ CreateApi \/ StartApi \/ Go
    \/ TestRunning \/ Acquire \/ Release \/ Work \/ Exit

-----------------------------------------------------------------------------
(* Signals *)

Send(sig) ==
    /\ pc # "gone"
    /\ sentSignals < MaxSignals
    /\ pending' = pending \cup {sig}
    /\ sentSignals' = sentSignals + 1
    /\ UNCHANGED <<pc, lock, running, pidFile, server, handlers>>

(* A signal that arrives before its handler is installed ends the process. *)
Killed ==
    /\ pc = "install" /\ pending # {}
    /\ pc' = "gone"
    /\ UNCHANGED <<lock, running, pidFile, server, environment, handlers>>

Handle(sig) ==
    /\ pc \notin {"install", "gone"}
    /\ sig \in pending
    /\ pending' = pending \ {sig}
    /\ frames' = Append(frames, IF sig = "SIGTERM" THEN "flag" ELSE "load")
    /\ stopping' = (stopping \/ sig = "SIGTERM")
    /\ reloadDue' = (reloadDue \/ sig = "SIGHUP")
    /\ UNCHANGED <<pc, lock, running, pidFile, server, sentSignals>>

AtFrame(label) == frames # <<>> /\ Top = label
Step(label, next) == AtFrame(label) /\ frames' = [frames EXCEPT ![Depth] = next]
Return(label) == AtFrame(label) /\ frames' = SubSeq(frames, 1, Depth - 1)

(* stop() *)
StopServerOnly ==    \* mutant: the flag of the loop is left as it is
    /\ Step("flag", IF api = "none" THEN "unlink" ELSE "request")
    /\ UNCHANGED <<pc, lock, running, pidFile, server, environment, stopping, reloadDue>>

ClearRunning ==
    /\ Step("flag", IF api = "none" THEN "unlink" ELSE "request")
    /\ running' = FALSE
    /\ UNCHANGED <<pc, lock, pidFile, server, environment, stopping, reloadDue>>

RequestShutdown ==
    /\ Step("request", "await")
    /\ shutdown' = TRUE
    /\ UNCHANGED <<pc, lock, running, pidFile, api, environment, stopping, reloadDue>>

(* shutdown() returns once serve_forever has; the event is not set before. *)
AwaitShutdown ==
    /\ api = "ended"
    /\ Step("await", "unlink")
    /\ UNCHANGED <<pc, lock, running, pidFile, server, environment, stopping, reloadDue>>

RemovePidFile ==
    /\ Return("unlink")
    /\ pidFile' = FALSE
    /\ UNCHANGED <<pc, lock, running, server, environment, stopping, reloadDue>>

(* _reload: a configuration that does not load is logged and left. *)
LoadLocked ==           \* mutant: the lock is taken for the load as well
    /\ lock = Free
    /\ Step("load", "reload_lock")
    /\ lock' = Depth
    /\ UNCHANGED <<pc, running, pidFile, server, environment, stopping, reloadDue>>

LoadConfig ==
    /\ Step("load", "reload_lock")
    /\ UNCHANGED <<pc, lock, running, pidFile, server, environment, stopping, reloadDue>>

SwapForgetsRelease ==   \* mutant: the handler leaves the lock held
    /\ Return("reload_held")
    /\ reloadDue' = FALSE
    /\ UNCHANGED <<pc, lock, running, pidFile, server, environment, stopping>>

LoadRetried ==          \* mutant: a failed load is tried again from within
    /\ AtFrame("load")
    /\ frames' = Append(frames, "load")
    /\ UNCHANGED <<pc, lock, running, pidFile, server, environment, stopping, reloadDue>>

LoadFails ==
    /\ Return("load")
    /\ reloadDue' = FALSE
    /\ UNCHANGED <<pc, lock, running, pidFile, server, environment, stopping>>

ReloadUnlocked ==   \* mutant: the swap does not wait for the lock
    /\ Step("reload_lock", "reload_held")
    /\ lock' = Depth
    /\ UNCHANGED <<pc, running, pidFile, server, environment, stopping, reloadDue>>

ReloadAcquire ==
    /\ lock = Free
    /\ Step("reload_lock", "reload_held")
    /\ lock' = Depth
    /\ UNCHANGED <<pc, running, pidFile, server, environment, stopping, reloadDue>>

Swap ==
    /\ Return("reload_held")
    /\ lock' = Free
    /\ reloadDue' = FALSE
    /\ UNCHANGED <<pc, running, pidFile, server, environment, stopping>>

HandlerStep ==
    \/ ClearRunning \/ RequestShutdown \/ AwaitShutdown \/ RemovePidFile
    \/ LoadConfig \/ LoadFails \/ ReloadAcquire \/ Swap

-----------------------------------------------------------------------------
(* The REST server's thread *)

Serve ==
    /\ api = "started"
    /\ api' = "serving"
    /\ UNCHANGED <<pc, lock, running, pidFile, shutdown, environment, handlers>>

EndServing ==
    /\ api = "serving" /\ shutdown
    /\ api' = "ended"
    /\ shutdown' = FALSE
    /\ UNCHANGED <<pc, lock, running, pidFile, environment, handlers>>

ServerStep == pc # "gone" /\ (Serve \/ EndServing)

-----------------------------------------------------------------------------
(* A process that has ended stays so. *)
Ended == pc = "gone" /\ UNCHANGED vars

Deliver == Killed \/ \E sig \in Signals : Handle(sig)

Next == MainStep \/ HandlerStep \/ ServerStep \/ Deliver
        \/ (\E sig \in Signals : Send(sig)) \/ Ended

(* Both threads are scheduled, and a signal sent is delivered. *)
Fairness ==
    /\ WF_vars(MainStep) /\ WF_vars(HandlerStep) /\ WF_vars(ServerStep)
    /\ WF_vars(Deliver)

Spec == Init /\ [][Next]_vars /\ Fairness

-----------------------------------------------------------------------------
(***************************************************************************)
(* The lock is held by exactly one frame of the main thread, the one that  *)
(* is inside a section: no reload swaps configuration and router while the *)
(* loop is between the two ends of a `with self._config_lock`.             *)
(***************************************************************************)
LockOwned ==
    /\ lock = 0 <=> pc \in Held
    /\ \A d \in 1..Depth : lock = d <=> frames[d] = "reload_held"
    /\ lock <= Depth

(***************************************************************************)
(* Every stop ends the process: stop() gets past the REST server's         *)
(* shutdown and the loop past its current cycle and sleep (stop, start).   *)
(***************************************************************************)
StopEnds == stopping ~> (pc = "gone")

(* A reload whose handler has begun comes to its end (_reload).            *)
ReloadTakesEffect == reloadDue ~> ~reloadDue

(***************************************************************************)
(* Collection goes on, cycle after cycle, whatever reloads arrive, until   *)
(* the process is told to stop or killed at startup.                       *)
(***************************************************************************)
CollectionGoesOn == []<>(pc = "collect" \/ pc = "gone" \/ stopping)
=============================================================================
