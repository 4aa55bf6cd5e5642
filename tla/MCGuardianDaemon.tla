-------------------------- MODULE MCGuardianDaemon --------------------------
(***************************************************************************)
(* The daemon with a note of whether its signals were handled at good      *)
(* times only: a SIGHUP while nobody holds _config_lock, a SIGTERM once    *)
(* start() has reached its loop.  The code does not see to that; these are *)
(* the conditions under which its reload and its stop are sound.           *)
(***************************************************************************)
EXTENDS GuardianDaemon

VARIABLE lucky      \* history: no signal has been handled at a bad time

Startup == {"install", "write_pid", "create_api", "start_api", "go"}

Untimely ==
    \/ Handle("SIGHUP") /\ lock # Free
    \/ Handle("SIGTERM") /\ pc \in Startup

NotedInit == Init /\ lucky = TRUE

NotedNext == Next /\ lucky' = (lucky /\ ~Untimely)

NotedSpec == NotedInit /\ [][NotedNext]_<<vars, lucky>> /\ Fairness

(***************************************************************************)
(* Every stop ends the process: stop() gets past the REST server's         *)
(* shutdown and the loop past its current cycle and sleep (stop, start).   *)
(***************************************************************************)
TimelyStopEnds == []lucky => StopEnds

(* A timely reload comes to its end, whatever other signals arrive, and    *)
(* leaves the lock to the loop (_reload).                                  *)
TimelyReloadTakesEffect == []lucky => ReloadTakesEffect

(***************************************************************************)
(* Collection goes on, cycle after cycle, whatever reloads arrive, until   *)
(* the process is told to stop or killed at startup.                       *)
(***************************************************************************)
TimelyCollectionGoesOn == []lucky => CollectionGoesOn
=============================================================================
