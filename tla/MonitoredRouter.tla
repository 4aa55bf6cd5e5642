-------------------------- MODULE MonitoredRouter --------------------------
(***************************************************************************)
(* The whole way from a reading to a notification: each cycle collects     *)
(* snapshots (_collect_all in src/guardian/main.py), evaluate turns them   *)
(* into the router's list, and the router of AlertObserver does the rest.  *)
(* A collector that timed out or raised has no snapshot, and one that      *)
(* caught its own exception has a snapshot with status "error".            *)
(*                                                                         *)
(* The fingerprints of AlertRouter are here the alerts of Evaluate, next   *)
(* to whatever the detectors raise.  Nobody reloads the daemon.            *)
(***************************************************************************)
EXTENDS AlertObserver, Evaluate

CONSTANT Collections    \* bound: what _collect_all may return

(* Evaluate raises what AlertRouter expects of a list of threshold alerts. *)
ASSUME CollectionsAssumption ==
    \A snaps \in Collections : \A e \in Evaluate(snaps) :
        /\ e[2] \in FP \ Intelligence
        /\ Times(snaps, e[2]) <= MaxCopies
        /\ Severities[e[2]] = {e[2].severity}

VARIABLE snapshots      \* _last_snapshots

monitorVars == <<obsVars, snapshots>>

MonitorInit == ObserverInit /\ snapshots = <<>>

MonitoredCollect ==
    \E snaps \in Collections :
        /\ snapshots' = snaps
        /\ ObservedCollect
        /\ \A f \in FP \ Intelligence : copies'[f] = Times(snaps, f)

MonitoredCheckRecovery == ObservedCheckRecovery /\ UNCHANGED snapshots
MonitoredDispatch == ObservedDispatch /\ UNCHANGED snapshots
MonitoredCycleFails == ObservedCycleFails /\ UNCHANGED snapshots

MonitoredCycle == MonitoredCollect \/ MonitoredCheckRecovery \/ MonitoredDispatch

MonitorSafety == MonitorInit /\ [][MonitoredCycle \/ MonitoredCycleFails]_monitorVars
MonitorSpec == MonitorSafety /\ WF_monitorVars(MonitoredCycle)

-----------------------------------------------------------------------------
(* What a check of an item shows: the severities evaluate raises for it, and *)
(* what the receivers were last told of it.                                *)

Subjects == {<<f.check, f.item>> : f \in FP \ Intelligence}

About(alerts, subject) == {a.severity : a \in {b \in alerts : <<b.check, b.item>> = subject}}

Shown(subject) == About({e[2] : e \in Evaluate(snapshots)}, subject)
Told(subject) == About(open \ Intelligence, subject)

UndisturbedCycles == <>[][~MonitoredCycleFails]_monitorVars

(***************************************************************************)
(* A reading that settles, in the band of a severity or below all of them, *)
(* is eventually what the receivers know: one alert of that severity is    *)
(* open, or none, and what was open from its earlier bands has recovered.  *)
(***************************************************************************)
SettledReadingTold ==
    UndisturbedCycles =>
        \A subject \in Subjects : \A S \in SUBSET Severity :
            <>[](Shown(subject) = S) => <>[](Told(subject) = S)
=============================================================================
