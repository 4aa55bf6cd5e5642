-------------------------- MODULE MCAlertObserver --------------------------
(* Instances of AlertObserver for TLC. *)
EXTENDS AlertObserver, TLC

CONSTANTS cpu, disk, oom, trend

(* A warning, an emergency and a detector's alert. *)
MCSeverities == cpu :> {WARN} @@ disk :> {CRITICAL} @@ oom :> {EMERGENCY}
                @@ trend :> {WARN, CRITICAL}
SeveritiesHere == [f \in FP |-> MCSeverities[f]]
MCPosition == cpu :> 1 @@ oom :> 2 @@ disk :> 3 @@ trend :> 4
PositionHere == [f \in FP |-> MCPosition[f]]
=============================================================================
