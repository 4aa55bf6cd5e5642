------------------------- MODULE MCMonitoredRouter -------------------------
(* A daemon that watches the CPU's usage, at 0, 1 (WARN) or 2 (CRITICAL).   *)
EXTENDS MonitoredRouter, TLC

Ok(metrics) == [status |-> "ok", metrics |-> metrics]
Failed == [status |-> "error", metrics |-> <<>>]

CpuCollections == {"cpu" :> Ok("cpu" :> v) : v \in 0..2}
CpuCollectionsWithFailures == CpuCollections \cup {<<>>, "cpu" :> Failed}

CpuAlertsHere == {Alert("cpu", "machine", WARN), Alert("cpu", "machine", CRITICAL)}

SeveritiesHere == [f \in FP |-> {f.severity}]
PositionHere == [f \in FP |-> f.severity]

WarnAtOne == [t \in Thresholds |-> 1]
CriticalAtTwo == [t \in Thresholds |-> 2]
NoHealthChecks == <<>>
=============================================================================
