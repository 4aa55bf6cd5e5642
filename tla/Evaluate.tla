------------------------------ MODULE Evaluate ------------------------------
(***************************************************************************)
(* AlertRouter.evaluate (src/guardian/alerter/router.py): from the         *)
(* snapshots of one cycle to the list of threshold alerts.                 *)
(*                                                                         *)
(* snapshots maps the names of the collectors that returned in time to     *)
(* [status, metrics]; metrics maps the keys a collector filled in to       *)
(* integers, or to items: the mount points and health checks are lists,    *)
(* which may repeat a name, disks and interfaces are dictionaries.         *)
(*                                                                         *)
(* An alert is its check, the item it is about and its severity.  Title    *)
(* and category together name exactly these, so the record stands for the  *)
(* fingerprint too.  The list is the set of pairs of a place in a list (0  *)
(* outside of lists) and an alert.                                         *)
(***************************************************************************)
EXTENDS AlertSeverity, FiniteSets, Sequences

CONSTANTS
    WarnAt,         \* thresholds of the configuration: *_warn
    CriticalAt,     \* *_critical
    MinOps,         \* disk_await_min_ops
    MinPps,         \* network_min_pps
    HealthChecks,   \* app_health_checks: a list of [name, critical, threshold]
    None            \* the item of a check that is about the whole machine

(* Checks of one reading for the machine, which are raised in two bands. *)
CpuChecks == {"cpu", "steal", "iowait", "load"}
MemoryChecks == {"memory", "swap", "swap_out", "dirty", "descriptors"}

Thresholds ==
    CpuChecks \cup MemoryChecks \cup
    {"space", "inodes", "nvme", "ebs", "hdd", "ssd", "close_wait", "syn_recv", "errors", "drops",
     "zombie", "disk_sleep", "psi_cpu_some", "psi_memory_some", "psi_memory_full",
     "psi_io_some", "psi_io_full"}

ASSUME ThresholdsAssumption ==
    /\ \A t \in Thresholds : WarnAt[t] \in Int /\ CriticalAt[t] \in Int
    /\ MinOps \in Int /\ MinPps \in Int
    /\ DOMAIN HealthChecks \subseteq Nat
    /\ \A i \in DOMAIN HealthChecks : HealthChecks[i].threshold \in Int

Alert(check, item, severity) == [check |-> check, item |-> item, severity |-> severity]

Get(metrics, key, default) == IF key \in DOMAIN metrics THEN metrics[key] ELSE default

(* Mutants: neither threshold holds at the critical one; both are tested. *)
BandWithGap(threshold, value) ==
    IF value > CriticalAt[threshold] THEN {CRITICAL}
    ELSE IF value >= WarnAt[threshold] /\ value < CriticalAt[threshold] THEN {WARN} ELSE {}
BandBoth(threshold, value) ==
    {s \in {WARN, CRITICAL} :
        value >= (IF s = WARN THEN WarnAt[threshold] ELSE CriticalAt[threshold])}

(* if ... elif ...: the higher threshold is tested first. *)
Band(threshold, value) ==
    IF value >= CriticalAt[threshold] THEN {CRITICAL}
    ELSE IF value >= WarnAt[threshold] THEN {WARN} ELSE {}

Banded(check, item, threshold, value) ==
    {Alert(check, item, s) : s \in Band(threshold, value)}

When(condition, alert) == IF condition THEN {alert} ELSE {}

(* Checks of one reading each, 0 where it is missing. *)
BandedReadings(checks, metrics) ==
    UNION {Banded(k, None, k, Get(metrics, k, 0)) : k \in checks}

Listed(alerts) == {<<0, a>> : a \in alerts}

-----------------------------------------------------------------------------
CpuAlerts(m) == Listed(BandedReadings(CpuChecks, m))

MemoryAlerts(m) ==
    Listed(BandedReadings(MemoryChecks, m)
           \cup When(Get(m, "oom_kill_count_new", 0) >= 1, Alert("oom", None, EMERGENCY)))

(* An unknown type of disk is measured like an SSD. *)
LatencyThreshold(type) == IF type \in {"nvme", "ebs", "hdd"} THEN type ELSE "ssd"

DiskAlerts(m) ==
    LET mounts == Get(m, "mounts", <<>>)
        io == Get(m, "io", <<>>)
        Latency(d) == IF io[d].total_ops < MinOps THEN {}
                      ELSE Banded("latency", <<d, io[d].disk_type>>,
                                  LatencyThreshold(io[d].disk_type), io[d].await_ms)
    IN  Listed(UNION {Latency(d) : d \in DOMAIN io})
        \cup UNION {{i} \X (Banded("space", mounts[i].name, "space", mounts[i].percent_used)
                            \cup Banded("inodes", mounts[i].name, "inodes", mounts[i].inodes_percent))
                       : i \in DOMAIN mounts}

NetworkAlerts(m) ==
    LET interfaces == Get(m, "interfaces", <<>>)
        Rates(i) == IF interfaces[i].pps < MinPps THEN {}
                    ELSE Banded("errors", i, "errors", interfaces[i].error_rate)
                         \cup Banded("drops", i, "drops", interfaces[i].drop_rate)
    IN  Listed(BandedReadings({"close_wait"}, m)
               \cup When(Get(m, "syn_recv", 0) >= WarnAt["syn_recv"],
                         Alert("syn_recv", None, WARN))
               \cup When(~Get(m, "dns_healthy", TRUE), Alert("dns", None, CRITICAL))
               \cup UNION {Rates(i) : i \in DOMAIN interfaces})

ProcessAlerts(m) == Listed(BandedReadings({"zombie", "disk_sleep"}, m))

Ec2Alerts(m) ==
    Listed(When(Get(m, "is_ec2", FALSE) /\ Get(m, "spot_scheduled", FALSE),
                Alert("spot", None, EMERGENCY)))

SomeThreshold == [cpu |-> "psi_cpu_some", memory |-> "psi_memory_some", io |-> "psi_io_some"]
FullThreshold == [memory |-> "psi_memory_full", io |-> "psi_io_full"]

(* A resource whose tasks are all halted is not looked at for its "some"   *)
(* pressure; -1 stands for a line /proc/pressure did not have.             *)
Halted(psi, r) ==
    psi[r].full >= 0 /\ psi[r].full >= CriticalAt[FullThreshold[r]]

PressureAlerts(psi) ==
    LET Some(r) == IF psi[r].some < 0 THEN {}
                   ELSE Banded("pressure", r, SomeThreshold[r], psi[r].some)
    IN  Some("cpu")
        \cup UNION {IF Halted(psi, r) THEN {Alert("halted", r, CRITICAL)} ELSE Some(r)
                       : r \in {"memory", "io"}}

EventAlerts(m) ==
    LET units == Get(m, "failed_systemd_units", <<>>)
    IN  Listed(When(Get(m, "oom_kill_count_new", 0) >= 1, Alert("oom_event", None, EMERGENCY))
               \cup When(Get(m, "new_kernel_errors", 0) > 0, Alert("kernel", None, CRITICAL))
               \cup IF Get(m, "psi_available", FALSE) THEN PressureAlerts(m.psi) ELSE {})
        \cup {<<i, Alert("unit", units[i], CRITICAL)>> : i \in DOMAIN units}

(* The first configured check of that name decides. *)
HealthConfig(name) ==
    LET named == {i \in DOMAIN HealthChecks : HealthChecks[i].name = name}
    IN  IF named = {} THEN [name |-> name, critical |-> TRUE, threshold |-> 2]
        ELSE HealthChecks[CHOOSE i \in named : \A j \in named : i <= j]

HealthAlerts(m) ==
    LET checks == Get(m, "checks", <<>>)
        Failing == {i \in DOMAIN checks :
                      /\ ~checks[i].healthy
                      /\ checks[i].consecutive_failures >= HealthConfig(checks[i].name).threshold}
    IN  {<<i, Alert("health", checks[i].name,
                    IF HealthConfig(checks[i].name).critical THEN CRITICAL ELSE WARN)>>
            : i \in Failing}

-----------------------------------------------------------------------------
(* A snapshot that is missing, failed or empty raises nothing. *)
Usable(snapshots, c) ==
    /\ c \in DOMAIN snapshots
    /\ snapshots[c].status # "error"
    /\ DOMAIN snapshots[c].metrics # {}

Section(c, m) ==
    CASE c = "cpu" -> CpuAlerts(m)
      [] c = "memory" -> MemoryAlerts(m)
      [] c = "disk" -> DiskAlerts(m)
      [] c = "network" -> NetworkAlerts(m)
      [] c = "process" -> ProcessAlerts(m)
      [] c = "ec2" -> Ec2Alerts(m)
      [] c = "system_events" -> EventAlerts(m)
      [] c = "app_health" -> HealthAlerts(m)

Collectors == {"cpu", "memory", "disk", "network", "process", "ec2", "system_events",
               "app_health"}

Evaluate(snapshots) ==
    UNION {Section(c, snapshots[c].metrics) : c \in {d \in Collectors : Usable(snapshots, d)}}

(* How often the list holds an alert. *)
Times(snapshots, a) == Cardinality({e \in Evaluate(snapshots) : e[2] = a})
=============================================================================
