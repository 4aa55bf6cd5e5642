----------------------------- MODULE MCEvaluate -----------------------------
(***************************************************************************)
(* Evaluate over every combination of a few readings, one per shape of     *)
(* check in the code: a plain band, a mount point's, a latency that counts *)
(* only on a busy disk, an error rate that counts only with traffic, a     *)
(* resource's pressure in two forms, and counters.  Each step changes one  *)
(* reading, and with it every value derived from it here.                  *)
(***************************************************************************)
EXTENDS Evaluate, TLC

VARIABLES level, snapshots, list

mcVars == <<level, snapshots, list>>

ReadingNames == {"band", "space", "rate", "traffic", "some", "full", "count"}

Ok(metrics) == [status |-> "ok", metrics |-> metrics]
Line(n) == IF n = 0 THEN -1 ELSE n     \* a line of /proc/pressure, or none
NoLines == [some |-> -1, full |-> -1]

SnapshotsAt(l) ==
    [cpu |-> Ok([cpu |-> l["band"], iowait |-> l["rate"]]),
     memory |-> Ok([swap |-> l["band"], oom_kill_count_new |-> l["count"]]),
     disk |-> Ok([mounts |-> <<[name |-> "/", percent_used |-> l["space"],
                                inodes_percent |-> 2],
                               [name |-> "/home", percent_used |-> 0,
                                inodes_percent |-> l["space"]]>>,
                  io |-> [xvda |-> [await_ms |-> l["rate"], disk_type |-> "xen",
                                    total_ops |-> l["traffic"]]]]),
     network |-> Ok([close_wait |-> l["count"], syn_recv |-> l["count"],
                     dns_healthy |-> l["count"] = 0,
                     interfaces |-> [eth0 |-> [pps |-> l["traffic"],
                                               error_rate |-> l["rate"],
                                               drop_rate |-> l["space"]]]]),
     process |-> Ok([zombie |-> l["count"], disk_sleep |-> l["band"]]),
     ec2 |-> Ok([is_ec2 |-> TRUE, spot_scheduled |-> l["count"] = 2]),
     system_events |-> Ok([oom_kill_count_new |-> l["count"],
                           new_kernel_errors |-> l["count"],
                           failed_systemd_units |-> <<"sshd", "cron">>,
                           psi_available |-> TRUE,
                           psi |-> [cpu |-> NoLines,
                                    memory |-> [some |-> Line(l["some"]),
                                                full |-> l["full"]],
                                    io |-> [some |-> -1, full |-> Line(l["full"])]]]),
     app_health |-> Ok([checks |-> <<[name |-> "web", healthy |-> l["count"] = 0,
                                      consecutive_failures |-> l["count"]],
                                     [name |-> "db", healthy |-> FALSE,
                                      consecutive_failures |-> 2]>>])]

Init ==
    /\ level = [r \in ReadingNames |-> 0]
    /\ snapshots = SnapshotsAt(level)
    /\ list = Evaluate(snapshots)

Change(r, n) ==
    /\ n \in 0..2
    /\ level' = [level EXCEPT ![r] = n]
    /\ snapshots' = SnapshotsAt(level')
    /\ list' = Evaluate(snapshots')

Worsen == \E r \in ReadingNames : Change(r, level[r] + 1)
Improve == \E r \in ReadingNames : Change(r, level[r] - 1)

Next == Worsen \/ Improve

Spec == Init /\ [][Next]_mcVars

(* What an alert is about: the two forms of a resource's pressure are one. *)
Subject(a) == <<IF a.check = "halted" THEN "pressure" ELSE a.check, a.item>>
(***************************************************************************)
(* evaluate raises one severity per subject, each exactly once: the        *)
(* branches of a check exclude each other, and no two sections share a     *)
(* fingerprint.  The router's streaks count on it.                         *)
(***************************************************************************)
OneAlertPerSubject == \A d, e \in list : Subject(d[2]) = Subject(e[2]) => d = e

(***************************************************************************)
(* A reading that worsens, while nothing else changes, lowers no subject's *)
(* severity: no higher threshold or stall hides what was there.            *)
(***************************************************************************)
WorseIsNotBetter ==
    [][(\E r \in ReadingNames : level'[r] > level[r]) =>
          \A d \in list : \E e \in list' :
              Subject(e[2]) = Subject(d[2]) /\ e[2].severity >= d[2].severity]_mcVars

WarnAtOne == [t \in Thresholds |-> 1]
CriticalAtTwo == [t \in Thresholds |-> 2]
OneHealthCheck == <<[name |-> "web", critical |-> FALSE, threshold |-> 2]>>
=============================================================================
