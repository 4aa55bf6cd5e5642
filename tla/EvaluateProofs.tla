--------------------------- MODULE EvaluateProofs ---------------------------
(***************************************************************************)
(* Proofs about AlertRouter.evaluate, for all snapshots and every          *)
(* configuration.                                                          *)
(***************************************************************************)
EXTENDS MCEvaluate, RecursionTheorems, FiniteSetTheorems

(* The lists of one snapshot repeat no name. *)
Distinct(s) == \A i, j \in DOMAIN s : s[i] = s[j] => i = j
DistinctNames(s) == \A i, j \in DOMAIN s : s[i].name = s[j].name => i = j

NamesDistinct(m) ==
    /\ DistinctNames(Get(m, "mounts", <<>>))
    /\ DistinctNames(Get(m, "checks", <<>>))
    /\ Distinct(Get(m, "failed_systemd_units", <<>>))

Once(alerts) == \A d, e \in alerts : Subject(d[2]) = Subject(e[2]) => d = e

(* What the alerts of a list are about. *)
Among(alerts, kinds) == \A e \in alerts : Subject(e[2])[1] \in kinds

-----------------------------------------------------------------------------
(* A reading is in one band. *)
LEMMA BandOnce == \A t, v : \A x, y \in Band(t, v) : x = y
BY DEF Band

LEMMA AlertParts ==
    \A k, i, s : /\ Alert(k, i, s).check = k
                 /\ Alert(k, i, s).item = i
                 /\ Alert(k, i, s).severity = s
BY DEF Alert

LEMMA AlertSubject ==
    \A k, i, s : /\ k # "halted" => Subject(Alert(k, i, s)) = <<k, i>>
                 /\ Subject(Alert("halted", i, s)) = <<"pressure", i>>
BY AlertParts DEF Subject

LEMMA BandedOnce ==
    ASSUME NEW k, NEW i, NEW t, NEW v, k # "halted"
    PROVE  /\ \A a \in Banded(k, i, t, v) : Subject(a) = <<k, i>>
           /\ \A a, b \in Banded(k, i, t, v) : a = b
BY BandOnce, AlertSubject DEF Banded

LEMMA ReadingsOnce ==
    ASSUME NEW checks, NEW m, "halted" \notin checks
    PROVE  /\ \A a \in BandedReadings(checks, m) : \E k \in checks : Subject(a) = <<k, None>>
           /\ \A a, b \in BandedReadings(checks, m) : Subject(a) = Subject(b) => a = b
<1>1. \A a \in BandedReadings(checks, m) : \E k \in checks : a \in Banded(k, None, k, Get(m, k, 0))
    BY DEF BandedReadings
<1>2. \A k \in checks : /\ \A a \in Banded(k, None, k, Get(m, k, 0)) : Subject(a) = <<k, None>>
                        /\ \A a, b \in Banded(k, None, k, Get(m, k, 0)) : a = b
    BY BandedOnce
<1>3. \A k, l : <<k, None>> = <<l, None>> => k = l
    OBVIOUS
<1> QED BY <1>1, <1>2, <1>3

LEMMA ListedOnce ==
    ASSUME NEW alerts, \A a, b \in alerts : Subject(a) = Subject(b) => a = b
    PROVE  Once(Listed(alerts))
BY DEF Once, Listed

(* Lists about different things make one list. *)
LEMMA TogetherOnce ==
    ASSUME NEW A, NEW B, NEW K, NEW L, Once(A), Once(B), Among(A, K), Among(B, L), K \cap L = {}
    PROVE  Once(A \cup B) /\ Among(A \cup B, K \cup L)
BY DEF Once, Among

LEMMA TogetherAs ==
    ASSUME NEW A, NEW B, NEW K, NEW L, NEW M, Once(A), Once(B), Among(A, K), Among(B, L),
           K \cap L = {}, K \cup L = M
    PROVE  Once(A \cup B) /\ Among(A \cup B, M)
BY TogetherOnce

LEMMA WhenOnce ==
    ASSUME NEW c, NEW k, NEW i, NEW s, k # "halted"
    PROVE  LET alerts == Listed(When(c, Alert(k, i, s))) IN Once(alerts) /\ Among(alerts, {k})
BY AlertSubject DEF When, Listed, Once, Among

LEMMA ReadingsListOnce ==
    ASSUME NEW checks, NEW m, "halted" \notin checks
    PROVE  Once(Listed(BandedReadings(checks, m))) /\ Among(Listed(BandedReadings(checks, m)), checks)
<1>1. Once(Listed(BandedReadings(checks, m)))
    BY ReadingsOnce, ListedOnce
<1>2. Among(Listed(BandedReadings(checks, m)), checks)
    BY ReadingsOnce DEF Listed, Among
<1> QED BY <1>1, <1>2

LEMMA ListedUnion == \A A, B : Listed(A \cup B) = Listed(A) \cup Listed(B)
BY DEF Listed

-----------------------------------------------------------------------------
(* The sections of evaluate, each with checks of its own. *)

LEMMA CpuOnce == \A m : Once(CpuAlerts(m)) /\ Among(CpuAlerts(m), CpuChecks)
BY ReadingsListOnce DEF CpuAlerts, CpuChecks

LEMMA MemoryOnce ==
    ASSUME NEW m
    PROVE  Once(MemoryAlerts(m)) /\ Among(MemoryAlerts(m), MemoryChecks \cup {"oom"})
<1> DEFINE readings == BandedReadings(MemoryChecks, m)
           oom == When(Get(m, "oom_kill_count_new", 0) >= 1, Alert("oom", None, EMERGENCY))
<1>1. Once(Listed(readings)) /\ Among(Listed(readings), MemoryChecks)
    BY ReadingsListOnce DEF MemoryChecks
<1>2. Once(Listed(oom)) /\ Among(Listed(oom), {"oom"})
    BY WhenOnce
<1>3. MemoryAlerts(m) = Listed(readings) \cup Listed(oom)
    BY ListedUnion DEF MemoryAlerts
<1>4. MemoryChecks \cap {"oom"} = {}
    BY DEF MemoryChecks
<1> HIDE DEF readings, oom
<1>5. Once(Listed(readings) \cup Listed(oom)) /\ Among(Listed(readings) \cup Listed(oom), MemoryChecks \cup {"oom"})
    BY <1>1, <1>2, <1>4, TogetherOnce
<1> QED BY <1>3, <1>5

LEMMA DiskOnce ==
    ASSUME NEW m, DistinctNames(Get(m, "mounts", <<>>))
    PROVE  Once(DiskAlerts(m)) /\ Among(DiskAlerts(m), {"space", "inodes", "latency"})
<1> DEFINE mounts == Get(m, "mounts", <<>>)
           io == Get(m, "io", <<>>)
           Space(i) == Banded("space", mounts[i].name, "space", mounts[i].percent_used)
           Inodes(i) == Banded("inodes", mounts[i].name, "inodes", mounts[i].inodes_percent)
           Latency(d) == IF io[d].total_ops < MinOps THEN {}
                         ELSE Banded("latency", <<d, io[d].disk_type>>,
                                     LatencyThreshold(io[d].disk_type), io[d].await_ms)
           full == UNION {{i} \X (Space(i) \cup Inodes(i)) : i \in DOMAIN mounts}
           slow == UNION {Latency(d) : d \in DOMAIN io}
<1>1. DiskAlerts(m) = Listed(slow) \cup full
    BY DEF DiskAlerts
<1>2. \A i : /\ \A a \in Space(i) : Subject(a) = <<"space", mounts[i].name>>
             /\ \A a, b \in Space(i) : a = b
             /\ \A a \in Inodes(i) : Subject(a) = <<"inodes", mounts[i].name>>
             /\ \A a, b \in Inodes(i) : a = b
    BY BandedOnce
<1>3. \A d : /\ \A a \in Latency(d) : Subject(a) = <<"latency", <<d, io[d].disk_type>>>>
             /\ \A a, b \in Latency(d) : a = b
    BY BandedOnce
<1>4. \A i, j \in DOMAIN mounts : mounts[i].name = mounts[j].name => i = j
    BY DEF DistinctNames
<1> HIDE DEF Space, Inodes, Latency, mounts, io
<1>5. Once(full) /\ Among(full, {"space", "inodes"})
    <2>1. \A e \in full : \E i \in DOMAIN mounts : e = <<i, e[2]>> /\ e[2] \in Space(i) \cup Inodes(i)
        OBVIOUS
    <2> HIDE DEF full
    <2>2. Among(full, {"space", "inodes"})
        BY <1>2, <2>1 DEF Among
    <2>3. ASSUME NEW d \in full, NEW e \in full, Subject(d[2]) = Subject(e[2])
          PROVE  d = e
        <3>1. PICK i \in DOMAIN mounts : d = <<i, d[2]>> /\ d[2] \in Space(i) \cup Inodes(i)
            BY <2>1
        <3>2. PICK j \in DOMAIN mounts : e = <<j, e[2]>> /\ e[2] \in Space(j) \cup Inodes(j)
            BY <2>1
        <3>3. mounts[i].name = mounts[j].name
            BY <1>2, <2>3, <3>1, <3>2
        <3>4. i = j
            BY <1>4, <3>3
        <3>5. d[2] = e[2]
            BY <1>2, <2>3, <3>1, <3>2, <3>4
        <3> QED BY <3>1, <3>2, <3>4, <3>5
    <2> QED BY <2>2, <2>3 DEF Once
<1>6. Once(Listed(slow)) /\ Among(Listed(slow), {"latency"})
    <2>1. \A a \in slow : \E d \in DOMAIN io : a \in Latency(d)
        OBVIOUS
    <2> HIDE DEF slow
    <2>2. \A a, b \in slow : Subject(a) = Subject(b) => a = b
        BY <1>3, <2>1
    <2>3. Among(Listed(slow), {"latency"})
        BY <1>3, <2>1 DEF Among, Listed
    <2> QED BY <2>2, <2>3, ListedOnce
<1> HIDE DEF full, slow
<1>7. {"latency"} \cap {"space", "inodes"} = {}
      /\ {"latency"} \cup {"space", "inodes"} = {"space", "inodes", "latency"}
    OBVIOUS
<1>8. Once(Listed(slow) \cup full) /\ Among(Listed(slow) \cup full, {"space", "inodes", "latency"})
    BY <1>5, <1>6, <1>7, TogetherAs, Zenon
<1> QED BY <1>1, <1>8

LEMMA NetworkOnce ==
    ASSUME NEW m
    PROVE  /\ Once(NetworkAlerts(m))
           /\ Among(NetworkAlerts(m), {"close_wait", "syn_recv", "dns", "errors", "drops"})
<1> DEFINE interfaces == Get(m, "interfaces", <<>>)
           Errors(i) == Banded("errors", i, "errors", interfaces[i].error_rate)
           Drops(i) == Banded("drops", i, "drops", interfaces[i].drop_rate)
           Rates(i) == IF interfaces[i].pps < MinPps THEN {} ELSE Errors(i) \cup Drops(i)
           waiting == BandedReadings({"close_wait"}, m)
           received == When(Get(m, "syn_recv", 0) >= WarnAt["syn_recv"], Alert("syn_recv", None, WARN))
           dns == When(~Get(m, "dns_healthy", TRUE), Alert("dns", None, CRITICAL))
           rates == UNION {Rates(i) : i \in DOMAIN interfaces}
<1> DEFINE two == Listed(waiting) \cup Listed(received)
           three == two \cup Listed(dns)
<1>1. NetworkAlerts(m) = three \cup Listed(rates)
    <2>1. NetworkAlerts(m) = Listed(((waiting \cup received) \cup dns) \cup rates)
        BY DEF NetworkAlerts
    <2> HIDE DEF waiting, received, dns, rates
    <2>2. Listed(waiting \cup received) = two
        BY ListedUnion
    <2>3. Listed((waiting \cup received) \cup dns) = three
        BY <2>2, ListedUnion
    <2> HIDE DEF two, three
    <2>4. Listed(((waiting \cup received) \cup dns) \cup rates) = three \cup Listed(rates)
        BY <2>3, ListedUnion
    <2> QED BY <2>1, <2>4
<1>2. Once(Listed(waiting)) /\ Among(Listed(waiting), {"close_wait"})
    BY ReadingsListOnce
<1>3. Once(Listed(received)) /\ Among(Listed(received), {"syn_recv"})
    BY WhenOnce
<1>4. Once(Listed(dns)) /\ Among(Listed(dns), {"dns"})
    BY WhenOnce
<1>5. Once(Listed(rates)) /\ Among(Listed(rates), {"errors", "drops"})
    <2>1. \A i : /\ \A a \in Errors(i) : Subject(a) = <<"errors", i>>
                 /\ \A a, b \in Errors(i) : a = b
                 /\ \A a \in Drops(i) : Subject(a) = <<"drops", i>>
                 /\ \A a, b \in Drops(i) : a = b
        BY BandedOnce
    <2> HIDE DEF Errors, Drops
    <2>2. \A a \in rates : \E i \in DOMAIN interfaces : a \in Errors(i) \cup Drops(i)
        OBVIOUS
    <2> HIDE DEF rates
    <2>3. \A a, b \in rates : Subject(a) = Subject(b) => a = b
        BY <2>1, <2>2
    <2>4. Among(Listed(rates), {"errors", "drops"})
        BY <2>1, <2>2 DEF Among, Listed
    <2> QED BY <2>3, <2>4, ListedOnce
<1> HIDE DEF waiting, received, dns, rates
<1>6. Once(two) /\ Among(two, {"close_wait", "syn_recv"})
    BY <1>2, <1>3, TogetherOnce DEF Among
<1> HIDE DEF two
<1>7. Once(three) /\ Among(three, {"close_wait", "syn_recv", "dns"})
    <2>1. {"close_wait", "syn_recv"} \cap {"dns"} = {}
          /\ {"close_wait", "syn_recv"} \cup {"dns"} = {"close_wait", "syn_recv", "dns"}
        OBVIOUS
    <2> HIDE DEF three
    <2>2. Once(two \cup Listed(dns)) /\ Among(two \cup Listed(dns), {"close_wait", "syn_recv", "dns"})
        BY <1>4, <1>6, <2>1, TogetherAs, Zenon
    <2> QED BY <2>2 DEF three
<1>8. {"close_wait", "syn_recv", "dns"} \cap {"errors", "drops"} = {}
      /\ {"close_wait", "syn_recv", "dns"} \cup {"errors", "drops"}
            = {"close_wait", "syn_recv", "dns", "errors", "drops"}
    OBVIOUS
<1> HIDE DEF three
<1>9. Once(three \cup Listed(rates))
      /\ Among(three \cup Listed(rates), {"close_wait", "syn_recv", "dns", "errors", "drops"})
    BY <1>5, <1>7, <1>8, TogetherAs, Zenon
<1> QED BY <1>1, <1>9

LEMMA ProcessOnce == \A m : Once(ProcessAlerts(m)) /\ Among(ProcessAlerts(m), {"zombie", "disk_sleep"})
BY ReadingsListOnce DEF ProcessAlerts

LEMMA Ec2Once == \A m : Once(Ec2Alerts(m)) /\ Among(Ec2Alerts(m), {"spot"})
BY WhenOnce DEF Ec2Alerts

(* The two forms of a resource's pressure exclude each other. *)
LEMMA PressureOnce ==
    ASSUME NEW psi
    PROVE  /\ \A a, b \in PressureAlerts(psi) : Subject(a) = Subject(b) => a = b
           /\ \A a \in PressureAlerts(psi) : Subject(a)[1] = "pressure"
<1> DEFINE Some(r) == IF psi[r].some < 0 THEN {}
                      ELSE Banded("pressure", r, SomeThreshold[r], psi[r].some)
           Of(r) == IF Halted(psi, r) THEN {Alert("halted", r, CRITICAL)} ELSE Some(r)
<1>1. PressureAlerts(psi) = Some("cpu") \cup UNION {Of(r) : r \in {"memory", "io"}}
    BY DEF PressureAlerts
<1>2. \A r : (\A a \in Some(r) : Subject(a) = <<"pressure", r>>) /\ (\A a, b \in Some(r) : a = b)
    BY BandedOnce
<1> HIDE DEF Some
<1>3. \A r : (\A a \in Of(r) : Subject(a) = <<"pressure", r>>) /\ (\A a, b \in Of(r) : a = b)
    BY <1>2, AlertSubject
<1> HIDE DEF Of
<1> QED BY <1>1, <1>2, <1>3

LEMMA EventsOnce ==
    ASSUME NEW m, Distinct(Get(m, "failed_systemd_units", <<>>))
    PROVE  Once(EventAlerts(m)) /\ Among(EventAlerts(m), {"oom_event", "kernel", "pressure", "unit"})
<1> DEFINE units == Get(m, "failed_systemd_units", <<>>)
           oom == When(Get(m, "oom_kill_count_new", 0) >= 1, Alert("oom_event", None, EMERGENCY))
           kernel == When(Get(m, "new_kernel_errors", 0) > 0, Alert("kernel", None, CRITICAL))
           pressure == IF Get(m, "psi_available", FALSE) THEN PressureAlerts(m.psi) ELSE {}
           failed == {<<i, Alert("unit", units[i], CRITICAL)>> : i \in DOMAIN units}
<1> DEFINE two == Listed(oom) \cup Listed(kernel)
           three == two \cup Listed(pressure)
<1>1. EventAlerts(m) = three \cup failed
    <2>1. EventAlerts(m) = Listed((oom \cup kernel) \cup pressure) \cup failed
        BY DEF EventAlerts
    <2> HIDE DEF oom, kernel, pressure, failed
    <2>2. Listed(oom \cup kernel) = two
        BY ListedUnion
    <2>3. Listed((oom \cup kernel) \cup pressure) = three
        BY <2>2, ListedUnion
    <2> QED BY <2>1, <2>3
<1>2. Once(Listed(oom)) /\ Among(Listed(oom), {"oom_event"})
    BY WhenOnce
<1>3. Once(Listed(kernel)) /\ Among(Listed(kernel), {"kernel"})
    BY WhenOnce
<1>4. Once(Listed(pressure)) /\ Among(Listed(pressure), {"pressure"})
    <2>1. \A a, b \in pressure : Subject(a) = Subject(b) => a = b
        BY PressureOnce
    <2>2. \A a \in pressure : Subject(a)[1] = "pressure"
        BY PressureOnce
    <2> HIDE DEF pressure
    <2>3. Among(Listed(pressure), {"pressure"})
        BY <2>2 DEF Listed, Among
    <2> QED BY <2>1, <2>3, ListedOnce
<1>5. Once(failed) /\ Among(failed, {"unit"})
    <2>1. \A i, j \in DOMAIN units : units[i] = units[j] => i = j
        BY DEF Distinct
    <2>2. \A e \in failed : \E i \in DOMAIN units : e = <<i, e[2]>> /\ e[2] = Alert("unit", units[i], CRITICAL)
        OBVIOUS
    <2> HIDE DEF failed
    <2>3. \A i : Subject(Alert("unit", units[i], CRITICAL)) = <<"unit", units[i]>>
        BY AlertSubject
    <2> HIDE DEF units
    <2> QED BY <2>1, <2>2, <2>3 DEF Once, Among
<1> HIDE DEF oom, kernel, pressure, failed
<1>6. Once(two) /\ Among(two, {"oom_event", "kernel"})
    BY <1>2, <1>3, TogetherOnce DEF Among
<1> HIDE DEF two
<1>7. Once(three) /\ Among(three, {"oom_event", "kernel", "pressure"})
    <2>1. {"oom_event", "kernel"} \cap {"pressure"} = {}
          /\ {"oom_event", "kernel"} \cup {"pressure"} = {"oom_event", "kernel", "pressure"}
        OBVIOUS
    <2> HIDE DEF three
    <2>2. Once(two \cup Listed(pressure)) /\ Among(two \cup Listed(pressure), {"oom_event", "kernel", "pressure"})
        BY <1>4, <1>6, <2>1, TogetherAs, Zenon
    <2> QED BY <2>2 DEF three
<1>8. {"oom_event", "kernel", "pressure"} \cap {"unit"} = {}
      /\ {"oom_event", "kernel", "pressure"} \cup {"unit"} = {"oom_event", "kernel", "pressure", "unit"}
    OBVIOUS
<1> HIDE DEF three
<1>9. Once(three \cup failed) /\ Among(three \cup failed, {"oom_event", "kernel", "pressure", "unit"})
    BY <1>5, <1>7, <1>8, TogetherAs, Zenon
<1> QED BY <1>1, <1>9

LEMMA HealthOnce ==
    ASSUME NEW m, DistinctNames(Get(m, "checks", <<>>))
    PROVE  Once(HealthAlerts(m)) /\ Among(HealthAlerts(m), {"health"})
<1> DEFINE checks == Get(m, "checks", <<>>)
           Level(i) == IF HealthConfig(checks[i].name).critical THEN CRITICAL ELSE WARN
<1>1. \A i, j \in DOMAIN checks : checks[i].name = checks[j].name => i = j
    BY DEF DistinctNames
<1>2. \A e \in HealthAlerts(m) :
         \E i \in DOMAIN checks : e = <<i, e[2]>> /\ e[2] = Alert("health", checks[i].name, Level(i))
    BY DEF HealthAlerts
<1> HIDE DEF Level
<1>3. \A i : Subject(Alert("health", checks[i].name, Level(i))) = <<"health", checks[i].name>>
    BY AlertSubject
<1> HIDE DEF checks
<1> QED BY <1>1, <1>2, <1>3 DEF Once, Among

-----------------------------------------------------------------------------
(* The sections together: no two are about the same thing. *)

KindsOf(c) ==
    CASE c = "cpu" -> CpuChecks
      [] c = "memory" -> MemoryChecks \cup {"oom"}
      [] c = "disk" -> {"space", "inodes", "latency"}
      [] c = "network" -> {"close_wait", "syn_recv", "dns", "errors", "drops"}
      [] c = "process" -> {"zombie", "disk_sleep"}
      [] c = "ec2" -> {"spot"}
      [] c = "system_events" -> {"oom_event", "kernel", "pressure", "unit"}
      [] c = "app_health" -> {"health"}

LEMMA KindsApart == \A c, d \in Collectors : c # d => KindsOf(c) \cap KindsOf(d) = {}
BY DEF Collectors, KindsOf, CpuChecks, MemoryChecks

LEMMA SectionOnce ==
    ASSUME NEW c \in Collectors, NEW m, NamesDistinct(m)
    PROVE  Once(Section(c, m)) /\ Among(Section(c, m), KindsOf(c))
<1>1. CASE c = "cpu"
    BY <1>1, CpuOnce DEF Section, KindsOf
<1>2. CASE c = "memory"
    BY <1>2, MemoryOnce DEF Section, KindsOf
<1>3. CASE c = "disk"
    BY <1>3, DiskOnce DEF Section, KindsOf, NamesDistinct
<1>4. CASE c = "network"
    BY <1>4, NetworkOnce DEF Section, KindsOf
<1>5. CASE c = "process"
    BY <1>5, ProcessOnce DEF Section, KindsOf
<1>6. CASE c = "ec2"
    BY <1>6, Ec2Once DEF Section, KindsOf
<1>7. CASE c = "system_events"
    BY <1>7, EventsOnce DEF Section, KindsOf, NamesDistinct
<1>8. CASE c = "app_health"
    BY <1>8, HealthOnce DEF Section, KindsOf, NamesDistinct
<1> QED BY <1>1, <1>2, <1>3, <1>4, <1>5, <1>6, <1>7, <1>8 DEF Collectors

(* Snapshots whose mount points, health checks and failed units have       *)
(* different names each.                                                   *)
NamesDistinctIn(snaps) == \A c \in DOMAIN snaps : NamesDistinct(snaps[c].metrics)

(***************************************************************************)
(* Whatever the readings and the thresholds: evaluate raises at most one   *)
(* alert per subject and raises it once, unless a list it is given repeats *)
(* a name.                                                                 *)
(***************************************************************************)
THEOREM EvaluateOnce ==
    ASSUME NEW snaps, NamesDistinctIn(snaps)
    PROVE  \A d, e \in Evaluate(snaps) : Subject(d[2]) = Subject(e[2]) => d = e
<1> SUFFICES ASSUME NEW d \in Evaluate(snaps), NEW e \in Evaluate(snaps), Subject(d[2]) = Subject(e[2])
             PROVE  d = e
    OBVIOUS
<1>1. \A a \in Evaluate(snaps) : \E c \in Collectors : c \in DOMAIN snaps /\ a \in Section(c, snaps[c].metrics)
    BY DEF Evaluate, Usable
<1>2. PICK c \in Collectors : c \in DOMAIN snaps /\ d \in Section(c, snaps[c].metrics)
    BY <1>1
<1>3. PICK b \in Collectors : b \in DOMAIN snaps /\ e \in Section(b, snaps[b].metrics)
    BY <1>1
<1>4. /\ Once(Section(c, snaps[c].metrics)) /\ Among(Section(c, snaps[c].metrics), KindsOf(c))
      /\ Among(Section(b, snaps[b].metrics), KindsOf(b))
    BY <1>2, <1>3, SectionOnce DEF NamesDistinctIn
<1>5. c = b
    BY <1>2, <1>3, <1>4, KindsApart DEF Among
<1> QED BY <1>2, <1>3, <1>4, <1>5 DEF Once

(* The router's streaks then count cycles: no list holds an alert twice.   *)
THEOREM TimesOnce ==
    ASSUME NEW snaps, NamesDistinctIn(snaps), NEW a
    PROVE  Times(snaps, a) = IF \E e \in Evaluate(snaps) : e[2] = a THEN 1 ELSE 0
<1> DEFINE same == {e \in Evaluate(snaps) : e[2] = a}
<1>1. CASE \E e \in Evaluate(snaps) : e[2] = a
    <2>1. PICK e \in Evaluate(snaps) : e[2] = a
        BY <1>1
    <2>2. same = {e}
        BY <2>1, EvaluateOnce
    <2> QED BY <1>1, <2>2, FS_Singleton DEF Times
<1>2. CASE ~\E e \in Evaluate(snaps) : e[2] = a
    BY <1>2, FS_EmptySet DEF Times
<1> QED BY <1>1, <1>2

-----------------------------------------------------------------------------
LEMMA ReadingsDistinct == \A l : NamesDistinctIn(SnapshotsAt(l))
<1> SUFFICES ASSUME NEW l, NEW c \in DOMAIN SnapshotsAt(l)
             PROVE  NamesDistinct(SnapshotsAt(l)[c].metrics)
    BY DEF NamesDistinctIn
<1> DEFINE m == SnapshotsAt(l)[c].metrics
<1>1. Distinct(<<>>) /\ DistinctNames(<<>>)
    BY DEF Distinct, DistinctNames
<1>2. CASE c = "disk"
    <2>1. /\ DOMAIN m = {"mounts", "io"}
          /\ DOMAIN m.mounts = 1..2 /\ m.mounts[1].name = "/" /\ m.mounts[2].name = "/home"
        BY <1>2 DEF SnapshotsAt, Ok
    <2> HIDE DEF m
    <2>2. DistinctNames(m.mounts)
        BY <2>1 DEF DistinctNames
    <2> QED BY <1>1, <2>1, <2>2 DEF NamesDistinct, Get, m
<1>3. CASE c = "system_events"
    <2>1. /\ {"mounts", "checks"} \cap DOMAIN m = {} /\ "failed_systemd_units" \in DOMAIN m
          /\ m.failed_systemd_units = <<"sshd", "cron">>
        BY <1>3 DEF SnapshotsAt, Ok
    <2> HIDE DEF m
    <2>2. Distinct(m.failed_systemd_units)
        BY <2>1 DEF Distinct
    <2> QED BY <1>1, <2>1, <2>2 DEF NamesDistinct, Get, m
<1>4. CASE c = "app_health"
    <2>1. /\ DOMAIN m = {"checks"}
          /\ DOMAIN m.checks = 1..2 /\ m.checks[1].name = "web" /\ m.checks[2].name = "db"
        BY <1>4 DEF SnapshotsAt, Ok
    <2> HIDE DEF m
    <2>2. DistinctNames(m.checks)
        BY <2>1 DEF DistinctNames
    <2> QED BY <1>1, <2>1, <2>2 DEF NamesDistinct, Get, m
<1>5. CASE c \notin {"disk", "system_events", "app_health"}
    <2>1. {"mounts", "checks", "failed_systemd_units"} \cap DOMAIN m = {}
        BY <1>5 DEF SnapshotsAt, Ok
    <2> HIDE DEF m
    <2> QED BY <1>1, <2>1 DEF NamesDistinct, Get, m
<1> QED BY <1>2, <1>3, <1>4, <1>5

(***************************************************************************)
(* The readings of the model, however they change and whatever the         *)
(* configuration makes of them, raise each alert once.                     *)
(***************************************************************************)
THEOREM OneAlertAlways == Spec => []OneAlertPerSubject
<1>1. Init => list = Evaluate(SnapshotsAt(level))
    BY DEF Init
<1>2. list = Evaluate(SnapshotsAt(level)) /\ [Next]_mcVars => (list = Evaluate(SnapshotsAt(level)))'
    BY DEF Next, Worsen, Improve, Change, mcVars
<1>3. list = Evaluate(SnapshotsAt(level)) => OneAlertPerSubject
    BY EvaluateOnce, ReadingsDistinct DEF OneAlertPerSubject
<1> QED BY <1>1, <1>2, <1>3, PTL DEF Spec

-----------------------------------------------------------------------------
(* A machine that is worse off. *)

NotAbove(x, y) == x \in Int /\ y \in Int /\ x <= y
Implied(x, y) == x \in BOOLEAN /\ y \in BOOLEAN /\ (x => y)

Counters == {"close_wait", "syn_recv", "zombie", "disk_sleep", "oom_kill_count_new", "new_kernel_errors"}

(* No reading of m is above that of n, and the rest is the same. *)
WorseReadings(m, n) ==
    \A k \in CpuChecks \cup MemoryChecks \cup Counters : NotAbove(Get(m, k, 0), Get(n, k, 0))

WorseDisks(m, n) ==
    LET before == Get(m, "mounts", <<>>)
        after == Get(n, "mounts", <<>>)
        was == Get(m, "io", <<>>)
        is == Get(n, "io", <<>>)
    IN  /\ DOMAIN before = DOMAIN after
        /\ \A i \in DOMAIN before :
              /\ before[i].name = after[i].name
              /\ NotAbove(before[i].percent_used, after[i].percent_used)
              /\ NotAbove(before[i].inodes_percent, after[i].inodes_percent)
        /\ DOMAIN was = DOMAIN is
        /\ \A d \in DOMAIN was :
              /\ was[d].disk_type = is[d].disk_type
              /\ NotAbove(was[d].await_ms, is[d].await_ms)
              /\ NotAbove(was[d].total_ops, is[d].total_ops)

WorseNetwork(m, n) ==
    LET was == Get(m, "interfaces", <<>>)
        is == Get(n, "interfaces", <<>>)
    IN  /\ Implied(Get(n, "dns_healthy", TRUE), Get(m, "dns_healthy", TRUE))
        /\ DOMAIN was = DOMAIN is
        /\ \A i \in DOMAIN was :
              /\ NotAbove(was[i].pps, is[i].pps)
              /\ NotAbove(was[i].error_rate, is[i].error_rate)
              /\ NotAbove(was[i].drop_rate, is[i].drop_rate)

WorsePressure(was, is) ==
    /\ \A r \in {"cpu", "memory", "io"} : NotAbove(was[r].some, is[r].some)
    /\ \A r \in {"memory", "io"} : NotAbove(was[r].full, is[r].full)

WorseEvents(m, n) ==
    /\ Get(m, "failed_systemd_units", <<>>) = Get(n, "failed_systemd_units", <<>>)
    /\ Get(m, "psi_available", FALSE) => Get(n, "psi_available", FALSE) /\ WorsePressure(m.psi, n.psi)
    /\ Implied(Get(m, "is_ec2", FALSE), Get(n, "is_ec2", FALSE))
    /\ Implied(Get(m, "spot_scheduled", FALSE), Get(n, "spot_scheduled", FALSE))

WorseHealth(m, n) ==
    LET was == Get(m, "checks", <<>>)
        is == Get(n, "checks", <<>>)
    IN  /\ DOMAIN was = DOMAIN is
        /\ \A i \in DOMAIN was :
              /\ was[i].name = is[i].name
              /\ Implied(is[i].healthy, was[i].healthy)
              /\ NotAbove(was[i].consecutive_failures, is[i].consecutive_failures)

WorseMetrics(m, n) ==
    WorseReadings(m, n) /\ WorseDisks(m, n) /\ WorseNetwork(m, n) /\ WorseEvents(m, n) /\ WorseHealth(m, n)

Worse(before, after) ==
    \A c \in Collectors : Usable(before, c) =>
        Usable(after, c) /\ WorseMetrics(before[c].metrics, after[c].metrics)

(* B raises no less than A of what A is about. *)
NoLess(A, B) == \A a \in A : \E b \in B : Subject(b) = Subject(a) /\ b.severity >= a.severity

(* The same of two lists. *)
Covered(A, B) == \A d \in A : \E e \in B : Subject(e[2]) = Subject(d[2]) /\ e[2].severity >= d[2].severity

LEMMA BandGrows ==
    ASSUME NEW t \in Thresholds, NEW v, NEW w, NotAbove(v, w), NEW s \in Band(t, v)
    PROVE  \E x \in Band(t, w) : x >= s
BY ThresholdsAssumption DEF Band, NotAbove, WARN, CRITICAL

LEMMA BandedGrows ==
    ASSUME NEW k, NEW i, NEW t \in Thresholds, NEW v, NEW w, NotAbove(v, w), k # "halted"
    PROVE  NoLess(Banded(k, i, t, v), Banded(k, i, t, w))
<1> SUFFICES ASSUME NEW a \in Banded(k, i, t, v)
             PROVE  \E b \in Banded(k, i, t, w) : Subject(b) = Subject(a) /\ b.severity >= a.severity
    BY DEF NoLess
<1>1. PICK s \in Band(t, v) : a = Alert(k, i, s)
    BY DEF Banded
<1>2. PICK x \in Band(t, w) : x >= s
    BY BandGrows
<1>3. Alert(k, i, x) \in Banded(k, i, t, w)
    BY DEF Banded
<1> QED BY <1>1, <1>2, <1>3, AlertParts, AlertSubject

LEMMA ReadingsGrow ==
    ASSUME NEW checks \in SUBSET Thresholds, NEW m, NEW n, "halted" \notin checks,
           \A k \in checks : NotAbove(Get(m, k, 0), Get(n, k, 0))
    PROVE  NoLess(BandedReadings(checks, m), BandedReadings(checks, n))
<1>1. \A k \in checks : NoLess(Banded(k, None, k, Get(m, k, 0)), Banded(k, None, k, Get(n, k, 0)))
    BY BandedGrows
<1>2. \A a \in BandedReadings(checks, m) : \E k \in checks : a \in Banded(k, None, k, Get(m, k, 0))
    BY DEF BandedReadings
<1>3. \A k \in checks : Banded(k, None, k, Get(n, k, 0)) \subseteq BandedReadings(checks, n)
    BY DEF BandedReadings
<1> QED BY <1>1, <1>2, <1>3 DEF NoLess

LEMMA WhenGrows ==
    ASSUME NEW c \in BOOLEAN, NEW d \in BOOLEAN, NEW a, a.severity \in Int, c => d
    PROVE  NoLess(When(c, a), When(d, a))
BY DEF When, NoLess

LEMMA UnionGrows ==
    ASSUME NEW A, NEW B, NEW C, NEW D, NoLess(A, B), NoLess(C, D)
    PROVE  NoLess(A \cup C, B \cup D)
BY DEF NoLess

LEMMA ListedGrows ==
    ASSUME NEW A, NEW B, NoLess(A, B)
    PROVE  Covered(Listed(A), Listed(B))
<1> SUFFICES ASSUME NEW a \in A
             PROVE  \E e \in Listed(B) : Subject(e[2]) = Subject(a) /\ e[2].severity >= a.severity
    BY DEF Covered, Listed
<1>1. PICK b \in B : Subject(b) = Subject(a) /\ b.severity >= a.severity
    BY DEF NoLess
<1>2. <<0, b>> \in Listed(B)
    BY DEF Listed
<1> QED BY <1>1, <1>2

LEMMA CoveredTogether ==
    ASSUME NEW A, NEW B, NEW C, NEW D, Covered(A, B), Covered(C, D)
    PROVE  Covered(A \cup C, B \cup D)
BY DEF Covered

-----------------------------------------------------------------------------
(* Each section of evaluate covers what it raised before. *)

LEMMA CpuGrows ==
    ASSUME NEW m, NEW n, WorseReadings(m, n)
    PROVE  Covered(CpuAlerts(m), CpuAlerts(n))
BY ReadingsGrow, ListedGrows DEF CpuAlerts, CpuChecks, Thresholds, WorseReadings

LEMMA ProcessGrows ==
    ASSUME NEW m, NEW n, WorseReadings(m, n)
    PROVE  Covered(ProcessAlerts(m), ProcessAlerts(n))
BY ReadingsGrow, ListedGrows DEF ProcessAlerts, Thresholds, WorseReadings, Counters

LEMMA MemoryGrows ==
    ASSUME NEW m, NEW n, WorseReadings(m, n)
    PROVE  Covered(MemoryAlerts(m), MemoryAlerts(n))
<1>1. NoLess(BandedReadings(MemoryChecks, m), BandedReadings(MemoryChecks, n))
    BY ReadingsGrow DEF MemoryChecks, Thresholds, WorseReadings
<1> DEFINE killed(x) == Get(x, "oom_kill_count_new", 0) >= 1
           oom == Alert("oom", None, EMERGENCY)
<1>2. killed(m) \in BOOLEAN /\ killed(n) \in BOOLEAN /\ (killed(m) => killed(n)) /\ oom.severity \in Int
    BY AlertParts DEF WorseReadings, Counters, NotAbove, EMERGENCY
<1> HIDE DEF killed
<1>3. NoLess(When(killed(m), oom), When(killed(n), oom))
    BY <1>2, WhenGrows
<1> USE DEF killed
<1> QED BY <1>1, <1>3, UnionGrows, ListedGrows DEF MemoryAlerts

LEMMA Ec2Grows ==
    ASSUME NEW m, NEW n, WorseEvents(m, n)
    PROVE  Covered(Ec2Alerts(m), Ec2Alerts(n))
<1> DEFINE ends(x) == Get(x, "is_ec2", FALSE) /\ Get(x, "spot_scheduled", FALSE)
           spot == Alert("spot", None, EMERGENCY)
<1>1. ends(m) \in BOOLEAN /\ ends(n) \in BOOLEAN /\ (ends(m) => ends(n))
    BY Zenon DEF WorseEvents, Implied
<1>2. spot.severity \in Int
    BY AlertParts DEF EMERGENCY
<1> HIDE DEF ends, spot
<1>3. NoLess(When(ends(m), spot), When(ends(n), spot))
    BY <1>1, <1>2, WhenGrows
<1> USE DEF ends, spot
<1> QED BY <1>3, ListedGrows DEF Ec2Alerts

LEMMA PressureGrows ==
    ASSUME NEW was, NEW is, WorsePressure(was, is)
    PROVE  NoLess(PressureAlerts(was), PressureAlerts(is))
<1> DEFINE Some(psi, r) == IF psi[r].some < 0 THEN {}
                           ELSE Banded("pressure", r, SomeThreshold[r], psi[r].some)
           Of(psi, r) == IF Halted(psi, r) THEN {Alert("halted", r, CRITICAL)} ELSE Some(psi, r)
<1>1. \A psi : PressureAlerts(psi) = Some(psi, "cpu") \cup UNION {Of(psi, r) : r \in {"memory", "io"}}
    BY DEF PressureAlerts
<1>2. ASSUME NEW r \in {"cpu", "memory", "io"}
      PROVE  /\ NoLess(Some(was, r), Some(is, r))
             /\ \A a \in Some(was, r) : Subject(a) = <<"pressure", r>> /\ a.severity \in {WARN, CRITICAL}
    <2>1. SomeThreshold[r] \in Thresholds /\ NotAbove(was[r].some, is[r].some)
        BY <1>2 DEF SomeThreshold, Thresholds, WorsePressure
    <2>2. NoLess(Banded("pressure", r, SomeThreshold[r], was[r].some),
                 Banded("pressure", r, SomeThreshold[r], is[r].some))
        BY <2>1, BandedGrows
    <2>3. ~(was[r].some < 0) => ~(is[r].some < 0)
        BY <2>1 DEF NotAbove
    <2>4. \A a \in Banded("pressure", r, SomeThreshold[r], was[r].some) :
              Subject(a) = <<"pressure", r>> /\ a.severity \in {WARN, CRITICAL}
        BY AlertParts, AlertSubject DEF Banded, Band
    <2> QED BY <2>2, <2>3, <2>4 DEF NoLess
<1> HIDE DEF Some
<1>3. ASSUME NEW r \in {"memory", "io"}
      PROVE  NoLess(Of(was, r), Of(is, r))
    <2>1. Halted(was, r) => Halted(is, r)
        <3>1. NotAbove(was[r].full, is[r].full) /\ CriticalAt[FullThreshold[r]] \in Int
            BY <1>3, ThresholdsAssumption DEF FullThreshold, Thresholds, WorsePressure
        <3> QED BY <3>1 DEF Halted, NotAbove
    <2>2. Subject(Alert("halted", r, CRITICAL)) = <<"pressure", r>>
          /\ Alert("halted", r, CRITICAL).severity = CRITICAL
        BY AlertParts, AlertSubject
    <2>3. CRITICAL >= CRITICAL /\ CRITICAL >= WARN
        BY DEF CRITICAL, WARN
    <2>4. r \in {"cpu", "memory", "io"}
        BY <1>3
    <2> QED BY <1>2, <2>1, <2>2, <2>3, <2>4 DEF NoLess
<1> HIDE DEF Of
<1>4. NoLess(UNION {Of(was, r) : r \in {"memory", "io"}}, UNION {Of(is, r) : r \in {"memory", "io"}})
    BY <1>3 DEF NoLess
<1> QED BY <1>1, <1>2, <1>4, UnionGrows

LEMMA EventsGrow ==
    ASSUME NEW m, NEW n, WorseReadings(m, n), WorseEvents(m, n)
    PROVE  Covered(EventAlerts(m), EventAlerts(n))
<1> DEFINE killed(x) == Get(x, "oom_kill_count_new", 0) >= 1
           errors(x) == Get(x, "new_kernel_errors", 0) > 0
           oom == Alert("oom_event", None, EMERGENCY)
           kernel == Alert("kernel", None, CRITICAL)
           Pressure(x) == IF Get(x, "psi_available", FALSE) THEN PressureAlerts(x.psi) ELSE {}
           units(x) == Get(x, "failed_systemd_units", <<>>)
           Failed(x) == {<<i, Alert("unit", units(x)[i], CRITICAL)>> : i \in DOMAIN units(x)}
<1>1. \A x : EventAlerts(x) = Listed((When(killed(x), oom) \cup When(errors(x), kernel)) \cup Pressure(x)) \cup Failed(x)
    BY DEF EventAlerts
<1>2. killed(m) \in BOOLEAN /\ killed(n) \in BOOLEAN /\ (killed(m) => killed(n)) /\ oom.severity \in Int
    BY AlertParts DEF WorseReadings, Counters, NotAbove, EMERGENCY
<1>3. errors(m) \in BOOLEAN /\ errors(n) \in BOOLEAN /\ (errors(m) => errors(n)) /\ kernel.severity \in Int
    BY AlertParts DEF WorseReadings, Counters, NotAbove, CRITICAL
<1>4. NoLess(Pressure(m), Pressure(n))
    <2>1. CASE Get(m, "psi_available", FALSE)
        <3>1. Get(n, "psi_available", FALSE) /\ WorsePressure(m.psi, n.psi)
            BY <2>1 DEF WorseEvents
        <3>2. NoLess(PressureAlerts(m.psi), PressureAlerts(n.psi))
            BY <3>1, PressureGrows
        <3> QED BY <2>1, <3>1, <3>2
    <2>2. CASE ~Get(m, "psi_available", FALSE)
        BY <2>2 DEF NoLess
    <2> QED BY <2>1, <2>2
<1>5. Failed(m) = Failed(n)
    BY DEF WorseEvents
<1>6. Covered(Failed(m), Failed(n))
    <2>1. \A e \in Failed(m) : e[2].severity \in Int
        BY AlertParts DEF CRITICAL
    <2> HIDE DEF Failed
    <2> QED BY <1>5, <2>1 DEF Covered
<1> HIDE DEF killed, errors, oom, kernel, Pressure, Failed
<1>7. NoLess(When(killed(m), oom), When(killed(n), oom)) /\ NoLess(When(errors(m), kernel), When(errors(n), kernel))
    BY <1>2, <1>3, WhenGrows
<1> DEFINE All(x) == (When(killed(x), oom) \cup When(errors(x), kernel)) \cup Pressure(x)
<1>8. NoLess(All(m), All(n))
    BY <1>4, <1>7, UnionGrows
<1> HIDE DEF All
<1>9. Covered(Listed(All(m)), Listed(All(n)))
    BY <1>8, ListedGrows
<1>10. \A x : EventAlerts(x) = Listed(All(x)) \cup Failed(x)
    BY <1>1 DEF All
<1> QED BY <1>6, <1>9, <1>10, CoveredTogether

LEMMA NetworkGrows ==
    ASSUME NEW m, NEW n, WorseReadings(m, n), WorseNetwork(m, n)
    PROVE  Covered(NetworkAlerts(m), NetworkAlerts(n))
<1> DEFINE interfaces(x) == Get(x, "interfaces", <<>>)
           Errors(x, i) == Banded("errors", i, "errors", interfaces(x)[i].error_rate)
           Drops(x, i) == Banded("drops", i, "drops", interfaces(x)[i].drop_rate)
           Rates(x, i) == IF interfaces(x)[i].pps < MinPps THEN {} ELSE Errors(x, i) \cup Drops(x, i)
           rates(x) == UNION {Rates(x, i) : i \in DOMAIN interfaces(x)}
           waiting(x) == BandedReadings({"close_wait"}, x)
           flood(x) == Get(x, "syn_recv", 0) >= WarnAt["syn_recv"]
           syn == Alert("syn_recv", None, WARN)
           lost(x) == ~Get(x, "dns_healthy", TRUE)
           dns == Alert("dns", None, CRITICAL)
           All(x) == ((waiting(x) \cup When(flood(x), syn)) \cup When(lost(x), dns)) \cup rates(x)
<1>1. \A x : NetworkAlerts(x) = Listed(All(x))
    BY DEF NetworkAlerts
<1>2. NoLess(waiting(m), waiting(n))
    BY ReadingsGrow DEF Thresholds, WorseReadings, Counters
<1>3. NoLess(When(flood(m), syn), When(flood(n), syn))
    <2>1. flood(m) \in BOOLEAN /\ flood(n) \in BOOLEAN /\ (flood(m) => flood(n)) /\ syn.severity \in Int
        BY AlertParts, ThresholdsAssumption DEF WorseReadings, Counters, NotAbove, WARN, Thresholds
    <2> HIDE DEF flood, syn
    <2> QED BY <2>1, WhenGrows
<1>4. NoLess(When(lost(m), dns), When(lost(n), dns))
    <2>1. lost(m) \in BOOLEAN /\ lost(n) \in BOOLEAN /\ (lost(m) => lost(n))
        BY Zenon DEF WorseNetwork, Implied
    <2>2. dns.severity \in Int
        BY AlertParts DEF CRITICAL
    <2> HIDE DEF lost, dns
    <2> QED BY <2>1, <2>2, WhenGrows
<1>5. NoLess(rates(m), rates(n))
    <2>1. DOMAIN interfaces(m) = DOMAIN interfaces(n)
        BY DEF WorseNetwork
    <2>2. ASSUME NEW i \in DOMAIN interfaces(m)
          PROVE  NoLess(Rates(m, i), Rates(n, i))
        <3>1. /\ NotAbove(interfaces(m)[i].pps, interfaces(n)[i].pps)
              /\ NotAbove(interfaces(m)[i].error_rate, interfaces(n)[i].error_rate)
              /\ NotAbove(interfaces(m)[i].drop_rate, interfaces(n)[i].drop_rate)
            BY <2>2 DEF WorseNetwork
        <3>2. NoLess(Errors(m, i), Errors(n, i)) /\ NoLess(Drops(m, i), Drops(n, i))
            BY <3>1, BandedGrows DEF Thresholds
        <3>3. interfaces(n)[i].pps < MinPps => interfaces(m)[i].pps < MinPps
            BY <3>1, ThresholdsAssumption DEF NotAbove
        <3> HIDE DEF Errors, Drops
        <3>4. NoLess(Errors(m, i) \cup Drops(m, i), Errors(n, i) \cup Drops(n, i))
            BY <3>2, UnionGrows
        <3> QED BY <3>3, <3>4 DEF NoLess
    <2> HIDE DEF Rates, interfaces
    <2> QED BY <2>1, <2>2 DEF NoLess
<1> HIDE DEF waiting, flood, syn, lost, dns, rates
<1>6. NoLess(All(m), All(n))
    BY <1>2, <1>3, <1>4, <1>5, UnionGrows
<1> HIDE DEF All
<1> QED BY <1>1, <1>6, ListedGrows

LEMMA DiskGrows ==
    ASSUME NEW m, NEW n, WorseDisks(m, n)
    PROVE  Covered(DiskAlerts(m), DiskAlerts(n))
<1> DEFINE mounts(x) == Get(x, "mounts", <<>>)
           io(x) == Get(x, "io", <<>>)
           Space(x, i) == Banded("space", mounts(x)[i].name, "space", mounts(x)[i].percent_used)
           Inodes(x, i) == Banded("inodes", mounts(x)[i].name, "inodes", mounts(x)[i].inodes_percent)
           Full(x, i) == Space(x, i) \cup Inodes(x, i)
           full(x) == UNION {{i} \X Full(x, i) : i \in DOMAIN mounts(x)}
           Slow(x, d) == Banded("latency", <<d, io(x)[d].disk_type>>,
                                LatencyThreshold(io(x)[d].disk_type), io(x)[d].await_ms)
           Latency(x, d) == IF io(x)[d].total_ops < MinOps THEN {} ELSE Slow(x, d)
           slow(x) == UNION {Latency(x, d) : d \in DOMAIN io(x)}
<1>1. \A x : DiskAlerts(x) = Listed(slow(x)) \cup full(x)
    BY DEF DiskAlerts
<1>2. NoLess(slow(m), slow(n))
    <2>1. DOMAIN io(m) = DOMAIN io(n)
        BY DEF WorseDisks
    <2>2. ASSUME NEW d \in DOMAIN io(m)
          PROVE  NoLess(Latency(m, d), Latency(n, d))
        <3>1. /\ io(m)[d].disk_type = io(n)[d].disk_type
              /\ NotAbove(io(m)[d].await_ms, io(n)[d].await_ms)
              /\ NotAbove(io(m)[d].total_ops, io(n)[d].total_ops)
            BY <2>2 DEF WorseDisks
        <3>2. LatencyThreshold(io(m)[d].disk_type) \in Thresholds
            BY DEF LatencyThreshold, Thresholds
        <3>3. NoLess(Slow(m, d), Slow(n, d))
            BY <3>1, <3>2, BandedGrows
        <3>4. io(n)[d].total_ops < MinOps => io(m)[d].total_ops < MinOps
            BY <3>1, ThresholdsAssumption DEF NotAbove
        <3> HIDE DEF Slow
        <3> QED BY <3>3, <3>4 DEF NoLess
    <2> HIDE DEF Latency, io
    <2> QED BY <2>1, <2>2 DEF NoLess
<1>3. Covered(full(m), full(n))
    <2>1. DOMAIN mounts(m) = DOMAIN mounts(n)
        BY DEF WorseDisks
    <2>2. ASSUME NEW i \in DOMAIN mounts(m)
          PROVE  NoLess(Full(m, i), Full(n, i))
        <3>1. /\ mounts(m)[i].name = mounts(n)[i].name
              /\ NotAbove(mounts(m)[i].percent_used, mounts(n)[i].percent_used)
              /\ NotAbove(mounts(m)[i].inodes_percent, mounts(n)[i].inodes_percent)
            BY <2>2 DEF WorseDisks
        <3>2. NoLess(Space(m, i), Space(n, i)) /\ NoLess(Inodes(m, i), Inodes(n, i))
            BY <3>1, BandedGrows DEF Thresholds
        <3> HIDE DEF Space, Inodes
        <3> QED BY <3>2, UnionGrows
    <2> HIDE DEF Full, mounts
    <2>3. ASSUME NEW e \in full(m)
          PROVE  \E f \in full(n) : Subject(f[2]) = Subject(e[2]) /\ f[2].severity >= e[2].severity
        <3>1. PICK i \in DOMAIN mounts(m) : e[2] \in Full(m, i)
            OBVIOUS
        <3>2. PICK b \in Full(n, i) : Subject(b) = Subject(e[2]) /\ b.severity >= e[2].severity
            BY <2>2, <3>1 DEF NoLess
        <3>3. <<i, b>> \in full(n)
            BY <2>1, <3>1, <3>2
        <3> QED BY <3>2, <3>3
    <2> QED BY <2>3 DEF Covered
<1> HIDE DEF slow, full
<1>4. Covered(Listed(slow(m)), Listed(slow(n)))
    BY <1>2, ListedGrows
<1> QED BY <1>1, <1>3, <1>4, CoveredTogether

(* Of several checks of one name there is a first one. *)
LEMMA ThresholdOfName == \A name : HealthConfig(name).threshold \in Int
<1> SUFFICES ASSUME NEW name PROVE HealthConfig(name).threshold \in Int
    OBVIOUS
<1> DEFINE named == {i \in DOMAIN HealthChecks : HealthChecks[i].name = name}
           first == CHOOSE i \in named : \A j \in named : i <= j
<1>1. CASE named = {}
    BY <1>1 DEF HealthConfig
<1>2. CASE named # {}
    <2>1. named \subseteq Nat
        BY ThresholdsAssumption
    <2>2. \E i \in named : \A j \in named : i <= j
        BY <1>2, <2>1, LeastNumber
    <2>3. first \in named
        BY <2>2
    <2>4. HealthConfig(name) = HealthChecks[first]
        BY <1>2 DEF HealthConfig
    <2> HIDE DEF first
    <2> QED BY <2>3, <2>4, ThresholdsAssumption
<1> QED BY <1>1, <1>2

LEMMA HealthGrows ==
    ASSUME NEW m, NEW n, WorseHealth(m, n)
    PROVE  Covered(HealthAlerts(m), HealthAlerts(n))
<1> DEFINE checks(x) == Get(x, "checks", <<>>)
           Fails(x, i) == /\ ~checks(x)[i].healthy
                          /\ checks(x)[i].consecutive_failures >= HealthConfig(checks(x)[i].name).threshold
           Level(name) == IF HealthConfig(name).critical THEN CRITICAL ELSE WARN
<1>1. \A x : HealthAlerts(x) = {<<i, Alert("health", checks(x)[i].name, Level(checks(x)[i].name))>> :
                                  i \in {j \in DOMAIN checks(x) : Fails(x, j)}}
    BY DEF HealthAlerts
<1>2. DOMAIN checks(m) = DOMAIN checks(n)
    BY DEF WorseHealth
<1>3. ASSUME NEW i \in DOMAIN checks(m)
      PROVE  checks(m)[i].name = checks(n)[i].name /\ (Fails(m, i) => Fails(n, i))
    <2>1. /\ checks(m)[i].name = checks(n)[i].name
          /\ NotAbove(checks(m)[i].consecutive_failures, checks(n)[i].consecutive_failures)
        BY <1>3 DEF WorseHealth
    <2>2. checks(n)[i].healthy => checks(m)[i].healthy
        BY <1>3, Zenon DEF WorseHealth, Implied
    <2>3. checks(m)[i].consecutive_failures >= HealthConfig(checks(m)[i].name).threshold =>
          checks(n)[i].consecutive_failures >= HealthConfig(checks(n)[i].name).threshold
        BY <2>1, ThresholdOfName DEF NotAbove
    <2> QED BY <2>1, <2>2, <2>3, Zenon
<1>4. \A name : Level(name) \in Int
    BY DEF CRITICAL, WARN
<1> HIDE DEF checks, Fails, Level
<1>5. ASSUME NEW e \in HealthAlerts(m)
      PROVE  e \in HealthAlerts(n) /\ e[2].severity \in Int
    <2>1. PICK i \in DOMAIN checks(m) :
             Fails(m, i) /\ e = <<i, Alert("health", checks(m)[i].name, Level(checks(m)[i].name))>>
        BY <1>1
    <2>2. e \in HealthAlerts(n)
        BY <1>1, <1>2, <1>3, <2>1
    <2>3. e[2].severity = Level(checks(m)[i].name)
        BY <2>1, AlertParts
    <2> QED BY <1>4, <2>2, <2>3
<1>6. \A e \in HealthAlerts(m) : e[2].severity >= e[2].severity
    BY <1>5
<1> QED BY <1>5, <1>6 DEF Covered

LEMMA SectionGrows ==
    ASSUME NEW c \in Collectors, NEW m, NEW n, WorseMetrics(m, n)
    PROVE  Covered(Section(c, m), Section(c, n))
<1>1. CASE c = "cpu"
    BY <1>1, CpuGrows DEF Section, WorseMetrics
<1>2. CASE c = "memory"
    BY <1>2, MemoryGrows DEF Section, WorseMetrics
<1>3. CASE c = "disk"
    BY <1>3, DiskGrows DEF Section, WorseMetrics
<1>4. CASE c = "network"
    BY <1>4, NetworkGrows DEF Section, WorseMetrics
<1>5. CASE c = "process"
    BY <1>5, ProcessGrows DEF Section, WorseMetrics
<1>6. CASE c = "ec2"
    BY <1>6, Ec2Grows DEF Section, WorseMetrics
<1>7. CASE c = "system_events"
    BY <1>7, EventsGrow DEF Section, WorseMetrics
<1>8. CASE c = "app_health"
    BY <1>8, HealthGrows DEF Section, WorseMetrics
<1> QED BY <1>1, <1>2, <1>3, <1>4, <1>5, <1>6, <1>7, <1>8 DEF Collectors

(***************************************************************************)
(* evaluate is monotone.  Whatever the thresholds: on a machine no reading *)
(* of which is better, every subject that had an alert has one, and no     *)
(* less severe.                                                            *)
(***************************************************************************)
THEOREM EvaluateMonotone ==
    ASSUME NEW before, NEW after, Worse(before, after)
    PROVE  Covered(Evaluate(before), Evaluate(after))
<1> SUFFICES ASSUME NEW d \in Evaluate(before)
             PROVE  \E e \in Evaluate(after) : Subject(e[2]) = Subject(d[2]) /\ e[2].severity >= d[2].severity
    BY DEF Covered
<1>1. PICK c \in Collectors : Usable(before, c) /\ d \in Section(c, before[c].metrics)
    BY DEF Evaluate
<1>2. Usable(after, c) /\ WorseMetrics(before[c].metrics, after[c].metrics)
    BY <1>1 DEF Worse
<1>3. PICK e \in Section(c, after[c].metrics) : Subject(e[2]) = Subject(d[2]) /\ e[2].severity >= d[2].severity
    BY <1>1, <1>2, SectionGrows DEF Covered
<1>4. e \in Evaluate(after)
    BY <1>2, <1>3 DEF Evaluate
<1> QED BY <1>3, <1>4

-----------------------------------------------------------------------------
(* Collectors without lists of their own. *)

LEMMA ReadingsWorsen ==
    ASSUME NEW m, NEW n, DOMAIN m = DOMAIN n,
           \A k \in DOMAIN m \cap (CpuChecks \cup MemoryChecks \cup Counters) : NotAbove(m[k], n[k])
    PROVE  WorseReadings(m, n)
BY DEF WorseReadings, Get, NotAbove

LEMMA NothingWorsens ==
    ASSUME NEW m, NEW n, DOMAIN m = DOMAIN n
    PROVE  /\ {"mounts", "io"} \cap DOMAIN m = {} => WorseDisks(m, n)
           /\ {"interfaces", "dns_healthy"} \cap DOMAIN m = {} => WorseNetwork(m, n)
           /\ {"is_ec2", "spot_scheduled", "psi_available", "failed_systemd_units"} \cap DOMAIN m = {} =>
                 WorseEvents(m, n)
           /\ "checks" \notin DOMAIN m => WorseHealth(m, n)
<1>1. DOMAIN <<>> = {}
    OBVIOUS
<1> QED BY <1>1 DEF WorseDisks, WorseNetwork, WorseEvents, WorseHealth, Get, Implied

LEMMA LevelsWorsen ==
    ASSUME NEW l \in [ReadingNames -> 0..2], NEW k \in [ReadingNames -> 0..2],
           \A r \in ReadingNames : l[r] <= k[r]
    PROVE  Worse(SnapshotsAt(l), SnapshotsAt(k))
<1> SUFFICES ASSUME NEW c \in Collectors
             PROVE  /\ Usable(SnapshotsAt(k), c)
                    /\ WorseMetrics(SnapshotsAt(l)[c].metrics, SnapshotsAt(k)[c].metrics)
    BY DEF Worse
<1> DEFINE m == SnapshotsAt(l)[c].metrics
           n == SnapshotsAt(k)[c].metrics
<1>1. \A r \in ReadingNames : l[r] \in 0..2 /\ k[r] \in 0..2 /\ NotAbove(l[r], k[r])
    BY DEF NotAbove
<1>2. NotAbove(0, 0) /\ NotAbove(2, 2) /\ NotAbove(-1, -1)
    BY DEF NotAbove
<1>3. DOMAIN n # {} => Usable(SnapshotsAt(k), c)
    <2>1. c \in DOMAIN SnapshotsAt(k) /\ SnapshotsAt(k)[c].status = "ok"
        BY DEF SnapshotsAt, Ok, Collectors
    <2> QED BY <2>1 DEF Usable
<1>4. CASE c = "cpu"
    <2>1. DOMAIN m = {"cpu", "iowait"} /\ DOMAIN n = DOMAIN m
          /\ m.cpu = l["band"] /\ n.cpu = k["band"] /\ m.iowait = l["rate"] /\ n.iowait = k["rate"]
        BY <1>4 DEF SnapshotsAt, Ok
    <2> HIDE DEF m, n
    <2>2. WorseReadings(m, n)
        BY <1>1, <2>1, ReadingsWorsen DEF ReadingNames
    <2> QED BY <1>3, <2>1, <2>2, NothingWorsens DEF WorseMetrics, m, n
<1>5. CASE c = "memory"
    <2>1. DOMAIN m = {"swap", "oom_kill_count_new"} /\ DOMAIN n = DOMAIN m
          /\ m.swap = l["band"] /\ n.swap = k["band"]
          /\ m.oom_kill_count_new = l["count"] /\ n.oom_kill_count_new = k["count"]
        BY <1>5 DEF SnapshotsAt, Ok
    <2> HIDE DEF m, n
    <2>2. WorseReadings(m, n)
        BY <1>1, <2>1, ReadingsWorsen DEF ReadingNames
    <2> QED BY <1>3, <2>1, <2>2, NothingWorsens DEF WorseMetrics, m, n
<1>6. CASE c = "disk"
    <2>1. DOMAIN m = {"mounts", "io"} /\ DOMAIN n = DOMAIN m
        BY <1>6 DEF SnapshotsAt, Ok
    <2>2. /\ DOMAIN m.mounts = 1..2 /\ DOMAIN n.mounts = 1..2
          /\ \A i \in 1..2 : /\ m.mounts[i].name = n.mounts[i].name
                             /\ NotAbove(m.mounts[i].percent_used, n.mounts[i].percent_used)
                             /\ NotAbove(m.mounts[i].inodes_percent, n.mounts[i].inodes_percent)
        BY <1>1, <1>2, <1>6 DEF SnapshotsAt, Ok, ReadingNames
    <2>3. /\ DOMAIN m.io = {"xvda"} /\ DOMAIN n.io = {"xvda"}
          /\ m.io["xvda"].disk_type = n.io["xvda"].disk_type
          /\ NotAbove(m.io["xvda"].await_ms, n.io["xvda"].await_ms)
          /\ NotAbove(m.io["xvda"].total_ops, n.io["xvda"].total_ops)
        BY <1>1, <1>6 DEF SnapshotsAt, Ok, ReadingNames
    <2> HIDE DEF m, n
    <2>4. WorseReadings(m, n)
        BY <2>1, ReadingsWorsen DEF CpuChecks, MemoryChecks, Counters
    <2>5. WorseDisks(m, n)
        BY <2>1, <2>2, <2>3 DEF WorseDisks, Get
    <2> QED BY <1>3, <2>1, <2>4, <2>5, NothingWorsens DEF WorseMetrics, m, n
<1>7. CASE c = "network"
    <2>1. DOMAIN m = {"close_wait", "syn_recv", "dns_healthy", "interfaces"} /\ DOMAIN n = DOMAIN m
          /\ m.close_wait = l["count"] /\ n.close_wait = k["count"]
          /\ m.syn_recv = l["count"] /\ n.syn_recv = k["count"]
        BY <1>7 DEF SnapshotsAt, Ok
    <2>2. m.dns_healthy = (l["count"] = 0) /\ n.dns_healthy = (k["count"] = 0)
        BY <1>7 DEF SnapshotsAt, Ok
    <2>3. /\ DOMAIN m.interfaces = {"eth0"} /\ DOMAIN n.interfaces = {"eth0"}
          /\ NotAbove(m.interfaces["eth0"].pps, n.interfaces["eth0"].pps)
          /\ NotAbove(m.interfaces["eth0"].error_rate, n.interfaces["eth0"].error_rate)
          /\ NotAbove(m.interfaces["eth0"].drop_rate, n.interfaces["eth0"].drop_rate)
        BY <1>1, <1>7 DEF SnapshotsAt, Ok, ReadingNames
    <2> HIDE DEF m, n
    <2>4. WorseReadings(m, n)
        BY <1>1, <2>1, ReadingsWorsen DEF ReadingNames, CpuChecks, MemoryChecks, Counters
    <2>5. k["count"] = 0 => l["count"] = 0
        BY <1>1 DEF ReadingNames
    <2>6. Implied(n.dns_healthy, m.dns_healthy)
        BY <2>2, <2>5 DEF Implied
    <2>7. WorseNetwork(m, n)
        BY <2>1, <2>3, <2>6 DEF WorseNetwork, Get
    <2> QED BY <1>3, <2>1, <2>4, <2>7, NothingWorsens DEF WorseMetrics, m, n
<1>8. CASE c = "process"
    <2>1. DOMAIN m = {"zombie", "disk_sleep"} /\ DOMAIN n = DOMAIN m
          /\ m.zombie = l["count"] /\ n.zombie = k["count"]
          /\ m.disk_sleep = l["band"] /\ n.disk_sleep = k["band"]
        BY <1>8 DEF SnapshotsAt, Ok
    <2> HIDE DEF m, n
    <2>2. WorseReadings(m, n)
        BY <1>1, <2>1, ReadingsWorsen DEF ReadingNames
    <2> QED BY <1>3, <2>1, <2>2, NothingWorsens DEF WorseMetrics, m, n
<1>9. CASE c = "ec2"
    <2>1. DOMAIN m = {"is_ec2", "spot_scheduled"} /\ DOMAIN n = DOMAIN m
          /\ m.is_ec2 = TRUE /\ n.is_ec2 = TRUE
          /\ m.spot_scheduled = (l["count"] = 2) /\ n.spot_scheduled = (k["count"] = 2)
        BY <1>9 DEF SnapshotsAt, Ok
    <2> HIDE DEF m, n
    <2>2. WorseReadings(m, n)
        BY <2>1, ReadingsWorsen DEF CpuChecks, MemoryChecks, Counters
    <2>3. l["count"] = 2 => k["count"] = 2
        BY <1>1 DEF ReadingNames, NotAbove
    <2>4. Implied(m.is_ec2, n.is_ec2) /\ Implied(m.spot_scheduled, n.spot_scheduled)
        BY <2>1, <2>3 DEF Implied
    <2>5. WorseEvents(m, n)
        BY <2>1, <2>4 DEF WorseEvents, Get
    <2> QED BY <1>3, <2>1, <2>2, <2>5, NothingWorsens DEF WorseMetrics, m, n
<1>10. CASE c = "system_events"
    <2>1. DOMAIN m = {"oom_kill_count_new", "new_kernel_errors", "failed_systemd_units", "psi_available", "psi"}
          /\ DOMAIN n = DOMAIN m
          /\ m.oom_kill_count_new = l["count"] /\ n.oom_kill_count_new = k["count"]
          /\ m.new_kernel_errors = l["count"] /\ n.new_kernel_errors = k["count"]
          /\ m.failed_systemd_units = n.failed_systemd_units /\ n.psi_available = TRUE
        BY <1>10 DEF SnapshotsAt, Ok
    <2>2. /\ m.psi["cpu"].some = -1 /\ n.psi["cpu"].some = -1
          /\ m.psi["memory"].some = Line(l["some"]) /\ n.psi["memory"].some = Line(k["some"])
          /\ m.psi["memory"].full = l["full"] /\ n.psi["memory"].full = k["full"]
          /\ m.psi["io"].some = -1 /\ n.psi["io"].some = -1
          /\ m.psi["io"].full = Line(l["full"]) /\ n.psi["io"].full = Line(k["full"])
        BY <1>10 DEF SnapshotsAt, Ok, NoLines
    <2> HIDE DEF m, n
    <2>3. WorseReadings(m, n)
        BY <1>1, <2>1, ReadingsWorsen DEF ReadingNames, CpuChecks, MemoryChecks, Counters
    <2>4. \A r \in ReadingNames : NotAbove(Line(l[r]), Line(k[r]))
        BY <1>1 DEF Line, NotAbove
    <2>5. WorsePressure(m.psi, n.psi)
        BY <1>1, <1>2, <2>2, <2>4 DEF WorsePressure, ReadingNames
    <2>6. WorseEvents(m, n)
        BY <2>1, <2>5 DEF WorseEvents, Get, Implied
    <2> QED BY <1>3, <2>1, <2>3, <2>6, NothingWorsens DEF WorseMetrics, m, n
<1>11. CASE c = "app_health"
    <2>1. DOMAIN m = {"checks"} /\ DOMAIN n = {"checks"}
          /\ DOMAIN m.checks = 1..2 /\ DOMAIN n.checks = 1..2
        BY <1>11 DEF SnapshotsAt, Ok
    <2>2. /\ m.checks[1].healthy = (l["count"] = 0) /\ n.checks[1].healthy = (k["count"] = 0)
          /\ m.checks[2].healthy = FALSE /\ n.checks[2].healthy = FALSE
        BY <1>11 DEF SnapshotsAt, Ok
    <2>3. /\ m.checks[1].name = n.checks[1].name /\ m.checks[2].name = n.checks[2].name
          /\ m.checks[1].consecutive_failures = l["count"] /\ n.checks[1].consecutive_failures = k["count"]
          /\ m.checks[2].consecutive_failures = 2 /\ n.checks[2].consecutive_failures = 2
        BY <1>11 DEF SnapshotsAt, Ok
    <2> HIDE DEF m, n
    <2>4. WorseReadings(m, n)
        BY <2>1, ReadingsWorsen DEF CpuChecks, MemoryChecks, Counters
    <2>5. k["count"] = 0 => l["count"] = 0
        BY <1>1 DEF ReadingNames
    <2>6. \A i \in 1..2 : Implied(n.checks[i].healthy, m.checks[i].healthy)
        <3>1. Implied(n.checks[1].healthy, m.checks[1].healthy)
            BY <2>2, <2>5, Zenon DEF Implied
        <3>2. Implied(n.checks[2].healthy, m.checks[2].healthy)
            BY <2>2, Zenon DEF Implied
        <3> QED BY <3>1, <3>2
    <2>7. \A i \in 1..2 : /\ m.checks[i].name = n.checks[i].name
                         /\ NotAbove(m.checks[i].consecutive_failures, n.checks[i].consecutive_failures)
        BY <1>1, <1>2, <2>3 DEF ReadingNames
    <2>8. WorseHealth(m, n)
        BY <2>1, <2>6, <2>7 DEF WorseHealth, Get
    <2> QED BY <1>3, <2>1, <2>4, <2>8, NothingWorsens DEF WorseMetrics, m, n
<1> QED BY <1>4, <1>5, <1>6, <1>7, <1>8, <1>9, <1>10, <1>11 DEF Collectors

Levels == level \in [ReadingNames -> 0..2] /\ list = Evaluate(SnapshotsAt(level))

(***************************************************************************)
(* A step that worsens a reading of the model lowers no subject's          *)
(* severity, whatever the configuration.                                   *)
(***************************************************************************)
THEOREM WorseNeverBetter == Spec => WorseIsNotBetter
<1>1. Init => Levels
    BY DEF Init, Levels
<1>2. Levels /\ [Next]_mcVars => Levels'
    BY DEF Levels, Next, Worsen, Improve, Change, mcVars
<1> DEFINE Kept == (\E r \in ReadingNames : level'[r] > level[r]) =>
                      \A d \in list : \E e \in list' :
                          Subject(e[2]) = Subject(d[2]) /\ e[2].severity >= d[2].severity
<1>3. ASSUME Levels, Next PROVE Kept
    <2> SUFFICES ASSUME NEW q \in ReadingNames, level'[q] > level[q]
                 PROVE  Covered(list, list')
        BY DEF Covered
    <2>1. PICK r \in ReadingNames, n \in 0..2 :
             level' = [level EXCEPT ![r] = n] /\ list' = Evaluate(SnapshotsAt(level'))
        BY <1>3 DEF Next, Worsen, Improve, Change
    <2>2. level' \in [ReadingNames -> 0..2] /\ \A s \in ReadingNames : level[s] <= level'[s]
        BY <1>3, <2>1 DEF Levels
    <2>3. Worse(SnapshotsAt(level), SnapshotsAt(level'))
        BY <1>3, <2>2, LevelsWorsen DEF Levels
    <2> QED BY <1>3, <2>1, <2>3, EvaluateMonotone DEF Levels
<1>4. Levels /\ [Next]_mcVars => [Kept]_mcVars
    BY <1>3
<1> QED BY <1>1, <1>2, <1>4, PTL DEF Spec, WorseIsNotBetter
=============================================================================
