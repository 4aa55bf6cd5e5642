--------------------------- MODULE CollectionCycle ---------------------------
(***************************************************************************)
(* A cycle of the daemon from its collectors to what it exposes:           *)
(* _collect_all and _run_cycle of src/guardian/main.py and the gauges of   *)
(* src/guardian/exposition/prometheus.py.                                  *)
(*                                                                         *)
(* The collectors run in a pool of threads.  The main thread awaits them   *)
(* one after the other, each with a timeout; what misses it is left out of *)
(* the cycle, but has been collected all the same: the pool is not left    *)
(* before its last thread is done.                                         *)
(*                                                                         *)
(* Collectors share no state, so one of them at a time is looked at, next  *)
(* to the process collector, which remembers nothing.                      *)
(***************************************************************************)
EXTENDS SystemEvents, KernelCounters, AppHealth, Ec2Metadata

CONSTANTS
    Subjects,   \* the collectors to look at
    Configs     \* bound: configurations a reload may find, by what they label

RateCollectors == {"cpu", "memory", "disk", "network"}

ASSUME SubjectsAssumption ==
    Subjects \subseteq RateCollectors \cup {"ec2", "system_events", "app_health"}

(* The environment and the account's name are labels like instance_name;   *)
(* an empty aws_account_id is to be detected.                              *)
ASSUME ConfigsAssumption ==
    Configs # {} /\ Configs \subseteq [instance_name : STRING, aws_account_id : STRING]

VARIABLES
    subject,    \* the collector that is looked at
    phase,      \* of the cycle: "idle", "collect", "evaluate" or "dispatch"
    running,    \* collectors whose thread is not done
    position,   \* of the future that is awaited
    gathered,   \* the collectors whose snapshot _collect_all has got
    exposing,   \* the Prometheus server has started
    config,     \* self.config
    cfg,        \* the configuration this cycle goes by
    labels,     \* _label_values
    spotGauge,  \* g_spot_interrupt: its series of these labels
    heard,      \* history: kernel messages that were evaluated
    lost,       \* history: those of snapshots that were not
    repeated    \* history: a message was new twice

poolVars == <<running, position, gathered>>
configVars == <<config, cfg>>
gaugeVars == <<exposing, labels, spotGauge>>
historyVars == <<heard, lost, repeated>>
collectorVars == <<eventVars, killVars, rateVars, healthVars, ec2Vars>>
cycleVars == <<subject, phase, poolVars, configVars, gaugeVars, historyVars, collectorVars>>

(* The order of _init_collectors: those with rates, process, the others.   *)
Pool == IF subject \in RateCollectors THEN <<subject, "process">> ELSE <<"process", subject>>

Labels ==
    [instance_id : InstanceIds,
     instance_name : {""} \cup {c.instance_name : c \in Configs},
     aws_account_id : Accounts \cup {c.aws_account_id : c \in Configs}]

NoLabels == [instance_id |-> "", instance_name |-> "", aws_account_id |-> ""]
Unset == -1

CycleTypeOK ==
    /\ EventsTypeOK /\ CountersTypeOK /\ HealthTypeOK /\ Ec2TypeOK
    /\ subject \in Subjects
    /\ phase \in {"idle", "collect", "evaluate", "dispatch"}
    /\ running \subseteq {subject, "process"} /\ gathered \subseteq {subject, "process"}
    /\ position \in 1..3
    /\ config \in Configs /\ cfg \in Configs
    /\ exposing \in BOOLEAN /\ labels \in Labels
    /\ spotGauge \in {Unset, 0, 1}
    /\ repeated \in BOOLEAN
    /\ \A k \in Kinds : heard[k] \cup lost[k] \subseteq 1..logged

(* The checks matter to the health collector, the configuration and the    *)
(* server to the spot gauge.                                               *)
CycleInit ==
    /\ EventsInit /\ CountersInit /\ HealthInit /\ Ec2Init
    /\ subject \in Subjects
    /\ phase = "idle" /\ running = {} /\ position = 1 /\ gathered = {}
    /\ subject # "app_health" => checks = CHOOSE l \in CheckLists : TRUE
    /\ config \in Configs /\ cfg = config
    /\ subject # "ec2" => config = CHOOSE c \in Configs : TRUE
    /\ exposing \in (IF subject = "ec2" THEN BOOLEAN ELSE {FALSE}) /\ labels = NoLabels
    /\ spotGauge = Unset
    /\ heard = Nothing /\ lost = Nothing /\ repeated = FALSE

-----------------------------------------------------------------------------
(* What happens on the machine.  It matters when a collector looks.        *)
Machine ==
    /\ phase = "idle"
    /\ \/ /\ subject = "system_events" /\ (KernelLogs \/ ClockSet)
          /\ UNCHANGED <<killVars, rateVars, healthVars, ec2Vars>>
       \/ /\ subject = "memory" /\ OomKill
          /\ UNCHANGED <<eventVars, healthVars, ec2Vars>>
       \/ /\ subject = "ec2" /\ SpotNotice
          /\ UNCHANGED <<eventVars, killVars, rateVars, healthVars>>
    /\ UNCHANGED <<subject, phase, poolVars, configVars, gaugeVars, historyVars>>

(* SIGHUP, on top of whatever the main thread is doing.                    *)
Reload ==
    /\ subject = "ec2"
    /\ config' \in Configs \ {config}
    /\ UNCHANGED <<subject, phase, poolVars, cfg, gaugeVars, historyVars, collectorVars>>

(* The interval has passed: _collect_all submits every collector.          *)
StartCycle ==
    /\ phase = "idle"
    /\ phase' = "collect"
    /\ running' = {subject, "process"} /\ position' = 1 /\ gathered' = {}
    /\ CountersAge /\ HealthAges /\ TokenAges
    /\ UNCHANGED <<subject, configVars, gaugeVars, historyVars, eventVars>>

CollectOf(c) ==
    \/ /\ c = "process"
       /\ UNCHANGED collectorVars
    \/ /\ c \in RateCollectors /\ CollectCounters(c)
       /\ UNCHANGED <<eventVars, healthVars, ec2Vars>>
    \/ /\ c = "ec2" /\ CollectEc2
       /\ UNCHANGED <<eventVars, killVars, rateVars, healthVars>>
    \/ /\ c = "system_events" /\ CollectEvents
       /\ UNCHANGED <<killVars, rateVars, healthVars, ec2Vars>>
    \/ /\ c = "app_health" /\ CollectHealth
       /\ UNCHANGED <<eventVars, killVars, rateVars, ec2Vars>>

ThreadEnds(c) ==
    /\ c \in running
    /\ CollectOf(c)
    /\ running' = running \ {c}
    /\ UNCHANGED <<subject, phase, position, gathered, configVars, gaugeVars, historyVars>>

(* fut.result(timeout) *)
Await ==
    /\ phase = "collect" /\ position <= Len(Pool)
    /\ gathered' = IF Pool[position] \in running THEN gathered ELSE gathered \cup {Pool[position]}
    /\ position' = position + 1
    /\ UNCHANGED <<subject, phase, running, configVars, gaugeVars, historyVars, collectorVars>>

(* The rest of the cycle goes by the configuration of this time.           *)
LeavePool ==
    /\ phase = "collect" /\ position > Len(Pool) /\ running = {}
    /\ phase' = "evaluate"
    /\ cfg' = config
    /\ UNCHANGED <<subject, poolVars, config, gaugeVars, historyVars, collectorVars>>

EventsReach(them) ==
    /\ heard' = [k \in Kinds |-> heard[k] \cup IF them THEN news[k] ELSE {}]
    /\ lost' = [k \in Kinds |-> lost[k] \cup IF them THEN {} ELSE news[k]]
    /\ repeated' = (repeated \/ \E k \in Kinds : news[k] \cap (heard[k] \cup lost[k] \cup backlog[k]) # {})

CycleFails ==
    /\ phase = "evaluate" /\ phase' = "idle"
    /\ IF subject = "system_events" THEN EventsReach(FALSE) ELSE UNCHANGED historyVars
    /\ UNCHANGED <<subject, poolVars, configVars, gaugeVars, collectorVars>>

InstanceId == IF "ec2" \in gathered THEN metadata.instance_id ELSE ""

Detected == IF "ec2" \in gathered THEN metadata.aws_account_id ELSE ""

AccountByConfigNow ==   \* mutant: resolve_account is given self.config
    IF config.aws_account_id # "" THEN config.aws_account_id ELSE Detected

Account == IF cfg.aws_account_id # "" THEN cfg.aws_account_id ELSE Detected

LabelsNow ==
    [instance_id |-> InstanceId, instance_name |-> cfg.instance_name, aws_account_id |-> Account]

SpotValue == IF "ec2" \in gathered /\ metadata.scheduled THEN 1 ELSE 0

(* update, whose gauges have the labels of this cycle; the spot gauge is   *)
(* set without a snapshot, too.  The series of other labels stay with what *)
(* they were last set to, for good, and are not kept here.                 *)
Expose ==
    /\ labels' = LabelsNow
    /\ spotGauge' = SpotValue
    /\ UNCHANGED exposing

Evaluated ==
    /\ phase = "evaluate" /\ phase' = "dispatch"
    /\ IF subject = "system_events" THEN EventsReach("system_events" \in gathered)
                                    ELSE UNCHANGED historyVars
    /\ IF exposing THEN Expose ELSE UNCHANGED gaugeVars
    /\ UNCHANGED <<subject, poolVars, configVars, collectorVars>>

Dispatched ==
    /\ phase = "dispatch" /\ phase' = "idle"
    /\ UNCHANGED <<subject, poolVars, configVars, gaugeVars, historyVars, collectorVars>>

CycleNext ==
    \/ Machine \/ Reload \/ StartCycle \/ (\E c \in running : ThreadEnds(c)) \/ Await \/ LeavePool
    \/ CycleFails \/ Evaluated \/ Dispatched

CycleSpec == CycleInit /\ [][CycleNext]_cycleVars

-----------------------------------------------------------------------------
(***************************************************************************)
(* As long as no set was cut and nobody set the clock, a kernel message is *)
(* new in one snapshot at most, and never if dmesg printed it for the      *)
(* first (collect of system_events.py; the timeouts of the pool do not     *)
(* undo what a late thread has remembered).                                *)
(***************************************************************************)
EventsHeardOnce == forgotten \/ ~repeated

(***************************************************************************)
(* Whatever dmesg prints after the first collection is evaluated, or was   *)
(* reported by a snapshot that came too late or whose cycle failed, even   *)
(* when dmesg fails in the first collection or between two others.         *)
(***************************************************************************)
NoEventMissed ==
    phase = "dispatch" =>
        \A k \in Kinds : shown[k] \subseteq backlog[k] \cup heard[k] \cup lost[k]

(***************************************************************************)
(* A spot interruption that the metadata service announces is in the       *)
(* snapshot of every collection it answers, however old the token, and the *)
(* gauge of the cycle's labels says what the snapshot says, also when      *)
(* there is none (ec2.py, _update_ec2).                                    *)
(***************************************************************************)
SpotNoticeShown ==
    phase = "dispatch" =>
        /\ "ec2" \in gathered /\ reached => metadata.scheduled = (SpotCheck /\ notice)
        /\ exposing => (spotGauge = 1 <=> "ec2" \in gathered /\ metadata.scheduled)

(***************************************************************************)
(* The names and the account of a series are of one configuration, however *)
(* a reload falls into the cycle that sets it: an account that is          *)
(* configured is never exposed under another configuration's names, and    *)
(* one that is detected only where none is configured (_run_cycle's cfg,   *)
(* resolve_account).                                                       *)
(***************************************************************************)
SeriesOf(c) ==
    {l \in Labels :
        /\ l.instance_name = c.instance_name
        /\ IF c.aws_account_id = "" THEN l.aws_account_id \in Accounts
                                    ELSE l.aws_account_id = c.aws_account_id}

SeriesOfOneConfig ==
    spotGauge # Unset => \E c \in Configs : labels \in SeriesOf(c)
=============================================================================
