--------------------------- MODULE KernelCounters ---------------------------
(***************************************************************************)
(* The collectors that subtract the counters they read last time           *)
(* (src/guardian/collector/cpu.py, memory.py, disk.py, network.py): rates, *)
(* whose counters and whose time are remembered apart, and the OOM kills   *)
(* of /proc/vmstat.  Counters themselves are left out: what matters of a   *)
(* rate is the stretch of time its numerator spans and its denominator.    *)
(***************************************************************************)
EXTENDS Integers

CONSTANTS
    MaxKills,       \* bound: OOM kills of the machine
    MaxAge          \* bound: ages beyond it are not told apart

ASSUME CountersAssumption == MaxKills \in Nat /\ MaxAge \in Nat

Never == -1         \* nothing remembered yet

VARIABLES
    kills,          \* OOM kills since the machine's boot
    prevKills,      \* _prev_oom_kills
    newKills,       \* oom_kill_count_new of the snapshot
    killsMisread,   \* history: /proc/vmstat could not be read once
    firstKills,     \* history: what the first reading found
    toldKills,      \* history: the sum of the snapshots' new kills
    countersAge,    \* age of _prev_io, _prev_net, _prev_stats, _prev_swap_*
    snmpAge,        \* age of network's _prev_snmp; Never: it holds zeros
    timeAge,        \* age of _prev_time
    span,           \* of the snapshot's rates: <<numerator, denominator>>
    tcpSpan,        \* of its TCP rates, the same
    misread         \* history: the last time was stored without its counters

killVars == <<kills, prevKills, newKills, killsMisread, firstKills, toldKills>>
rateVars == <<countersAge, snmpAge, timeAge, span, tcpSpan, misread>>

Ages == {Never} \cup 0..MaxAge
NoRate == <<0, 0>>

CountersTypeOK ==
    /\ kills \in 0..MaxKills /\ prevKills \in 0..kills /\ newKills \in 0..kills
    /\ firstKills \in 0..kills
    /\ countersAge \in Ages /\ snmpAge \in Ages /\ timeAge \in Ages
    /\ span \in Ages \X Ages /\ tcpSpan \in Ages \X Ages
    /\ killsMisread \in BOOLEAN /\ misread \in BOOLEAN

CountersInit ==
    /\ kills = 0 /\ prevKills = 0 /\ newKills = 0 /\ firstKills = 0 /\ toldKills = 0
    /\ killsMisread = FALSE
    /\ countersAge = Never /\ snmpAge = Never /\ timeAge = Never
    /\ span = NoRate /\ tcpSpan = NoRate
    /\ misread = FALSE

Older(age) == IF age = Never \/ age = MaxAge THEN age ELSE age + 1

OomKill ==
    /\ kills < MaxKills
    /\ kills' = kills + 1
    /\ UNCHANGED <<prevKills, newKills, killsMisread, firstKills, toldKills, rateVars>>

Difference(n) == n          \* mutant: no max(0, ...)

PositivePart(n) == IF n > 0 THEN n ELSE 0

NextPrevKept(read) ==       \* mutant: only the first reading is remembered
    IF timeAge = Never THEN read ELSE prevKills

NextPrev(read) == read

(* _parse_oom_kills returns 0 when it cannot read.                         *)
CountKills ==
    \E read \in {kills, 0} :
        /\ newKills' = IF timeAge = Never THEN 0 ELSE PositivePart(read - prevKills)
        /\ firstKills' = IF timeAge = Never THEN read ELSE firstKills
        /\ prevKills' = NextPrev(read)
        /\ killsMisread' = (killsMisread \/ read # kills)
        /\ toldKills' = IF killsMisread' THEN toldKills ELSE toldKills + newKills'
        /\ UNCHANGED kills

Remembered == IF countersAge = Never \/ timeAge = Never THEN NoRate ELSE <<countersAge, timeAge>>

(* _parse_proc_net_snmp returns zeros when it cannot read: no rate now, and *)
(* next time one that counts from the machine's boot.                      *)
ReadSnmp ==
    \E answered \in BOOLEAN :
        /\ tcpSpan' = IF answered /\ timeAge # Never THEN <<snmpAge, timeAge>> ELSE NoRate
        /\ snmpAge' = IF answered THEN 0 ELSE Never
        /\ misread' = ~answered

NoSnmp == tcpSpan' = NoRate /\ misread' = FALSE /\ UNCHANGED snmpAge

CountersRead ==
    /\ span' = Remembered
    /\ countersAge' = 0 /\ timeAge' = 0

NoRates == span' = NoRate /\ tcpSpan' = NoRate

SnapshotFailsTimed ==       \* mutant: the time is stored before what may raise
    NoRates /\ timeAge' = 0 /\ UNCHANGED <<countersAge, snmpAge, misread>>

(* A call of psutil raises, before anything is stored.                     *)
SnapshotFails == NoRates /\ UNCHANGED <<countersAge, snmpAge, timeAge, misread>>

(* The disks' counters have a handler of their own, inside the collection; *)
(* they may also be none.                                                  *)
IoFails ==
    /\ NoRates
    /\ timeAge' = 0
    /\ misread' = TRUE
    /\ UNCHANGED <<countersAge, snmpAge>>

CollectCounters(c) ==
    \/ /\ CountersRead
       /\ IF c = "network" THEN ReadSnmp ELSE NoSnmp
       /\ IF c = "memory" THEN CountKills ELSE UNCHANGED killVars
    \/ /\ SnapshotFails
       /\ newKills' = 0 /\ UNCHANGED <<kills, prevKills, killsMisread, firstKills, toldKills>>
    \/ c = "disk" /\ IoFails /\ UNCHANGED killVars

(* An interval later, and a snapshot that has no rates yet.                *)
CountersAge ==
    /\ countersAge' = Older(countersAge) /\ snmpAge' = Older(snmpAge) /\ timeAge' = Older(timeAge)
    /\ NoRates
    /\ UNCHANGED <<killVars, misread>>

-----------------------------------------------------------------------------
(***************************************************************************)
(* As long as the kernel's counter can be read, each OOM kill that follows *)
(* the first collection is reported as new by exactly one snapshot,        *)
(* whatever other parts of collections fail (MemoryCollector.collect).     *)
(***************************************************************************)
KillsCountedOnce ==
    timeAge # Never /\ ~killsMisread => toldKills = prevKills - firstKills

(***************************************************************************)
(* A rate divides what was counted in a stretch of time by that stretch,   *)
(* also after collections that failed.  There are two exceptions, both     *)
(* right after a collection that stored its time but could not read its    *)
(* counters: a disk's rates are then of more than one interval (disk.py    *)
(* stores _prev_time either way), and the network's TCP rates are of all   *)
(* that was counted since boot (network.py stores zeros as _prev_snmp).    *)
(***************************************************************************)
RatesSpanOneInterval ==
    [][ /\ span'[1] = span'[2] \/ (misread /\ span'[1] > span'[2])
        /\ tcpSpan'[1] = tcpSpan'[2] \/ (misread /\ tcpSpan'[1] = Never) ]_rateVars
=============================================================================
