-------------------------- MODULE DaemonLifetimes --------------------------
(***************************************************************************)
(* The daemon's cycles and its daily maintenance, from one life of its     *)
(* process to the next: _load_intelligence, _run_cycle and                 *)
(* _run_maintenance_if_due of src/guardian/main.py, with the database and  *)
(* a baseline.  It can be killed between any two steps; only the database  *)
(* survives.  Time is counted in ticks, of which maintenance waits some.   *)
(***************************************************************************)
EXTENDS MetricStore, Baselines

CONSTANTS MaintenanceTicks,  \* _MAINTENANCE_INTERVAL
          Readings,          \* of the metric
          MaxClock, MaxCycles, MaxKills

ASSUME LifetimesAssumption ==
    /\ MaintenanceTicks \in Nat \ {0} /\ {MaxClock, MaxCycles, MaxKills} \subseteq Nat
    /\ Readings \subseteq Nat

NoReading == -1

VARIABLES
    pc,         \* "down", or where the main thread is in its cycle
    clock,
    kills,      \* how often the process ended
    cycle,      \* cycles of all lives; the last one's rows have its number
    reading,    \* of this cycle, or NoReading
    lastMaintenance,
    happened,   \* history: the rows of all snapshots collected and alerts sent
    excused,    \* history: rows that a fault or a kill kept from the database
    overdue,    \* history: the last maintenance that was due did not prune
    known,      \* history: a baseline is in the database, or should be
    taken       \* history: the readings the baseline has taken in

lifeVars == <<pc, clock, kills, cycle, reading, lastMaintenance>>
recordVars == <<happened, excused, overdue, known, taken>>
lifetimeVars == <<storeVars, window, lifeVars, recordVars>>

Recorded == {"metric_snapshots", "alerts"}
Row == [id |-> cycle, at |-> clock]
Never == -MaintenanceTicks

LifetimesTypeOK ==
    /\ pc \in {"down", "collect", "store", "evaluate", "record", "maintain", "flush", "asleep"}
    /\ clock \in 0..MaxClock /\ kills \in 0..MaxKills /\ cycle \in 0..MaxCycles /\ faults \in 0..MaxFaults
    /\ reading \in Readings \cup {NoReading}
    /\ lastMaintenance \in {Never} \cup 0..clock
    /\ window \in Seq(Int) /\ Len(window) <= WindowSize
    /\ \A db \in {disk, open} : \A t \in Tables, r \in UNION {db[u] : u \in Tables} :
          r.id \in 1..cycle /\ r.at \in 0..clock /\ (r \in db["baselines"] => r.samples >= MinSamples)
    /\ overdue \in BOOLEAN /\ known \in BOOLEAN /\ taken \subseteq Readings

LifetimesInit ==
    /\ StoreInit /\ window = <<>>
    /\ pc = "down" /\ clock = 0 /\ kills = 0 /\ cycle = 0 /\ reading = NoReading /\ lastMaintenance = Never
    /\ happened = [t \in Recorded |-> {}] /\ excused = [t \in Recorded |-> {}]
    /\ overdue = FALSE /\ known = FALSE /\ taken = {}

-----------------------------------------------------------------------------
Goes(from, to) == pc = from /\ pc' = to

(* The constructor: the tables are there, the baselines are loaded.        *)
Boot ==
    /\ Goes("down", "collect") /\ cycle < MaxCycles
    /\ window' = IF disk["baselines"] = {} THEN <<>> ELSE LoadedTwice(Latest(disk["baselines"]))
    /\ UNCHANGED <<storeVars, clock, kills, cycle, reading, lastMaintenance, recordVars>>

Collect ==
    /\ Goes("collect", "store")
    /\ cycle' = cycle + 1
    /\ reading' \in Readings \cup {NoReading}
    /\ UNCHANGED <<storeVars, window, clock, kills, lastMaintenance, recordVars>>

(* A row that is to be written; it is excused if it may not get there.     *)
Happens(table) == happened' = [happened EXCEPT ![table] = @ \cup {Row}]
Excuse(table) == excused' = [excused EXCEPT ![table] = @ \cup {Row}]

StoreSnapshot ==
    /\ Goes("store", "evaluate")
    /\ Happens("metric_snapshots")
    /\ \/ Insert("metric_snapshots", Row) /\ UNCHANGED excused
       \/ InsertFails("metric_snapshots", Row) /\ Excuse("metric_snapshots")
    /\ UNCHANGED <<window, clock, kills, cycle, reading, lastMaintenance, overdue, known, taken>>

(* BaselineEngine.update *)
UpdateBaseline ==
    IF reading = NoReading
    THEN UNCHANGED <<window, taken>>
    ELSE window' = Pushed(window, reading) /\ taken' = taken \cup {reading}

Due == clock - lastMaintenance >= MaintenanceTicks

(* The detectors, the router and the channels; an alert is sent or none.   *)
Evaluate ==
    /\ UpdateBaseline
    /\ reading' = NoReading
    /\ \/ Goes("evaluate", "record") /\ Happens("alerts")
       \/ Goes("evaluate", "maintain") /\ UNCHANGED happened
    /\ UNCHANGED <<storeVars, clock, kills, cycle, lastMaintenance, excused, overdue, known>>

(* An exception skips the rest of the cycle and the maintenance.           *)
CycleFails ==
    /\ Goes("evaluate", "asleep")
    /\ UpdateBaseline \/ UNCHANGED <<window, taken>>
    /\ reading' = NoReading
    /\ overdue' = (overdue \/ Due)
    /\ UNCHANGED <<storeVars, clock, kills, cycle, lastMaintenance, happened, excused, known>>

RecordAlert ==
    /\ Goes("record", "maintain")
    /\ \/ Insert("alerts", Row) /\ UNCHANGED excused
       \/ InsertFails("alerts", Row) /\ Excuse("alerts")
    /\ UNCHANGED <<window, clock, kills, cycle, reading, lastMaintenance, happened, overdue, known, taken>>

-----------------------------------------------------------------------------
(* _run_maintenance_if_due.  prune_old_data does not say that it failed,   *)
(* and the next attempt is a day later either way.                         *)
NotDue ==
    /\ Goes("maintain", "asleep") /\ ~Due
    /\ UNCHANGED <<storeVars, window, clock, kills, cycle, reading, lastMaintenance, recordVars>>

PruneOldData ==
    /\ Goes("maintain", "flush") /\ Due
    /\ \/ Prune(clock) /\ overdue' = FALSE
       \/ PruneFails(clock) /\ overdue' = TRUE
    /\ UNCHANGED <<window, clock, kills, cycle, reading, lastMaintenance, happened, excused, known, taken>>

FlushBaseline ==
    /\ Goes("flush", "asleep")
    /\ lastMaintenance' = clock
    /\ LET row == RowOf(window, cycle, clock) IN
       \/ ~Flushes(window) /\ UNCHANGED <<storeVars, known>>
       \/ Flushes(window) /\ Insert("baselines", row) /\ known' = TRUE
       \/ Flushes(window) /\ InsertFails("baselines", row) /\ known' = FALSE
    /\ UNCHANGED <<window, clock, kills, cycle, reading, happened, excused, overdue, taken>>

Wake ==
    /\ Goes("asleep", "collect") /\ cycle < MaxCycles
    /\ clock' \in clock..(clock + 1) /\ clock' <= MaxClock
    /\ UNCHANGED <<storeVars, window, kills, cycle, reading, lastMaintenance, recordVars>>

(* The process ends, between two cycles or in the middle of one; after a   *)
(* prune that deleted the last baseline nothing is left of it.             *)
Killed ==
    /\ pc # "down" /\ pc' = "down" /\ kills < MaxKills /\ kills' = kills + 1
    /\ Disconnect
    /\ IF pc = "record" THEN Excuse("alerts") ELSE UNCHANGED excused
    /\ known' = (known /\ (pc = "flush" => disk["baselines"] # {}))
    /\ overdue' = TRUE
    /\ window' = <<>> /\ lastMaintenance' = Never /\ reading' = NoReading
    /\ UNCHANGED <<clock, cycle, happened, taken>>

TimeGoesBy ==
    /\ pc = "down" /\ clock < MaxClock /\ clock' = clock + 1
    /\ UNCHANGED <<storeVars, window, pc, kills, cycle, reading, lastMaintenance, recordVars>>

LifetimesNext ==
    \/ Boot \/ Collect \/ StoreSnapshot \/ Evaluate \/ CycleFails \/ RecordAlert
    \/ NotDue \/ PruneOldData \/ FlushBaseline \/ Wake \/ Killed \/ TimeGoesBy

LifetimesSpec == LifetimesInit /\ [][LifetimesNext]_lifetimeVars

-----------------------------------------------------------------------------
(***************************************************************************)
(* Through failing statements and kills: no alert is in the database that  *)
(* was not sent; what was collected or sent is there as long as its table  *)
(* retains it, unless its own insert failed or the daemon was killed right *)
(* before; and after a maintenance nothing is there that is older than its *)
(* retention by a maintenance interval or more (sqlite_store.py,           *)
(* _run_cycle, _run_maintenance_if_due).                                   *)
(***************************************************************************)
InHand(t, r) == t = "alerts" /\ pc = "record" /\ r.id = cycle

HistoryKept ==
    \A t \in Recorded :
        /\ disk[t] \subseteq happened[t]
        /\ \A r \in happened[t] :
              r \in disk[t] \/ r \in excused[t] \/ InHand(t, r) \/ r.at + Ticks(t) < clock
        /\ pc = "asleep" /\ ~overdue =>
              \A r \in disk[t] : clock - r.at < Ticks(t) + MaintenanceTicks

(***************************************************************************)
(* Once a baseline has been flushed, every later life of the daemon has    *)
(* one that is ready from its start, unless a flush failed or a kill came  *)
(* between a prune and its flush; and neither seeding nor the means of     *)
(* means lead out of the range of what was read (load_from_store,          *)
(* flush_to_store, _run_maintenance_if_due).                               *)
(***************************************************************************)
WithinReadings(v) == \E lo, hi \in taken : lo <= v /\ v <= hi

WarmStart ==
    /\ pc # "down" /\ known => Ready(window)
    /\ \A v \in ToSet(window) \cup { r.mean : r \in disk["baselines"] } : WithinReadings(v)
=============================================================================
