---------------------------- MODULE MetricStore ----------------------------
(***************************************************************************)
(* SQLiteStore of src/guardian/storage/sqlite_store.py: three tables in a  *)
(* database that outlives the daemon, and the connection of the daemon's   *)
(* main thread, the only one that writes.                                  *)
(*                                                                         *)
(* A row is the time it was written at, its timestamp and what it says of  *)
(* a baseline.  Every method swallows its errors.  A statement that fails  *)
(* leaves the transaction open, or SQLite rolls it back.                   *)
(***************************************************************************)
EXTENDS Naturals

CONSTANTS SnapshotTicks, AlertTicks, BaselineTicks,  \* how long rows are retained
          MaxFaults                                  \* statements that fail, at most

ASSUME RetentionAssumption ==
    /\ {SnapshotTicks, AlertTicks, BaselineTicks} \subseteq Nat
    /\ MaxFaults \in Nat

VARIABLES
    disk,       \* the database as others, and the next daemon, see it
    open,       \* as the daemon's connection sees it, with what is not committed
    faults      \* statements that failed

storeVars == <<disk, open, faults>>

Tables == {"metric_snapshots", "alerts", "baselines"}
NoRows == [t \in Tables |-> {}]

StoreInit == disk = NoRows /\ open = NoRows /\ faults = 0

Fault == faults < MaxFaults /\ faults' = faults + 1

WrittenUncommitted(db) == open' = db /\ UNCHANGED <<disk, faults>>     \* mutant: no commit

Written(db) == open' = db /\ disk' = db /\ UNCHANGED faults

Failed(some) == Fault /\ open' \in some \cup {open, disk} /\ UNCHANGED disk

With(table, row) == [open EXCEPT ![table] = @ \cup {row}]

(* insert_snapshot, insert_alert and insert_baseline: one statement and    *)
(* its commit, either of which may fail.                                   *)
Insert(table, row) == Written(With(table, row))
InsertFails(table, row) == Failed({With(table, row)})

(* get_latest_baseline *)
Latest(rows) == CHOOSE r \in rows : \A o \in rows : o.id <= r.id

Ticks(table) ==
    CASE table = "metric_snapshots" -> SnapshotTicks
      [] table = "alerts" -> AlertTicks
      [] table = "baselines" -> BaselineTicks

Kept(table, now) == { r \in open[table] : r.at + Ticks(table) >= now }

(* prune_old_data: a statement for each table, in this order, one commit.  *)
AfterDeletes(n, now) ==
    LET first == CASE n = 0 -> {} [] n = 1 -> {"metric_snapshots"}
                   [] n = 2 -> {"metric_snapshots", "alerts"} [] n = 3 -> Tables
    IN  [t \in Tables |-> IF t \in first THEN Kept(t, now) ELSE open[t]]

Prune(now) == Written(AfterDeletes(3, now))
PruneFails(now) == Failed({ AfterDeletes(n, now) : n \in 1..3 })

(* The process ends: what is not committed is gone.                        *)
Disconnect == open' = disk /\ UNCHANGED <<disk, faults>>
=============================================================================
