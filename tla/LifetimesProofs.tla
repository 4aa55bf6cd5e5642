--------------------------- MODULE LifetimesProofs ---------------------------
(***************************************************************************)
(* Proofs about the history in the database: whatever statements fail and  *)
(* whenever the daemon is killed, in any number of its lives, for every    *)
(* retention and every interval of maintenance.                            *)
(*                                                                         *)
(* HistoryKept looks at the database as it is on disk.  It is not          *)
(* inductive: a commit puts there what the connection sees, with the       *)
(* leftovers of earlier failures.  LifetimesInvariant says the same of     *)
(* both, and ties the age of their rows to the last maintenance.           *)
(***************************************************************************)
EXTENDS DaemonLifetimes, RecursionTheorems

(* Only what was collected or sent is there, and all of it that is due.    *)
Genuine(db) == \A t \in Recorded : db[t] \subseteq happened[t]

Missing(t, r) == r \in excused[t] \/ InHand(t, r) \/ r.at + Ticks(t) < clock

Complete(db) == \A t \in Recorded : \A r \in happened[t] : r \in db[t] \/ Missing(t, r)

(* The maintenance that has left nothing older than its retention.         *)
PrunedAt == IF pc = "flush" THEN clock ELSE lastMaintenance

Pruned(db) ==
    ~overdue => \A t \in Recorded : \A r \in db[t] : r.at + Ticks(t) >= PrunedAt

KeptIn(db) == DOMAIN db = Tables /\ Genuine(db) /\ Complete(db) /\ Pruned(db)

(* A cycle sends once, and its alert is in hand until it is recorded.      *)
SentOnce ==
    /\ \A t \in Recorded : \A r \in happened[t] : r.id \in Nat /\ r.at \in Nat /\ r.id <= cycle
    /\ pc \in {"store", "evaluate"} => \A r \in happened["alerts"] : r.id < cycle
    /\ pc = "record" =>
          /\ Row \in happened["alerts"]
          /\ \A r \in happened["alerts"] : r.id = cycle => r = Row

Clocks ==
    /\ clock \in Nat /\ cycle \in Nat
    /\ lastMaintenance \in Int /\ lastMaintenance <= clock
    /\ pc = "asleep" /\ ~overdue => clock - lastMaintenance < MaintenanceTicks

Recording ==
    /\ DOMAIN happened = Recorded /\ DOMAIN excused = Recorded
    /\ overdue \in BOOLEAN

LifetimesInvariant == Clocks /\ Recording /\ SentOnce /\ KeptIn(disk) /\ KeptIn(open)

-----------------------------------------------------------------------------
LEMMA Retention == \A t \in Recorded : t \in Tables /\ Ticks(t) \in Nat
BY RetentionAssumption DEF Recorded, Tables, Ticks

LEMMA LifetimesInitially == LifetimesInit => LifetimesInvariant
<1> SUFFICES ASSUME LifetimesInit PROVE LifetimesInvariant
    OBVIOUS
<1>1. disk = NoRows /\ open = NoRows /\ DOMAIN NoRows = Tables /\ \A t \in Recorded : NoRows[t] = {}
    BY Retention DEF LifetimesInit, StoreInit, NoRows
<1>2. /\ happened = [t \in Recorded |-> {}] /\ excused = [t \in Recorded |-> {}]
      /\ pc = "down" /\ clock = 0 /\ cycle = 0 /\ lastMaintenance = -MaintenanceTicks /\ overdue = FALSE
    BY DEF LifetimesInit, Never
<1>3. Clocks
    BY <1>2, LifetimesAssumption DEF Clocks
<1>4. Recording /\ SentOnce
    BY <1>2 DEF Recording, SentOnce, Recorded
<1>5. KeptIn(NoRows)
    BY <1>1, <1>2 DEF KeptIn, Genuine, Complete, Pruned
<1> QED BY <1>1, <1>3, <1>4, <1>5 DEF LifetimesInvariant

-----------------------------------------------------------------------------
(* The database through each kind of step. *)

(* Neither disk nor connection change; an alert that happened is in hand.  *)
LEMMA StoreUntouched ==
    ASSUME LifetimesInvariant, disk' = disk, open' = open, excused' = excused,
           clock' \in Nat, clock <= clock', PrunedAt' = PrunedAt,
           ~overdue' => ~overdue,
           \A t \in Recorded : happened[t] \subseteq happened'[t],
           \A t \in Recorded : \A r \in happened'[t] : r \in happened[t] \/ InHand(t, r)',
           \A t \in Recorded : \A r \in happened[t] : ~InHand(t, r)
    PROVE  KeptIn(disk)' /\ KeptIn(open)'
<1>1. \A db \in {disk, open} : DOMAIN db = Tables /\ Genuine(db) /\ Complete(db) /\ Pruned(db)
    BY DEF LifetimesInvariant, KeptIn
<1>2. Genuine(disk)' /\ Genuine(open)'
    BY <1>1 DEF Genuine
<1>3. ASSUME NEW db \in {disk, open}, NEW t \in Recorded, NEW r \in happened'[t], r \notin db[t]
      PROVE  r \in excused'[t] \/ InHand(t, r)' \/ r.at + Ticks(t) < clock'
    <2>1. CASE r \in happened[t]
        <3>1. r \in excused[t] \/ r.at + Ticks(t) < clock
            BY <1>1, <1>3, <2>1 DEF Complete, Missing
        <3>2. r.at \in Nat /\ Ticks(t) \in Nat /\ clock \in Nat
            BY <2>1, Retention DEF LifetimesInvariant, SentOnce, Clocks
        <3> QED BY <3>1, <3>2
    <2>2. CASE InHand(t, r)'
        BY <2>2
    <2> QED BY <2>1, <2>2
<1>4. Complete(disk)' /\ Complete(open)'
    BY <1>3 DEF Complete, Missing
<1>5. Pruned(disk)' /\ Pruned(open)'
    BY <1>1 DEF Pruned
<1> QED BY <1>1, <1>2, <1>4, <1>5 DEF KeptIn

(* What the database may hold when a row is inserted, and whether or not   *)
(* that is committed.                                                      *)
LEMMA RowInserted ==
    ASSUME LifetimesInvariant, NEW table \in Tables, NEW row,
           Insert(table, row) \/ InsertFails(table, row),
           Insert(table, row) \/ \A t \in Recorded : t = table => row \in excused'[t],
           clock' = clock, PrunedAt' = PrunedAt, PrunedAt \in Int, PrunedAt <= clock,
           overdue' = overdue,
           \A t \in Recorded :
               /\ happened[t] \subseteq happened'[t] /\ excused[t] \subseteq excused'[t]
               /\ t = table => row \in happened'[t] /\ row.at = clock
               /\ \A r \in happened'[t] : r \in happened[t] \/ (t = table /\ r = row)
               /\ \A r \in happened[t] : InHand(t, r) => t = table /\ r = row
    PROVE  KeptIn(disk)' /\ KeptIn(open)'
<1>1. \A db \in {disk, open} : DOMAIN db = Tables /\ Genuine(db) /\ Complete(db) /\ Pruned(db)
    BY DEF LifetimesInvariant, KeptIn
<1>2. /\ DOMAIN With(table, row) = Tables
      /\ \A t \in Tables : With(table, row)[t] = IF t = table THEN open[t] \cup {row} ELSE open[t]
    BY <1>1 DEF With
<1>3. /\ disk' \in {disk, With(table, row)}
      /\ open' \in {disk, open, With(table, row)}
      /\ \/ disk' = With(table, row) /\ open' = With(table, row)
         \/ \A t \in Recorded : t = table => row \in excused'[t]
    BY DEF Insert, InsertFails, Written, Failed
<1>4. ASSUME NEW db \in {disk, open, With(table, row)}
      PROVE  /\ DOMAIN db = Tables
             /\ \A t \in Recorded : db[t] \subseteq happened'[t]
             /\ ~overdue => \A t \in Recorded : \A r \in db[t] : r.at + Ticks(t) >= PrunedAt
    <2>1. DOMAIN db = Tables
        BY <1>1, <1>2
    <2>2. ASSUME NEW t \in Recorded, NEW r \in db[t]
          PROVE  r \in disk[t] \cup open[t] \/ (t = table /\ r = row)
        BY <1>2, <2>2, Retention
    <2>3. \A t \in Recorded : db[t] \subseteq happened'[t]
        BY <1>1, <2>2 DEF Genuine
    <2>4. ASSUME ~overdue, NEW t \in Recorded, NEW r \in db[t]
          PROVE  r.at + Ticks(t) >= PrunedAt
        <3>1. CASE r \in disk[t] \cup open[t]
            BY <1>1, <2>4, <3>1 DEF Pruned
        <3>2. CASE t = table /\ r = row
            <4>1. r.at = clock /\ clock \in Nat /\ Ticks(t) \in Nat
                BY <3>2, Retention DEF LifetimesInvariant, Clocks
            <4> QED BY <4>1
        <3> QED BY <2>2, <2>4, <3>1, <3>2
    <2> QED BY <2>1, <2>3, <2>4
<1>5. ASSUME NEW db \in {disk, open, With(table, row)}, NEW t \in Recorded, NEW r \in happened'[t],
             r \notin db[t],
             db = With(table, row) \/ \A u \in Recorded : u = table => row \in excused'[u]
      PROVE  r \in excused'[t] \/ r.at + Ticks(t) < clock'
    <2>1. CASE t = table /\ r = row
        BY <1>2, <1>5, <2>1
    <2>2. CASE r \in happened[t] /\ ~(t = table /\ r = row)
        <3>1. r \notin disk[t] \/ r \notin open[t]
            BY <1>2, <1>5, Retention
        <3>2. Missing(t, r) /\ ~InHand(t, r)
            BY <1>1, <2>2, <3>1 DEF Complete
        <3> QED BY <3>2 DEF Missing
    <2> QED BY <2>1, <2>2
<1>6. \A db \in {disk', open'} : db \in {disk, open, With(table, row)}
    BY <1>3
<1>7. Genuine(disk)' /\ Genuine(open)' /\ DOMAIN disk' = Tables /\ DOMAIN open' = Tables
    BY <1>4, <1>6 DEF Genuine
<1>8. Pruned(disk)' /\ Pruned(open)'
    BY <1>4, <1>6 DEF Pruned
<1>9. Complete(disk)' /\ Complete(open)'
    BY <1>3, <1>5, <1>6 DEF Complete, Missing
<1> QED BY <1>7, <1>8, <1>9 DEF KeptIn

(* Deleting what is past its retention, all of it or, in a transaction     *)
(* that is left open, some.                                                *)
LEMMA OldRowsDeleted ==
    ASSUME LifetimesInvariant, PruneOldData
    PROVE  KeptIn(disk)' /\ KeptIn(open)'
<1>1. \A db \in {disk, open} : DOMAIN db = Tables /\ Genuine(db) /\ Complete(db) /\ Pruned(db)
    BY DEF LifetimesInvariant, KeptIn
<1>2. /\ pc = "maintain" /\ pc' = "flush" /\ clock' = clock /\ cycle' = cycle
      /\ happened' = happened /\ excused' = excused /\ clock \in Nat
    BY DEF PruneOldData, Goes, LifetimesInvariant, Clocks
<1>3. /\ disk' \in {disk, AfterDeletes(3, clock)}
      /\ open' \in {disk, open} \cup {AfterDeletes(n, clock) : n \in 1..3}
      /\ ~overdue' => disk' = AfterDeletes(3, clock) /\ open' = AfterDeletes(3, clock)
    BY DEF PruneOldData, Prune, PruneFails, Written, Failed
<1>4. ASSUME NEW n \in 1..3, NEW t \in Tables
      PROVE  AfterDeletes(n, clock)[t] \in {open[t], Kept(t, clock)}
    BY <1>4 DEF AfterDeletes
<1>5. \A n \in 1..3 : DOMAIN AfterDeletes(n, clock) = Tables
    BY DEF AfterDeletes
<1>6. ASSUME NEW t \in Recorded, NEW r \in happened[t], r \notin Kept(t, clock)
      PROVE  r \notin open[t] \/ r.at + Ticks(t) < clock
    BY <1>2, <1>6, Retention DEF Kept, LifetimesInvariant, SentOnce
<1>7. ASSUME NEW db \in {disk, open} \cup {AfterDeletes(n, clock) : n \in 1..3}
      PROVE  /\ DOMAIN db = Tables
             /\ \A t \in Recorded : db[t] \subseteq happened[t]
             /\ \A t \in Recorded : \A r \in happened[t] :
                    r \in db[t] \/ r \in excused[t] \/ r.at + Ticks(t) < clock
    <2>1. ASSUME NEW t \in Recorded PROVE db[t] \in {disk[t], open[t], Kept(t, clock)}
        BY <1>4, <1>7, Retention
    <2>2. DOMAIN db = Tables
        BY <1>1, <1>5
    <2>3. \A t \in Recorded : db[t] \subseteq happened[t]
        BY <1>1, <2>1 DEF Genuine, Kept
    <2>4. ASSUME NEW t \in Recorded, NEW r \in happened[t], r \notin db[t]
          PROVE  r \in excused[t] \/ r.at + Ticks(t) < clock
        <3>1. r \notin disk[t] \/ r \notin open[t] \/ r.at + Ticks(t) < clock
            BY <1>6, <2>1, <2>4
        <3> QED BY <1>1, <1>2, <3>1 DEF Complete, Missing, InHand
    <2> QED BY <2>2, <2>3, <2>4
<1>8. \A db \in {disk', open'} : db \in {disk, open} \cup {AfterDeletes(n, clock) : n \in 1..3}
    BY <1>3
<1>9. DOMAIN disk' = Tables /\ DOMAIN open' = Tables /\ Genuine(disk)' /\ Genuine(open)'
    BY <1>2, <1>7, <1>8 DEF Genuine
<1>10. Complete(disk)' /\ Complete(open)'
    BY <1>2, <1>7, <1>8 DEF Complete, Missing
<1>11. Pruned(disk)' /\ Pruned(open)'
    <2> SUFFICES ASSUME ~overdue', NEW t \in Recorded, NEW r \in AfterDeletes(3, clock)[t]
                 PROVE  r.at + Ticks(t) >= clock
        BY <1>2, <1>3 DEF Pruned, PrunedAt
    <2>1. AfterDeletes(3, clock)[t] = Kept(t, clock)
        BY Retention DEF AfterDeletes
    <2> QED BY <2>1 DEF Kept
<1> QED BY <1>9, <1>10, <1>11 DEF KeptIn

(* A kill ends the transaction and excuses the alert in hand.              *)
LEMMA ProcessEnds ==
    ASSUME LifetimesInvariant, Killed
    PROVE  KeptIn(disk)' /\ KeptIn(open)'
<1>1. DOMAIN disk = Tables /\ Genuine(disk) /\ Complete(disk)
    BY DEF LifetimesInvariant, KeptIn
<1>2. /\ disk' = disk /\ open' = disk /\ happened' = happened /\ clock' = clock /\ overdue' = TRUE
      /\ \A t \in Recorded : excused[t] \subseteq excused'[t]
      /\ pc = "record" => excused' = [excused EXCEPT !["alerts"] = @ \cup {Row}]
    BY DEF Killed, Disconnect, Excuse, LifetimesInvariant, Recording
<1>3. ASSUME NEW t \in Recorded, NEW r \in happened[t], InHand(t, r)
      PROVE  r \in excused'[t]
    BY <1>2, <1>3 DEF InHand, LifetimesInvariant, SentOnce, Recording
<1>4. Complete(disk)'
    BY <1>1, <1>2, <1>3 DEF Complete, Missing
<1>5. Genuine(disk)' /\ Pruned(disk)'
    BY <1>1, <1>2 DEF Genuine, Pruned
<1>6. KeptIn(disk)'
    BY <1>1, <1>2, <1>4, <1>5 DEF KeptIn
<1> QED BY <1>2, <1>6 DEF KeptIn, Genuine, Complete, Pruned

-----------------------------------------------------------------------------
(* What else the steps keep. *)

LEMMA OverdueGrows ==
    ASSUME CycleFails
    PROVE  overdue' \in BOOLEAN /\ (~overdue' => ~overdue /\ ~Due)
<1>1. overdue' = (overdue \/ Due)
    BY DEF CycleFails
<1> QED BY <1>1, Zenon

LEMMA ClocksKept == LifetimesInvariant /\ [LifetimesNext]_lifetimeVars => Clocks' /\ Recording'
<1> SUFFICES ASSUME LifetimesInvariant, [LifetimesNext]_lifetimeVars PROVE Clocks' /\ Recording'
    OBVIOUS
<1>1. Clocks /\ Recording
    BY DEF LifetimesInvariant
<1>2. MaintenanceTicks \in Nat \ {0} /\ Never \in Int /\ Never < 0
    BY LifetimesAssumption DEF Never
<1> USE DEF Clocks, Recording, Goes, Happens, Excuse
<1>3. CASE Boot \/ Collect \/ StoreSnapshot \/ Evaluate \/ RecordAlert
    BY <1>1, <1>3 DEF Boot, Collect, StoreSnapshot, Evaluate, RecordAlert, recordVars
<1>4. CASE CycleFails
    <2>1. overdue' \in BOOLEAN /\ (~overdue' => ~overdue /\ ~Due)
        BY <1>1, <1>4, OverdueGrows
    <2> QED BY <1>1, <1>2, <1>4, <2>1 DEF CycleFails, Due
<1>5. CASE NotDue
    BY <1>1, <1>2, <1>5 DEF NotDue, Due, recordVars
<1>6. CASE PruneOldData
    BY <1>1, <1>6 DEF PruneOldData
<1>7. CASE FlushBaseline
    BY <1>1, <1>2, <1>7 DEF FlushBaseline
<1>8. CASE Wake \/ TimeGoesBy
    BY <1>1, <1>8 DEF Wake, TimeGoesBy, recordVars
<1>9. CASE Killed
    BY <1>1, <1>2, <1>9 DEF Killed
<1>10. CASE UNCHANGED lifetimeVars
    BY <1>1, <1>10 DEF lifetimeVars, lifeVars, recordVars
<1> QED BY <1>3, <1>4, <1>5, <1>6, <1>7, <1>8, <1>9, <1>10 DEF LifetimesNext

LEMMA SentOnceKept == LifetimesInvariant /\ [LifetimesNext]_lifetimeVars => SentOnce'
<1> SUFFICES ASSUME LifetimesInvariant, [LifetimesNext]_lifetimeVars PROVE SentOnce'
    OBVIOUS
<1>1. SentOnce /\ clock \in Nat /\ cycle \in Nat /\ DOMAIN happened = Recorded /\ "alerts" \in Recorded
    BY DEF LifetimesInvariant, Clocks, Recording, Recorded
<1> USE DEF SentOnce, Row, Goes
<1>2. CASE Collect
    BY <1>1, <1>2 DEF Collect, recordVars
<1>3. CASE StoreSnapshot
    <2>1. /\ \A t \in Recorded : \A r \in happened'[t] : r \in happened[t] \/ r = Row
          /\ happened'["alerts"] = happened["alerts"]
          /\ clock' = clock /\ cycle' = cycle /\ pc = "store" /\ pc' = "evaluate"
        BY <1>1, <1>3 DEF StoreSnapshot, Happens
    <2> QED BY <1>1, <2>1
<1>4. CASE Evaluate
    <2>1. /\ \A t \in Recorded : \A r \in happened'[t] : r \in happened[t] \/ r = Row
          /\ pc' = "record" => happened'["alerts"] = happened["alerts"] \cup {Row}
          /\ clock' = clock /\ cycle' = cycle /\ pc = "evaluate" /\ pc' \in {"record", "maintain"}
        BY <1>1, <1>4 DEF Evaluate, Happens
    <2>2. \A r \in happened["alerts"] : r.id < cycle
        BY <1>1, <2>1
    <2>3. \A t \in Recorded : \A r \in happened'[t] : r.id \in Nat /\ r.at \in Nat /\ r.id <= cycle
        BY <1>1, <2>1
    <2>4. pc' = "record" => Row' \in happened'["alerts"] /\ \A r \in happened'["alerts"] : r.id = cycle => r = Row
        BY <1>1, <2>1, <2>2
    <2> QED BY <2>1, <2>3, <2>4
<1>5. CASE Boot \/ CycleFails \/ RecordAlert \/ NotDue \/ PruneOldData \/ FlushBaseline \/ Wake \/ Killed
           \/ TimeGoesBy
    <2>1. /\ happened' = happened /\ cycle' = cycle
          /\ pc' \notin {"store", "evaluate", "record"}
        BY <1>5 DEF Boot, CycleFails, RecordAlert, NotDue, PruneOldData, FlushBaseline, Wake, Killed,
                    TimeGoesBy, recordVars
    <2> QED BY <1>1, <2>1
<1>6. CASE UNCHANGED lifetimeVars
    BY <1>1, <1>6 DEF lifetimeVars, lifeVars, recordVars
<1> QED BY <1>2, <1>3, <1>4, <1>5, <1>6 DEF LifetimesNext

LEMMA DatabaseKept ==
    LifetimesInvariant /\ [LifetimesNext]_lifetimeVars => KeptIn(disk)' /\ KeptIn(open)'
<1> SUFFICES ASSUME LifetimesInvariant, [LifetimesNext]_lifetimeVars PROVE KeptIn(disk)' /\ KeptIn(open)'
    OBVIOUS
<1>1. /\ clock \in Nat /\ cycle \in Nat /\ lastMaintenance \in Int /\ lastMaintenance <= clock
      /\ DOMAIN happened = Recorded /\ DOMAIN excused = Recorded
      /\ PrunedAt \in Int /\ PrunedAt <= clock
    BY DEF LifetimesInvariant, Clocks, Recording, PrunedAt
<1> USE DEF Goes
<1>2. CASE Boot \/ Collect \/ CycleFails \/ NotDue \/ Wake \/ TimeGoesBy
    <2>0. ~overdue' => ~overdue
        BY <1>2, OverdueGrows DEF Boot, Collect, NotDue, Wake, TimeGoesBy, recordVars
    <2>1. /\ disk' = disk /\ open' = open /\ excused' = excused /\ happened' = happened
          /\ clock' \in Nat /\ clock <= clock' /\ lastMaintenance' = lastMaintenance
          /\ pc \notin {"flush", "record"} /\ pc' # "flush"
        BY <1>1, <1>2 DEF Boot, Collect, CycleFails, NotDue, Wake, TimeGoesBy, recordVars, storeVars
    <2>2. PrunedAt' = PrunedAt /\ \A t \in Recorded : \A r \in happened[t] : ~InHand(t, r)
        BY <2>1 DEF PrunedAt, InHand
    <2> QED BY <2>0, <2>1, <2>2, StoreUntouched
<1>3. CASE Evaluate
    <2>1. /\ disk' = disk /\ open' = open /\ excused' = excused /\ overdue' = overdue
          /\ clock' = clock /\ cycle' = cycle /\ lastMaintenance' = lastMaintenance
          /\ pc = "evaluate" /\ pc' \in {"record", "maintain"}
        BY <1>3 DEF Evaluate, storeVars
    <2>2. \A t \in Recorded : /\ happened[t] \subseteq happened'[t]
                              /\ \A r \in happened'[t] : r \in happened[t] \/ InHand(t, r)'
        BY <1>1, <1>3 DEF Evaluate, Happens, InHand, Row
    <2>3. PrunedAt' = PrunedAt /\ \A t \in Recorded : \A r \in happened[t] : ~InHand(t, r)
        BY <2>1 DEF PrunedAt, InHand
    <2> QED BY <1>1, <2>1, <2>2, <2>3, StoreUntouched
<1>4. CASE StoreSnapshot
    <2> DEFINE table == "metric_snapshots"
    <2>1. /\ pc = "store" /\ pc' = "evaluate" /\ clock' = clock /\ overdue' = overdue
          /\ lastMaintenance' = lastMaintenance
          /\ happened' = [happened EXCEPT ![table] = @ \cup {Row}]
          /\ \/ Insert(table, Row) /\ excused' = excused
             \/ InsertFails(table, Row) /\ excused' = [excused EXCEPT ![table] = @ \cup {Row}]
        BY <1>4 DEF StoreSnapshot, Happens, Excuse
    <2>2. PrunedAt' = PrunedAt /\ \A t \in Recorded : \A r \in happened[t] : ~InHand(t, r)
        BY <2>1 DEF PrunedAt, InHand
    <2>3. table \in Tables /\ table \in Recorded /\ Row.at = clock
        BY DEF Tables, Recorded, Row
    <2>4. \A t \in Recorded :
              /\ happened[t] \subseteq happened'[t] /\ excused[t] \subseteq excused'[t]
              /\ t = table => Row \in happened'[t] /\ Row.at = clock
              /\ \A r \in happened'[t] : r \in happened[t] \/ (t = table /\ r = Row)
              /\ \A r \in happened[t] : InHand(t, r) => t = table /\ r = Row
        BY <1>1, <2>1, <2>2, <2>3
    <2>5. Insert(table, Row) \/ \A t \in Recorded : t = table => Row \in excused'[t]
        BY <1>1, <2>1
    <2> HIDE DEF table
    <2> QED BY <1>1, <2>1, <2>2, <2>3, <2>4, <2>5, RowInserted
<1>5. CASE RecordAlert
    <2> DEFINE table == "alerts"
    <2>1. /\ pc = "record" /\ pc' = "maintain" /\ clock' = clock /\ overdue' = overdue
          /\ lastMaintenance' = lastMaintenance /\ happened' = happened
          /\ \/ Insert(table, Row) /\ excused' = excused
             \/ InsertFails(table, Row) /\ excused' = [excused EXCEPT ![table] = @ \cup {Row}]
        BY <1>5 DEF RecordAlert, Excuse
    <2>2. PrunedAt' = PrunedAt
        BY <2>1 DEF PrunedAt
    <2>3. table \in Tables /\ table \in Recorded /\ Row.at = clock /\ Row \in happened[table]
        BY <2>1 DEF Tables, Recorded, Row, LifetimesInvariant, SentOnce
    <2>4. \A t \in Recorded : \A r \in happened[t] : InHand(t, r) => t = table /\ r = Row
        BY <2>1 DEF InHand, LifetimesInvariant, SentOnce
    <2>5. \A t \in Recorded :
              /\ happened[t] \subseteq happened'[t] /\ excused[t] \subseteq excused'[t]
              /\ t = table => Row \in happened'[t] /\ Row.at = clock
              /\ \A r \in happened'[t] : r \in happened[t] \/ (t = table /\ r = Row)
              /\ \A r \in happened[t] : InHand(t, r) => t = table /\ r = Row
        BY <1>1, <2>1, <2>3, <2>4
    <2>6. Insert(table, Row) \/ \A t \in Recorded : t = table => Row \in excused'[t]
        BY <1>1, <2>1
    <2> HIDE DEF table
    <2> QED BY <1>1, <2>1, <2>2, <2>3, <2>5, <2>6, RowInserted
<1>6. CASE FlushBaseline
    <2>1. /\ pc = "flush" /\ pc' = "asleep" /\ lastMaintenance' = clock /\ clock' = clock
          /\ happened' = happened /\ excused' = excused /\ overdue' = overdue
        BY <1>6 DEF FlushBaseline
    <2>2. PrunedAt' = PrunedAt /\ \A t \in Recorded : \A r \in happened[t] : ~InHand(t, r)
        BY <2>1 DEF PrunedAt, InHand
    <2>3. CASE UNCHANGED storeVars
        BY <1>1, <2>1, <2>2, <2>3, StoreUntouched DEF storeVars
    <2>4. CASE \E row : Insert("baselines", row) \/ InsertFails("baselines", row)
        <3>1. PICK row : Insert("baselines", row) \/ InsertFails("baselines", row)
            BY <2>4
        <3>2. "baselines" \in Tables /\ \A t \in Recorded : t # "baselines"
            BY DEF Tables, Recorded
        <3> QED BY <1>1, <2>1, <2>2, <3>1, <3>2, RowInserted
    <2> QED BY <1>6, <2>3, <2>4 DEF FlushBaseline
<1>7. CASE UNCHANGED lifetimeVars
    BY <1>7 DEF lifetimeVars, lifeVars, recordVars, storeVars, LifetimesInvariant, KeptIn, Genuine, Complete,
                Missing, InHand, Pruned, PrunedAt
<1> QED BY <1>2, <1>3, <1>4, <1>5, <1>6, <1>7, OldRowsDeleted, ProcessEnds DEF LifetimesNext

(***************************************************************************)
(* However often statements fail and the daemon is killed, for every       *)
(* retention of the tables: no alert is stored that was not sent, none is  *)
(* missing before its time but for a fault of its own, and none is there   *)
(* for a maintenance interval longer.                                      *)
(***************************************************************************)
THEOREM HistoryAlwaysKept == LifetimesSpec => []HistoryKept
<1>1. LifetimesInvariant => HistoryKept
    <2> SUFFICES ASSUME LifetimesInvariant, NEW t \in Recorded
                 PROVE  /\ disk[t] \subseteq happened[t]
                        /\ \A r \in happened[t] :
                              r \in disk[t] \/ r \in excused[t] \/ InHand(t, r) \/ r.at + Ticks(t) < clock
                        /\ pc = "asleep" /\ ~overdue =>
                              \A r \in disk[t] : clock - r.at < Ticks(t) + MaintenanceTicks
        BY DEF HistoryKept
    <2>1. KeptIn(disk)
        BY DEF LifetimesInvariant
    <2>2. /\ disk[t] \subseteq happened[t]
          /\ \A r \in happened[t] :
                r \in disk[t] \/ r \in excused[t] \/ InHand(t, r) \/ r.at + Ticks(t) < clock
        BY <2>1 DEF KeptIn, Genuine, Complete, Missing
    <2>3. ASSUME pc = "asleep", ~overdue, NEW r \in disk[t]
          PROVE  clock - r.at < Ticks(t) + MaintenanceTicks
        <3>1. r.at + Ticks(t) >= lastMaintenance
            BY <2>1, <2>3 DEF KeptIn, Pruned, PrunedAt
        <3>2. clock - lastMaintenance < MaintenanceTicks
            BY <2>3 DEF LifetimesInvariant, Clocks
        <3>3. r.at \in Nat /\ Ticks(t) \in Nat /\ MaintenanceTicks \in Nat
            BY <2>2, <2>3, Retention, LifetimesAssumption DEF LifetimesInvariant, SentOnce
        <3> QED BY <3>1, <3>2, <3>3 DEF LifetimesInvariant, Clocks
    <2> QED BY <2>2, <2>3
<1>2. LifetimesInvariant /\ [LifetimesNext]_lifetimeVars => LifetimesInvariant'
    BY ClocksKept, SentOnceKept, DatabaseKept DEF LifetimesInvariant
<1> QED BY <1>1, <1>2, LifetimesInitially, PTL DEF LifetimesSpec

-----------------------------------------------------------------------------
(***************************************************************************)
(* The baselines.  WarmStart says nothing of the rows a start would load,  *)
(* nor of what is read but not yet in a window: BaselineInvariant ties the *)
(* windows, the rows of the database and what the connection sees of them  *)
(* to the readings that were taken.                                        *)
(***************************************************************************)
(* The sum that Mean divides, as a function of how far it has come.        *)
LEMMA MeanIs ==
    ASSUME NEW w \in Seq(Int)
    PROVE  \E sum \in [0..Len(w) -> Int] :
               /\ sum[0] = 0 /\ \A i \in 1..Len(w) : sum[i] = sum[i - 1] + w[i]
               /\ Mean(w) = sum[Len(w)] \div Len(w)
<1> DEFINE n == Len(w)
           plus(x, i) == x + w[i]
           sum == CHOOSE f : f = [i \in 0..n |-> IF i = 0 THEN 0 ELSE plus(f[i - 1], i)]
           next == [p \in Int \X (1..n) |-> plus(p[1], p[2])]
<1>1. n \in Nat /\ 0 \in Int /\ \A x \in Int, i \in 1..n : plus(x, i) \in Int
    OBVIOUS
<1>2. Mean(w) = sum[n] \div n
    BY Zenon DEF Mean
<1> SUFFICES sum \in [0..n -> Int] /\ sum[0] = 0 /\ \A i \in 1..n : sum[i] = plus(sum[i - 1], i)
    BY <1>2
<1> HIDE DEF plus, n
<1>3. /\ next \in [Int \X (1..n) -> Int]
      /\ \A x \in Int, i \in 1..n : next[<<x, i>>] = plus(x, i)
    BY <1>1
<1>4. \A i \in 0..n : i # 0 => i \in 1..n
    BY <1>1
<1>5. \A i \in 1..n : i # 0 /\ i \in 0..n /\ i - 1 \in 0..n
    BY <1>1
<1> HIDE DEF next, sum
<1>6. PICK f \in [0..n -> Int] : Recursion(f, n, 0, next)
    BY <1>1, <1>3, RecursionExists
<1>7. f = [i \in 0..n |-> IF i = 0 THEN 0 ELSE plus(f[i - 1], i)]
    <2>1. ASSUME NEW i \in 1..n PROVE f[i] = plus(f[i - 1], i)
        <3>1. f[i] = next[<<f[i - 1], i>>]
            BY <1>6 DEF Recursion
        <3>2. f[i - 1] \in Int
            BY <1>5
        <3> QED BY <1>3, <3>1, <3>2
    <2> QED BY <1>4, <1>6, <2>1 DEF Recursion
<1>8. sum = [i \in 0..n |-> IF i = 0 THEN 0 ELSE plus(sum[i - 1], i)]
    BY <1>7, Zenon DEF sum
<1>9. DOMAIN sum = 0..n /\ sum[0] = 0 /\ \A i \in 1..n : sum[i] = plus(sum[i - 1], i)
    <2>1. ASSUME NEW g, sum = [i \in 0..n |-> IF i = 0 THEN 0 ELSE plus(g[i - 1], i)]
          PROVE  DOMAIN sum = 0..n /\ sum[0] = 0 /\ \A i \in 1..n : sum[i] = plus(g[i - 1], i)
        BY <1>1, <1>5, <2>1
    <2> QED BY <1>8, <2>1
<1>10. \A i \in 1..n : sum[i - 1] \in Int => sum[i] \in Int
    BY <1>1, <1>9
<1>11. \A i \in 0..n : sum[i] \in Int
    BY <1>1, <1>9, <1>10, ValuesBelong
<1>12. sum = [i \in 0..n |-> sum[i]]
    BY <1>8
<1> QED BY <1>9, <1>11, <1>12

(* What bounds every reading bounds their mean, rounded down though it is. *)
LEMMA MeanBounds ==
    ASSUME NEW w \in Seq(Int), w # <<>>
    PROVE  /\ Mean(w) \in Int
           /\ \A hi \in Int : (\A i \in DOMAIN w : w[i] <= hi) => Mean(w) <= hi
           /\ \A lo \in Int : (\A i \in DOMAIN w : lo <= w[i]) => lo <= Mean(w)
<1>1. PICK sum \in [0..Len(w) -> Int] :
           /\ sum[0] = 0 /\ \A i \in 1..Len(w) : sum[i] = sum[i - 1] + w[i]
           /\ Mean(w) = sum[Len(w)] \div Len(w)
    BY MeanIs
<1> DEFINE n == Len(w)
<1>2. n \in Nat /\ n > 0 /\ DOMAIN w = 1..n /\ \A i \in 1..n : w[i] \in Int
    OBVIOUS
<1> HIDE DEF n
<1>3. sum[0] = 0 /\ \A i \in 1..n : sum[i - 1] \in Int /\ sum[i] \in Int /\ sum[i] = sum[i - 1] + w[i]
    BY <1>1, <1>2 DEF n
<1>4. Mean(w) = sum[n] \div n /\ sum[n] \in Int
    BY <1>1, <1>2 DEF n
<1>5. Mean(w) \in Int
    BY <1>2, <1>4
<1>6. ASSUME NEW hi \in Int, \A i \in DOMAIN w : w[i] <= hi PROVE Mean(w) <= hi
    <2> DEFINE S == {i \in 0..n : sum[i] <= i * hi}
    <2>1. 0 \in S
        BY <1>2, <1>3
    <2>2. ASSUME NEW i \in 1..n, i - 1 \in S PROVE i \in S
        <3>1. /\ (i - 1) * hi + hi = i * hi /\ (i - 1) * hi \in Int /\ i * hi \in Int
              /\ sum[i - 1] <= (i - 1) * hi /\ w[i] <= hi /\ i \in 0..n
            BY <1>2, <1>6, <2>2
        <3> DEFINE a == (i - 1) * hi
                   b == i * hi
        <3> HIDE DEF a, b
        <3>2. sum[i] <= b
            BY <1>2, <1>3, <3>1 DEF a, b
        <3> QED BY <3>1, <3>2 DEF b
    <2> HIDE DEF S
    <2>3. 0..n \subseteq S
        BY <1>2, <2>1, <2>2, InductionUpTo
    <2>4. sum[n] <= n * hi
        BY <1>2, <2>3 DEF S
    <2>5. \A s \in Int : s <= n * hi => s \div n <= hi
        BY <1>2
    <2> QED BY <1>4, <2>4, <2>5
<1>7. ASSUME NEW lo \in Int, \A i \in DOMAIN w : lo <= w[i] PROVE lo <= Mean(w)
    <2> DEFINE S == {i \in 0..n : i * lo <= sum[i]}
    <2>1. 0 \in S
        BY <1>2, <1>3
    <2>2. ASSUME NEW i \in 1..n, i - 1 \in S PROVE i \in S
        <3>1. /\ (i - 1) * lo + lo = i * lo /\ (i - 1) * lo \in Int /\ i * lo \in Int
              /\ (i - 1) * lo <= sum[i - 1] /\ lo <= w[i] /\ i \in 0..n
            BY <1>2, <1>7, <2>2
        <3> DEFINE a == (i - 1) * lo
                   b == i * lo
        <3> HIDE DEF a, b
        <3>2. b <= sum[i]
            BY <1>2, <1>3, <3>1 DEF a, b
        <3> QED BY <3>1, <3>2 DEF b
    <2> HIDE DEF S
    <2>3. 0..n \subseteq S
        BY <1>2, <2>1, <2>2, InductionUpTo
    <2>4. n * lo <= sum[n]
        BY <1>2, <2>3 DEF S
    <2>5. \A s \in Int : n * lo <= s => lo <= s \div n
        BY <1>2
    <2> QED BY <1>4, <2>4, <2>5
<1> QED BY <1>5, <1>6, <1>7

LEMMA MeanBetween ==
    ASSUME NEW w \in Seq(Int), w # <<>>
    PROVE  /\ \E i \in DOMAIN w : w[i] <= Mean(w)
           /\ \E i \in DOMAIN w : Mean(w) <= w[i]
<1>1. Mean(w) \in Int /\ DOMAIN w = 1..Len(w) /\ \A i \in DOMAIN w : w[i] \in Int
    BY MeanBounds
<1>2. ASSUME \A i \in DOMAIN w : ~(w[i] <= Mean(w)) PROVE FALSE
    <2>1. \A i \in DOMAIN w : Mean(w) + 1 <= w[i]
        BY <1>1, <1>2
    <2>2. \A lo \in Int : lo = Mean(w) + 1 => lo <= Mean(w)
        BY <1>1, <2>1, MeanBounds
    <2> QED BY <1>1, <2>2
<1>3. ASSUME \A i \in DOMAIN w : ~(Mean(w) <= w[i]) PROVE FALSE
    <2>1. \A i \in DOMAIN w : w[i] <= Mean(w) - 1
        BY <1>1, <1>3
    <2>2. \A hi \in Int : hi = Mean(w) - 1 => Mean(w) <= hi
        BY <1>1, <2>1, MeanBounds
    <2> QED BY <1>1, <2>2
<1> QED BY <1>2, <1>3

(* A window that slides keeps its length, and takes in only the reading.   *)
LEMMA PushedIs ==
    ASSUME NEW w \in Seq(Int), Len(w) <= WindowSize, NEW v \in Int
    PROVE  /\ Pushed(w, v) \in Seq(Int) /\ Len(Pushed(w, v)) <= WindowSize /\ Len(w) <= Len(Pushed(w, v))
           /\ \A i \in DOMAIN Pushed(w, v) : Pushed(w, v)[i] = v \/ \E j \in DOMAIN w : Pushed(w, v)[i] = w[j]
<1> DEFINE long == Append(w, v)
<1>1. /\ long \in Seq(Int) /\ Len(long) = Len(w) + 1 /\ Len(w) \in Nat
      /\ \A i \in DOMAIN long : i \in 1..(Len(w) + 1) /\ (long[i] = v \/ \E j \in DOMAIN w : long[i] = w[j])
    OBVIOUS
<1>2. CASE Len(long) > WindowSize
    <2>0. Pushed(w, v) = Tail(long)
        BY <1>2 DEF Pushed
    <2> HIDE DEF long
    <2>1. Len(w) = WindowSize
        <3>1. Len(long) = Len(w) + 1 /\ Len(w) \in Nat /\ WindowSize \in Nat
            BY <1>1, WindowAssumption
        <3> QED BY <1>2, <3>1
    <2>2. /\ Tail(long) \in Seq(Int) /\ Len(Tail(long)) = Len(w)
          /\ \A i \in DOMAIN Tail(long) : i + 1 \in DOMAIN long /\ Tail(long)[i] = long[i + 1]
        BY <1>1
    <2>3. Len(Pushed(w, v)) = WindowSize /\ Pushed(w, v) \in Seq(Int)
        BY <2>0, <2>1, <2>2
    <2>4. \A i \in DOMAIN Pushed(w, v) : Pushed(w, v)[i] = v \/ \E j \in DOMAIN w : Pushed(w, v)[i] = w[j]
        BY <1>1, <2>0, <2>2
    <2>5. WindowSize \in Nat
        BY WindowAssumption
    <2> QED BY <2>1, <2>3, <2>4, <2>5
<1>3. CASE ~(Len(long) > WindowSize)
    <2>1. Pushed(w, v) = long
        BY <1>3 DEF Pushed
    <2> HIDE DEF long
    <2> QED BY <1>1, <1>3, <2>1, WindowAssumption
<1> QED BY <1>2, <1>3

(* A window that is seeded is ready, and holds nothing but the mean.       *)
LEMMA SeededIs ==
    ASSUME NEW w \in Seq(Int), Len(w) <= WindowSize, NEW row,
           row.mean \in Int, row.samples \in Nat, row.samples >= MinSamples
    PROVE  /\ Seeded(w, row) \in Seq(Int) /\ Len(Seeded(w, row)) <= WindowSize /\ Ready(Seeded(w, row))
           /\ \A i \in DOMAIN Seeded(w, row) :
                  Seeded(w, row)[i] = row.mean \/ \E j \in DOMAIN w : Seeded(w, row)[i] = w[j]
<1>1. MinSamples \in Nat /\ WindowSize \in Nat /\ MinSamples <= WindowSize /\ Least(row.samples, MinSamples) = MinSamples
    BY WindowAssumption DEF Least
<1> DEFINE copies == [i \in 1..MinSamples |-> row.mean]
           long == w \o copies
<1>2. copies \in Seq(Int) /\ Len(copies) = MinSamples /\ \A i \in DOMAIN copies : copies[i] = row.mean
    BY <1>1
<1> HIDE DEF copies
<1>3. /\ long \in Seq(Int) /\ Len(long) = Len(w) + MinSamples /\ Len(w) \in Nat
      /\ \A i \in DOMAIN long : long[i] = row.mean \/ \E j \in DOMAIN w : long[i] = w[j]
    <2>1. long \in Seq(Int) /\ Len(long) = Len(w) + MinSamples /\ Len(w) \in Nat
        <3>1. \A c \in Seq(Int) : w \o c \in Seq(Int) /\ Len(w \o c) = Len(w) + Len(c) /\ Len(w) \in Nat
            OBVIOUS
        <3> QED BY <1>2, <3>1
    <2>2. ASSUME NEW i \in DOMAIN long PROVE long[i] = row.mean \/ \E j \in DOMAIN w : long[i] = w[j]
        <3>1. CASE i <= Len(w)
            BY <1>1, <1>2, <3>1
        <3>2. CASE i > Len(w)
            <4>1. i - Len(w) \in DOMAIN copies /\ long[i] = copies[i - Len(w)]
                BY <1>1, <1>2, <3>2
            <4> QED BY <1>2, <4>1
        <3> QED BY <2>1, <3>1, <3>2
    <2> QED BY <2>1, <2>2
<1>4. Seeded(w, row) = IF Len(long) > WindowSize
                       THEN SubSeq(long, Len(long) - WindowSize + 1, Len(long)) ELSE long
    BY <1>1 DEF Seeded, copies
<1> HIDE DEF long
<1>5. CASE Len(long) > WindowSize
    <2> DEFINE from == Len(long) - WindowSize + 1
    <2>1. from \in 1..Len(long) /\ Len(long) \in Nat
        BY <1>1, <1>3, <1>5
    <2>2. /\ SubSeq(long, from, Len(long)) \in Seq(Int)
          /\ Len(SubSeq(long, from, Len(long))) = WindowSize
          /\ \A i \in 1..WindowSize : SubSeq(long, from, Len(long))[i] = long[from + i - 1] /\ from + i - 1 \in DOMAIN long
        BY <1>1, <1>3, <2>1
    <2> HIDE DEF from
    <2>3. Seeded(w, row) = SubSeq(long, from, Len(long))
        BY <1>4, <1>5 DEF from
    <2>4. Seeded(w, row) \in Seq(Int) /\ Len(Seeded(w, row)) <= WindowSize /\ Ready(Seeded(w, row))
        <3>1. WindowSize >= MinSamples /\ WindowSize <= WindowSize
            BY <1>1
        <3> QED BY <2>2, <2>3, <3>1 DEF Ready
    <2>5. ASSUME NEW i \in DOMAIN Seeded(w, row)
          PROVE  Seeded(w, row)[i] = row.mean \/ \E j \in DOMAIN w : Seeded(w, row)[i] = w[j]
        <3>1. i \in 1..WindowSize
            BY <2>2, <2>3
        <3>2. \E k \in DOMAIN long : Seeded(w, row)[i] = long[k]
            BY <2>2, <2>3, <3>1
        <3> QED BY <1>3, <3>2
    <2> QED BY <2>4, <2>5
<1>6. CASE ~(Len(long) > WindowSize)
    BY <1>1, <1>3, <1>4, <1>6 DEF Ready
<1> QED BY <1>5, <1>6

LEMMA LoadedIs ==
    ASSUME NEW row, row.mean \in Int, row.samples \in Nat, row.samples >= MinSamples
    PROVE  /\ LoadedTwice(row) \in Seq(Int) /\ Len(LoadedTwice(row)) <= WindowSize /\ Ready(LoadedTwice(row))
           /\ \A i \in DOMAIN LoadedTwice(row) : LoadedTwice(row)[i] = row.mean
<1> DEFINE once == Seeded(<<>>, row)
<1>1. <<>> \in Seq(Int) /\ Len(<<>>) <= WindowSize
    BY WindowAssumption
<1>2. once \in Seq(Int) /\ Len(once) <= WindowSize /\ \A i \in DOMAIN once : once[i] = row.mean
    <2>1. \A j : j \notin DOMAIN <<>>
        OBVIOUS
    <2>2. PICK e \in Seq(Int) : e = <<>> /\ Len(e) <= WindowSize /\ \A j : j \notin DOMAIN e
        BY <1>1, <2>1
    <2>3. /\ Seeded(e, row) \in Seq(Int) /\ Len(Seeded(e, row)) <= WindowSize
          /\ \A i \in DOMAIN Seeded(e, row) :
                 Seeded(e, row)[i] = row.mean \/ \E j \in DOMAIN e : Seeded(e, row)[i] = e[j]
        BY <2>2, SeededIs
    <2> QED BY <2>2, <2>3
<1> HIDE DEF once
<1> QED BY <1>2, SeededIs DEF LoadedTwice, once

Within(readings, v) == \E lo, hi \in readings : lo <= v /\ v <= hi

(* The rows of a database: none is from the future, and what they say of a *)
(* baseline is within what was read.                                       *)
Dated(r) == r.id \in 1..cycle /\ r.at \in 0..clock

Sound(r) == r.samples \in Nat /\ r.samples >= MinSamples /\ r.mean \in Int /\ Within(taken, r.mean)

RowsIn(db) ==
    /\ DOMAIN db = Tables
    /\ \A t \in Tables : \A r \in db[t] : Dated(r)
    /\ \A r \in db["baselines"] : Sound(r)

Counted ==
    /\ pc \in {"down", "collect", "store", "evaluate", "record", "maintain", "flush", "asleep"}
    /\ clock \in 0..MaxClock /\ kills \in 0..MaxKills /\ cycle \in 0..MaxCycles /\ faults \in 0..MaxFaults
    /\ pc \notin {"down", "collect"} => cycle >= 1
    /\ pc = "collect" => cycle < MaxCycles
    /\ lastMaintenance \in {Never} \cup 0..clock
    /\ overdue \in BOOLEAN /\ known \in BOOLEAN

Windowed ==
    /\ reading \in Readings \cup {NoReading} /\ taken \subseteq Readings
    /\ window \in Seq(Int) /\ Len(window) <= WindowSize
    /\ \A i \in DOMAIN window : Within(taken, window[i])

(* There is a row to load, or there will be.                               *)
Seeds ==
    known => /\ pc # "down" => Ready(window)
             /\ pc # "flush" => disk["baselines"] # {} /\ open["baselines"] # {}

BaselineInvariant == Counted /\ Windowed /\ RowsIn(disk) /\ RowsIn(open) /\ Seeds

-----------------------------------------------------------------------------
LEMMA Bounds ==
    /\ {MaxClock, MaxCycles, MaxKills, MaxFaults} \subseteq Nat /\ Readings \subseteq Nat
    /\ MaintenanceTicks \in Nat \ {0} /\ Never \in Int
BY LifetimesAssumption, RetentionAssumption DEF Never

LEMMA BaselineInitially == LifetimesInit => BaselineInvariant
<1> SUFFICES ASSUME LifetimesInit PROVE BaselineInvariant
    OBVIOUS
<1>1. /\ disk = NoRows /\ open = NoRows /\ faults = 0 /\ window = <<>> /\ pc = "down" /\ clock = 0 /\ kills = 0
      /\ cycle = 0 /\ reading = NoReading /\ lastMaintenance = Never /\ overdue = FALSE /\ known = FALSE /\ taken = {}
    BY DEF LifetimesInit, StoreInit
<1>2. Counted
    <2>1. 0 \in 0..MaxClock /\ 0 \in 0..MaxKills /\ 0 \in 0..MaxCycles /\ 0 \in 0..MaxFaults
        BY Bounds
    <2> QED BY <1>1, <2>1 DEF Counted
<1>3. Windowed
    BY <1>1, WindowAssumption DEF Windowed
<1>4. RowsIn(NoRows)
    BY DEF RowsIn, NoRows, Tables
<1> QED BY <1>1, <1>2, <1>3, <1>4 DEF BaselineInvariant, Seeds

LEMMA CountedKept == BaselineInvariant /\ [LifetimesNext]_lifetimeVars => Counted'
<1> SUFFICES ASSUME BaselineInvariant, [LifetimesNext]_lifetimeVars PROVE Counted'
    OBVIOUS
<1> USE DEF Counted, Goes
<1>1. Counted /\ MaxClock \in Nat /\ MaxCycles \in Nat /\ MaxKills \in Nat /\ MaxFaults \in Nat
    BY Bounds DEF BaselineInvariant
<1>2. CASE Boot \/ Collect \/ Evaluate \/ NotDue \/ Wake \/ TimeGoesBy
    BY <1>1, <1>2 DEF Boot, Collect, Evaluate, NotDue, Wake, TimeGoesBy, recordVars, storeVars
<1>3. CASE StoreSnapshot
    BY <1>1, <1>3 DEF StoreSnapshot, Insert, InsertFails, Written, Failed, Fault
<1>4. CASE RecordAlert
    BY <1>1, <1>4 DEF RecordAlert, Insert, InsertFails, Written, Failed, Fault
<1>5. CASE CycleFails
    <2>1. overdue' \in BOOLEAN
        BY <1>5, OverdueGrows
    <2> QED BY <1>1, <1>5, <2>1 DEF CycleFails, storeVars
<1>6. CASE PruneOldData
    <2>1. Fault \/ UNCHANGED faults
        BY <1>6 DEF PruneOldData, Prune, PruneFails, Written, Failed
    <2>2. /\ pc = "maintain" /\ pc' = "flush" /\ overdue' \in BOOLEAN
          /\ UNCHANGED <<clock, kills, cycle, lastMaintenance, known>>
        BY <1>6 DEF PruneOldData
    <2> QED BY <1>1, <2>1, <2>2 DEF Fault
<1>7. CASE FlushBaseline
    <2>1. (Fault \/ UNCHANGED faults) /\ known' \in BOOLEAN
        BY <1>1, <1>7 DEF FlushBaseline, Insert, InsertFails, Written, Failed, storeVars
    <2>2. pc = "flush" /\ pc' = "asleep" /\ lastMaintenance' = clock /\ UNCHANGED <<clock, kills, cycle, overdue>>
        BY <1>7 DEF FlushBaseline
    <2> QED BY <1>1, <2>1, <2>2 DEF Fault
<1>8. CASE Killed
    <2>1. known' \in BOOLEAN
        BY <1>1, <1>8, Zenon DEF Killed
    <2> QED BY <1>1, <1>8, <2>1 DEF Killed, Disconnect
<1>9. CASE UNCHANGED lifetimeVars
    BY <1>1, <1>9 DEF lifetimeVars, lifeVars, recordVars, storeVars
<1> QED BY <1>2, <1>3, <1>4, <1>5, <1>6, <1>7, <1>8, <1>9 DEF LifetimesNext

(* What is taken in is only added to, and then what is within it stays.    *)
LEMMA StaysWithin == ASSUME NEW S, NEW T, S \subseteq T, NEW v, Within(S, v) PROVE Within(T, v)
BY DEF Within

LEMMA LatestExists ==
    ASSUME BaselineInvariant, disk["baselines"] # {}
    PROVE  Latest(disk["baselines"]) \in disk["baselines"]
<1> DEFINE rows == disk["baselines"]
           T == {cycle - r.id : r \in rows}
<1>1. cycle \in Nat /\ \A r \in rows : r.id \in Int /\ r.id <= cycle
    BY DEF BaselineInvariant, RowsIn, Dated, Tables, Counted
<1>2. T \subseteq Nat /\ T # {}
    BY <1>1
<1> HIDE DEF T
<1>3. PICK x \in T : \A y \in T : x <= y
    BY <1>2, LeastNumber
<1>4. PICK r \in rows : x = cycle - r.id
    BY <1>3 DEF T
<1>5. \A o \in rows : cycle - r.id <= cycle - o.id
    BY <1>3, <1>4 DEF T
<1>6. \A o \in rows : o.id <= r.id
    BY <1>1, <1>5
<1> QED BY <1>6 DEF Latest

LEMMA UpdateKeeps ==
    ASSUME BaselineInvariant, UpdateBaseline, reading' = NoReading
    PROVE  Windowed' /\ taken \subseteq taken' /\ (Ready(window) => Ready(window'))
<1>1. Windowed
    BY DEF BaselineInvariant
<1>2. CASE reading = NoReading
    BY <1>1, <1>2 DEF UpdateBaseline, Windowed, Within
<1>3. CASE reading # NoReading
    <2>1. window' = Pushed(window, reading) /\ taken' = taken \cup {reading} /\ reading \in Readings /\ reading \in Int
        BY <1>1, <1>3, Bounds DEF UpdateBaseline, Windowed, NoReading
    <2>2. /\ window' \in Seq(Int) /\ Len(window') <= WindowSize /\ Len(window) <= Len(window')
          /\ \A i \in DOMAIN window' : window'[i] = reading \/ \E j \in DOMAIN window : window'[i] = window[j]
        BY <1>1, <2>1, PushedIs DEF Windowed
    <2>3. Within(taken', reading)
        BY <2>1 DEF Within
    <2>4. \A i \in DOMAIN window : Within(taken', window[i])
        BY <1>1, <2>1, StaysWithin DEF Windowed
    <2>5. \A i \in DOMAIN window' : Within(taken', window'[i])
        BY <2>2, <2>3, <2>4
    <2>6. Ready(window) => Ready(window')
        <3>1. Len(window) \in Nat /\ Len(window') \in Nat /\ MinSamples \in Nat
            BY <1>1, <2>2, WindowAssumption DEF Windowed
        <3> QED BY <2>2, <3>1 DEF Ready
    <2> QED BY <1>1, <2>1, <2>2, <2>5, <2>6 DEF Windowed
<1> QED BY <1>2, <1>3

(* The row that is flushed.                                                *)
LEMMA RowSound ==
    ASSUME BaselineInvariant, Ready(window)
    PROVE  Sound(RowOf(window, cycle, clock))
<1>1. window \in Seq(Int) /\ window # <<>> /\ Len(window) \in Nat /\ Len(window) >= MinSamples
      /\ \A i \in DOMAIN window : Within(taken, window[i])
    BY WindowAssumption DEF BaselineInvariant, Windowed, Ready
<1>2. Mean(window) \in Int
    BY <1>1, MeanBounds
<1>3. PICK i \in DOMAIN window, j \in DOMAIN window : window[i] <= Mean(window) /\ Mean(window) <= window[j]
    BY <1>1, MeanBetween
<1>4. PICK lo \in taken, hi \in taken : lo <= window[i] /\ window[j] <= hi
    BY <1>1 DEF Within
<1>5. {lo, hi, window[i], window[j]} \subseteq Int
    BY <1>1, <1>4, Bounds DEF BaselineInvariant, Windowed
<1>6. Within(taken, Mean(window))
    BY <1>2, <1>3, <1>4, <1>5 DEF Within
<1> QED BY <1>1, <1>2, <1>6 DEF Sound, RowOf

-----------------------------------------------------------------------------
(* Rows that are in the database after a step were there, or are written.  *)
WrittenNow(t, r) ==
    \/ pc \in {"store", "record"} /\ r = Row /\ t \in Recorded
    \/ pc = "flush" /\ t = "baselines" /\ Ready(window) /\ r = RowOf(window, cycle, clock)

LEMMA RowsWritten ==
    ASSUME BaselineInvariant, [LifetimesNext]_lifetimeVars
    PROVE  /\ DOMAIN disk' = Tables /\ DOMAIN open' = Tables
           /\ \A t \in Tables : \A r \in disk'[t] \cup open'[t] : r \in disk[t] \cup open[t] \/ WrittenNow(t, r)
<1> DEFINE OK(db) == /\ DOMAIN db = Tables
                     /\ \A t \in Tables : \A r \in db[t] : r \in disk[t] \cup open[t] \/ WrittenNow(t, r)
<1> SUFFICES OK(disk') /\ OK(open')
    OBVIOUS
<1>1. DOMAIN disk = Tables /\ DOMAIN open = Tables /\ OK(disk) /\ OK(open)
    BY DEF BaselineInvariant, RowsIn
<1>2. ASSUME NEW t \in Tables, NEW r, WrittenNow(t, r) PROVE OK(With(t, r))
    <2>1. DOMAIN With(t, r) = Tables
        BY <1>1 DEF With
    <2>2. \A u \in Tables : With(t, r)[u] = IF u = t THEN open[t] \cup {r} ELSE open[u]
        BY <1>1 DEF With
    <2> QED BY <1>2, <2>1, <2>2
<1>3. \A n \in 1..3 : OK(AfterDeletes(n, clock))
    BY DEF AfterDeletes, Kept
<1> HIDE DEF OK
<1>4. ASSUME NEW t \in Tables, NEW r, WrittenNow(t, r), Insert(t, r) \/ InsertFails(t, r) PROVE OK(disk') /\ OK(open')
    <2>1. OK(With(t, r))
        BY <1>2, <1>4
    <2> QED BY <1>1, <1>4, <2>1 DEF Insert, InsertFails, Written, Failed
<1>5. CASE UNCHANGED <<disk, open>>
    BY <1>1, <1>5
<1>6. CASE StoreSnapshot
    <2>1. "metric_snapshots" \in Tables /\ WrittenNow("metric_snapshots", Row)
        BY <1>6 DEF StoreSnapshot, Goes, WrittenNow, Tables, Recorded
    <2> QED BY <1>4, <1>6, <2>1 DEF StoreSnapshot
<1>7. CASE RecordAlert
    <2>1. "alerts" \in Tables /\ WrittenNow("alerts", Row)
        BY <1>7 DEF RecordAlert, Goes, WrittenNow, Tables, Recorded
    <2> QED BY <1>4, <1>7, <2>1 DEF RecordAlert
<1>8. CASE FlushBaseline
    <2>1. CASE ~Flushes(window)
        BY <1>5, <1>8, <2>1 DEF FlushBaseline, storeVars
    <2>2. CASE Flushes(window)
        <3>1. "baselines" \in Tables /\ WrittenNow("baselines", RowOf(window, cycle, clock))
            BY <1>8, <2>2 DEF FlushBaseline, Goes, WrittenNow, Tables, Flushes
        <3>2. Insert("baselines", RowOf(window, cycle, clock)) \/ InsertFails("baselines", RowOf(window, cycle, clock))
            BY <1>8, <2>2 DEF FlushBaseline
        <3> QED BY <1>4, <3>1, <3>2
    <2> QED BY <2>1, <2>2
<1>9. CASE PruneOldData
    <2>1. \A n \in 1..3 : OK(AfterDeletes(n, clock))
        BY <1>3
    <2> QED BY <1>1, <1>9, <2>1 DEF PruneOldData, Prune, PruneFails, Written, Failed
<1>10. CASE Killed
    BY <1>1, <1>10 DEF Killed, Disconnect
<1>11. CASE Boot \/ Collect \/ Evaluate \/ CycleFails \/ NotDue \/ Wake \/ TimeGoesBy \/ UNCHANGED lifetimeVars
    BY <1>5, <1>11 DEF Boot, Collect, Evaluate, CycleFails, NotDue, Wake, TimeGoesBy, lifetimeVars, storeVars
<1> QED BY <1>6, <1>7, <1>8, <1>9, <1>10, <1>11 DEF LifetimesNext

LEMMA OnlyGrows ==
    ASSUME BaselineInvariant, [LifetimesNext]_lifetimeVars
    PROVE  /\ taken \subseteq taken'
           /\ clock \in Nat /\ clock' \in Nat /\ clock <= clock'
           /\ cycle \in Nat /\ cycle' \in Nat /\ cycle <= cycle'
<1>1. clock \in Nat /\ cycle \in Nat
    BY DEF BaselineInvariant, Counted
<1>2. CASE Evaluate \/ CycleFails
    BY <1>1, <1>2 DEF Evaluate, CycleFails, UpdateBaseline
<1>3. CASE Boot \/ Collect \/ StoreSnapshot \/ RecordAlert \/ NotDue \/ PruneOldData \/ FlushBaseline \/ Wake
    BY <1>1, <1>3 DEF Boot, Collect, StoreSnapshot, RecordAlert, NotDue, PruneOldData, FlushBaseline, Wake, recordVars
<1>4. CASE Killed \/ TimeGoesBy \/ UNCHANGED lifetimeVars
    BY <1>1, <1>4 DEF Killed, TimeGoesBy, lifetimeVars, lifeVars, recordVars
<1> QED BY <1>2, <1>3, <1>4 DEF LifetimesNext

LEMMA RowsKept == BaselineInvariant /\ [LifetimesNext]_lifetimeVars => RowsIn(disk)' /\ RowsIn(open)'
<1> SUFFICES ASSUME BaselineInvariant, [LifetimesNext]_lifetimeVars,
                    NEW t \in Tables, NEW r \in disk'[t] \cup open'[t]
             PROVE  Dated(r)' /\ (t = "baselines" => Sound(r)')
    <2>1. "baselines" \in Tables
        BY DEF Tables
    <2> QED BY <2>1, RowsWritten DEF RowsIn
<1>1. /\ taken \subseteq taken' /\ clock \in Nat /\ clock' \in Nat /\ clock <= clock'
      /\ cycle \in Nat /\ cycle' \in Nat /\ cycle <= cycle'
    BY OnlyGrows
<1>2. r \in disk[t] \cup open[t] \/ WrittenNow(t, r)
    BY RowsWritten
<1>3. Dated(r) /\ (t = "baselines" => Sound(r))
    <2>1. CASE r \in disk[t] \cup open[t]
        BY <2>1 DEF BaselineInvariant, RowsIn
    <2>2. CASE WrittenNow(t, r)
        <3>1. cycle \in 1..cycle /\ clock \in 0..clock
            BY <1>1, <2>2 DEF WrittenNow, BaselineInvariant, Counted
        <3>2. r.id = cycle /\ r.at = clock
            BY <2>2 DEF WrittenNow, Row, RowOf
        <3>3. t = "baselines" => Sound(r)
            BY <2>2, RowSound DEF WrittenNow, Recorded
        <3> QED BY <3>1, <3>2, <3>3 DEF Dated
    <2> QED BY <1>2, <2>1, <2>2
<1>4. Dated(r)'
    BY <1>1, <1>3 DEF Dated
<1>5. t = "baselines" => Sound(r)'
    BY <1>1, <1>3, StaysWithin DEF Sound
<1> QED BY <1>4, <1>5

LEMMA WindowedKept == BaselineInvariant /\ [LifetimesNext]_lifetimeVars => Windowed'
<1> SUFFICES ASSUME BaselineInvariant, [LifetimesNext]_lifetimeVars PROVE Windowed'
    OBVIOUS
<1>1. Windowed
    BY DEF BaselineInvariant
<1>2. CASE UNCHANGED <<window, taken>> /\ reading' \in Readings \cup {NoReading}
    BY <1>1, <1>2 DEF Windowed, Within
<1>3. CASE Boot
    <2>1. CASE disk["baselines"] = {}
        BY <1>1, <1>3, <2>1, WindowAssumption DEF Boot, Windowed, recordVars
    <2>2. CASE disk["baselines"] # {}
        <3> DEFINE row == Latest(disk["baselines"])
        <3>1. row \in disk["baselines"]
            BY <2>2, LatestExists
        <3>2. row.mean \in Int /\ row.samples \in Nat /\ row.samples >= MinSamples /\ Within(taken, row.mean)
            BY <3>1 DEF BaselineInvariant, RowsIn, Sound
        <3>3. window' = LoadedTwice(row) /\ UNCHANGED <<reading, taken>>
            BY <1>3, <2>2 DEF Boot, recordVars
        <3> HIDE DEF row
        <3>4. /\ window' \in Seq(Int) /\ Len(window') <= WindowSize
              /\ \A i \in DOMAIN window' : window'[i] = row.mean
            BY <3>2, <3>3, LoadedIs
        <3> QED BY <1>1, <3>2, <3>3, <3>4 DEF Windowed
    <2> QED BY <2>1, <2>2
<1>4. CASE Evaluate
    BY <1>4, UpdateKeeps DEF Evaluate
<1>5. CASE CycleFails
    BY <1>2, <1>5, UpdateKeeps DEF CycleFails
<1>6. CASE Killed
    BY <1>1, <1>6, WindowAssumption DEF Killed, Windowed
<1>7. CASE Collect \/ StoreSnapshot \/ RecordAlert \/ NotDue \/ PruneOldData \/ FlushBaseline \/ Wake
           \/ TimeGoesBy \/ UNCHANGED lifetimeVars
    BY <1>1, <1>2, <1>7 DEF Collect, StoreSnapshot, RecordAlert, NotDue, PruneOldData, FlushBaseline, Wake, TimeGoesBy,
                            lifetimeVars, lifeVars, recordVars, Windowed
<1> QED BY <1>3, <1>4, <1>5, <1>6, <1>7 DEF LifetimesNext

LEMMA SeedsKept == BaselineInvariant /\ [LifetimesNext]_lifetimeVars => Seeds'
<1> SUFFICES ASSUME BaselineInvariant, [LifetimesNext]_lifetimeVars PROVE Seeds'
    OBVIOUS
<1> DEFINE b == "baselines"
<1>1. Seeds /\ DOMAIN disk = Tables /\ DOMAIN open = Tables /\ b \in Tables
    BY DEF BaselineInvariant, RowsIn, Tables
<1> USE DEF Goes
<1>2. CASE Boot
    <2>1. /\ pc = "down" /\ pc' = "collect" /\ UNCHANGED <<disk, open, known>>
          /\ disk[b] # {} => window' = LoadedTwice(Latest(disk[b]))
        BY <1>2 DEF Boot, storeVars, recordVars
    <2>2. ASSUME disk[b] # {} PROVE Ready(window')
        <3> DEFINE row == Latest(disk[b])
        <3>1. row.mean \in Int /\ row.samples \in Nat /\ row.samples >= MinSamples
            BY <2>2, LatestExists DEF BaselineInvariant, RowsIn, Sound
        <3> HIDE DEF row
        <3>2. Ready(LoadedTwice(row))
            BY <3>1, LoadedIs
        <3> QED BY <2>1, <2>2, <3>2 DEF row
    <2> QED BY <1>1, <2>1, <2>2 DEF Seeds
<1>3. CASE Evaluate \/ CycleFails
    <2>1. Ready(window) => Ready(window')
        BY <1>3, UpdateKeeps DEF Evaluate, CycleFails
    <2>2. pc = "evaluate" /\ pc' \notin {"down", "flush"} /\ UNCHANGED <<disk, open, known>>
        BY <1>3 DEF Evaluate, CycleFails, storeVars
    <2> QED BY <1>1, <2>1, <2>2 DEF Seeds
<1>4. CASE StoreSnapshot \/ RecordAlert
    <2>1. PICK t \in Tables \ {b} : Insert(t, Row) \/ InsertFails(t, Row)
        BY <1>4 DEF StoreSnapshot, RecordAlert, Tables
    <2>2. With(t, Row)[b] = open[b]
        BY <1>1, <2>1 DEF With
    <2>3. disk'[b] \in {disk[b], open[b]} /\ open'[b] \in {disk[b], open[b]}
        BY <2>1, <2>2 DEF Insert, InsertFails, Written, Failed
    <2>4. pc \in {"store", "record"} /\ pc' \notin {"down", "flush"} /\ UNCHANGED <<window, known>>
        BY <1>4 DEF StoreSnapshot, RecordAlert
    <2> QED BY <1>1, <2>3, <2>4 DEF Seeds
<1>5. CASE PruneOldData
    BY <1>1, <1>5 DEF PruneOldData, Seeds
<1>6. CASE FlushBaseline
    <2> DEFINE row == RowOf(window, cycle, clock)
    <2>1. CASE ~Flushes(window)
        BY <1>1, <1>6, <2>1 DEF FlushBaseline, Seeds, Flushes
    <2>2. CASE Flushes(window) /\ Insert(b, row) /\ known' = TRUE
        <3>1. With(b, row)[b] = open[b] \cup {row}
            BY <1>1 DEF With
        <3>2. disk'[b] # {} /\ open'[b] # {}
            BY <2>2, <3>1 DEF Insert, Written
        <3>3. Ready(window')
            BY <1>6, <2>2 DEF FlushBaseline, Flushes
        <3> QED BY <3>2, <3>3 DEF Seeds
    <2>3. CASE known' = FALSE
        BY <2>3 DEF Seeds
    <2> QED BY <1>6, <2>1, <2>2, <2>3 DEF FlushBaseline
<1>7. CASE Killed
    <2>1. pc # "down" /\ pc' = "down" /\ disk' = disk /\ open' = disk /\ known' = (known /\ (pc = "flush" => disk[b] # {}))
        BY <1>7 DEF Killed, Disconnect
    <2>2. known' => known /\ (pc = "flush" => disk[b] # {})
        BY <2>1, Zenon
    <2> QED BY <1>1, <2>1, <2>2 DEF Seeds
<1>8. CASE Collect \/ NotDue \/ Wake \/ TimeGoesBy \/ UNCHANGED lifetimeVars
    <2>1. UNCHANGED <<disk, open, window, known>> /\ (pc' = "down" <=> pc = "down") /\ (pc' = "flush" <=> pc = "flush")
        BY <1>8 DEF Collect, NotDue, Wake, TimeGoesBy, lifetimeVars, lifeVars, recordVars, storeVars
    <2> QED BY <1>1, <2>1 DEF Seeds
<1> QED BY <1>2, <1>3, <1>4, <1>5, <1>6, <1>7, <1>8 DEF LifetimesNext

LEMMA BaselineInvariantKept == BaselineInvariant /\ [LifetimesNext]_lifetimeVars => BaselineInvariant'
BY CountedKept, WindowedKept, RowsKept, SeedsKept DEF BaselineInvariant

(***************************************************************************)
(* In every state of every life the daemon's records have their types: no  *)
(* row is from the future, the window is never longer than its bound.      *)
(***************************************************************************)
THEOREM LifetimesTyped == LifetimesSpec => []LifetimesTypeOK
<1>1. BaselineInvariant => LifetimesTypeOK
    BY DEF BaselineInvariant, LifetimesTypeOK, Counted, Windowed, RowsIn, Dated, Sound, Tables
<1> QED BY <1>1, BaselineInitially, BaselineInvariantKept, PTL DEF LifetimesSpec

(***************************************************************************)
(* Once a baseline has been written, every later life starts with a window *)
(* that is ready, and neither the windows nor the rows ever say anything   *)
(* that is not between two readings that were taken.                       *)
(***************************************************************************)
THEOREM AlwaysWarmStart == LifetimesSpec => []WarmStart
<1>1. BaselineInvariant => WarmStart
    <2> SUFFICES ASSUME BaselineInvariant PROVE WarmStart
        OBVIOUS
    <2>1. pc # "down" /\ known => Ready(window)
        BY DEF BaselineInvariant, Seeds
    <2>2. \A v \in ToSet(window) : WithinReadings(v)
        BY DEF BaselineInvariant, Windowed, ToSet, Within, WithinReadings
    <2>3. \A r \in disk["baselines"] : WithinReadings(r.mean)
        BY DEF BaselineInvariant, RowsIn, Sound, Within, WithinReadings
    <2> QED BY <2>1, <2>2, <2>3 DEF WarmStart
<1> QED BY <1>1, BaselineInitially, BaselineInvariantKept, PTL DEF LifetimesSpec
=============================================================================
