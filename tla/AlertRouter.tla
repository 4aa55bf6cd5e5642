---------------------------- MODULE AlertRouter ----------------------------
(***************************************************************************)
(* The alert router of GuardianD (src/guardian/alerter/router.py) as the   *)
(* daemon's main loop drives it (_run_cycle in src/guardian/main.py).      *)
(*                                                                         *)
(* One cycle is Collect, CheckRecovery, Dispatch, in that order and all on *)
(* the main thread.  Between any two of them a SIGHUP may replace the      *)
(* router by a new, empty one (Reload), and anything that raises before    *)
(* the recovery check ends the cycle early (CycleFails).                   *)
(*                                                                         *)
(* The router's dictionaries are total functions over the fingerprints FP; *)
(* a fingerprint outside active, or with a streak of 0, is an absent key.  *)
(* A timestamp is kept as its age, and an age or a streak stops growing    *)
(* where the code's comparisons stop telling larger values apart.          *)
(***************************************************************************)
EXTENDS AlertSeverity, FiniteSets

CONSTANTS
    FP,                     \* alert fingerprints (category and title)
    Intelligence,           \* those whose category is "intelligence"
    Severities,             \* the severities each fingerprint can be raised with
    Position,               \* the order evaluate and the detectors list them in
    BreachCycles,           \* alerts.breach_cycles_to_alert
    ClearCycles,            \* alerts.recovery_clear_cycles
    Cooldown,               \* alerts.cooldown_seconds, in units of time
    Escalation,             \* alerts.escalation_minutes, in units of time
    MaxPerDispatch,         \* alerts.max_alerts_per_dispatch
    RecoveryNotifications,  \* alerts.recovery_notifications
    MaxCopies,              \* bound: how often one list repeats a fingerprint
    Gaps                    \* bound: the times that may pass between two cycles

ASSUME FPAssumption == IsFiniteSet(FP) /\ Intelligence \subseteq FP

(***************************************************************************)
(* Each threshold alert has a title of its own for each severity, so its   *)
(* fingerprint determines the severity.  A detector raises WARN or         *)
(* CRITICAL under one title.                                               *)
(***************************************************************************)
ASSUME SeveritiesAssumption ==
    /\ Severities \in [FP -> SUBSET (Severity \ {INFO})]
    /\ \A f \in FP : Severities[f] # {}
    /\ \A f \in FP \ Intelligence : \E s \in Severity : Severities[f] = {s}
    /\ \A f \in Intelligence : Severities[f] \subseteq {WARN, CRITICAL}

ASSUME PositionAssumption ==
    /\ Position \in [FP -> Nat]
    /\ \A f, g \in FP : Position[f] = Position[g] => f = g

ASSUME ConfigAssumption ==
    /\ BreachCycles \in Nat /\ ClearCycles \in Nat
    /\ Cooldown \in Nat /\ Escalation \in Nat /\ MaxPerDispatch \in Nat
    /\ RecoveryNotifications \in BOOLEAN

ASSUME BoundsAssumption ==
    /\ MaxCopies \in Nat \ {0}
    /\ Cooldown = 0 => MaxCopies = 1
    /\ Gaps \subseteq Nat \ {0}

VARIABLES
    phase,          \* where _run_cycle is between two main-thread steps
    copies,         \* how often all_alerts holds an alert of each fingerprint
    raised,         \* with which severity (INFO: not at all)
    recovered,      \* fingerprints of the list _check_recovery returned
    active,         \* keys of _active
    severity,       \* severity of the alert stored in _active
    sinceFirst,     \* age of first_seen_ts
    sinceSent,      \* age of last_sent_ts
    breachStreak,   \* _breach_streak
    clearStreak,    \* _clear_streak
    sent,           \* alerts in the batch dispatch returned
    sentRecoveries  \* recoveries in that batch

cycleVars == <<phase, copies, raised, recovered, sent, sentRecoveries>>
activeVars == <<active, severity, sinceFirst, sinceSent>>
vars == <<cycleVars, activeVars, breachStreak, clearStreak>>

AtLeastOne(n) == IF n < 1 THEN 1 ELSE n
AtMost(n, bound) == IF n > bound THEN bound ELSE n

BreachNeeded == AtLeastOne(BreachCycles)
ClearNeeded == AtLeastOne(ClearCycles)

TypeOK ==
    /\ phase \in {"asleep", "evaluated", "checked"}
    /\ copies \in [FP -> 0..MaxCopies]
    /\ raised \in [FP -> Severity]
    /\ recovered \subseteq FP
    /\ active \subseteq FP
    /\ severity \in [FP -> Severity]
    /\ sinceFirst \in [FP -> 0..(Escalation + 1)]
    /\ sinceSent \in [FP -> 0..Cooldown]
    /\ breachStreak \in [FP -> 0..BreachNeeded]
    /\ clearStreak \in [FP -> 0..ClearNeeded]
    /\ sent \subseteq FP
    /\ sentRecoveries \subseteq FP

-----------------------------------------------------------------------------
(* Starting and replacing the router *)

NoTimes == [f \in FP |-> 0]
NoSeverity == [f \in FP |-> INFO]

Init ==
    /\ phase = "asleep"
    /\ copies = NoTimes
    /\ raised = NoSeverity
    /\ recovered = {}
    /\ sent = {}
    /\ sentRecoveries = {}
    /\ active = {}
    /\ severity = NoSeverity
    /\ sinceFirst = NoTimes
    /\ sinceSent = NoTimes
    /\ breachStreak = NoTimes
    /\ clearStreak = NoTimes

(* SIGHUP: the handler builds a new AlertRouter; the lists the interrupted *)
(* cycle already holds stay as they are.                                   *)
Reload ==
    /\ active' = {}
    /\ severity' = NoSeverity
    /\ sinceFirst' = NoTimes
    /\ sinceSent' = NoTimes
    /\ breachStreak' = NoTimes
    /\ clearStreak' = NoTimes
    /\ UNCHANGED cycleVars

-----------------------------------------------------------------------------
(* Collecting: evaluate and the detectors produce this cycle's alerts *)

Listings ==
    {l \in [copies : [FP -> 0..MaxCopies], raised : [FP -> Severity]] :
        \A f \in FP : IF l.copies[f] = 0
                      THEN l.raised[f] = INFO
                      ELSE l.raised[f] \in Severities[f]}

CollectAfter(gap) ==
    /\ phase = "asleep"
    /\ phase' = "evaluated"
    /\ \E l \in Listings : copies' = l.copies /\ raised' = l.raised
    /\ sinceFirst' = [f \in FP |->
          IF f \in active THEN AtMost(sinceFirst[f] + gap, Escalation + 1) ELSE 0]
    /\ sinceSent' = [f \in FP |->
          IF f \in active THEN AtMost(sinceSent[f] + gap, Cooldown) ELSE 0]
    /\ recovered' = {}
    /\ sent' = {}
    /\ sentRecoveries' = {}
    /\ UNCHANGED <<active, severity, breachStreak, clearStreak>>

Collect == \E gap \in Gaps : CollectAfter(gap)

(* An exception in the cycle before the recovery check: start logs it and  *)
(* goes on with the next cycle.                                            *)
CycleFails ==
    /\ phase = "evaluated"
    /\ phase' = "asleep"
    /\ UNCHANGED <<copies, raised, recovered, sent, sentRecoveries,
                   activeVars, breachStreak, clearStreak>>

-----------------------------------------------------------------------------
(* _check_recovery *)

(* current_fps comes from evaluate alone, which raises no intelligence alert. *)
CurrentFps == {f \in FP \ Intelligence : copies[f] > 0}

Resolved(f) == f \in active /\ f \notin CurrentFps

(* Mutants: the streak tested one cycle late, before it is counted up, and *)
(* not tested at all.                                                      *)
RecoversLate(f) == Resolved(f) /\ clearStreak[f] + 1 > ClearNeeded
RecoversAfterCount(f) == Resolved(f) /\ clearStreak[f] > ClearNeeded
RecoversAnyway(f) == Resolved(f)

Recovers(f) == Resolved(f) /\ clearStreak[f] + 1 >= ClearNeeded

(* Mutants: a breach keeps the streak; the streak is never stored. *)
ClearStreakKept(f) ==
    IF Recovers(f) THEN 0
    ELSE IF Resolved(f) THEN clearStreak[f] + 1 ELSE clearStreak[f]
ClearStreakUnsaved(f) == IF f \in active THEN 0 ELSE clearStreak[f]

NewClearStreak(f) ==
    IF Resolved(f) /\ ~Recovers(f) THEN clearStreak[f] + 1
    ELSE IF f \in active THEN 0 ELSE clearStreak[f]

CheckRecovery ==
    /\ phase = "evaluated"
    /\ phase' = "checked"
    /\ IF RecoveryNotifications
       THEN LET gone == {f \in active : Recovers(f)}
                Keep(fn, default) ==
                    [f \in FP |-> IF f \in gone THEN default ELSE fn[f]]
            IN  /\ recovered' = gone
                /\ active' = active \ gone
                /\ severity' = Keep(severity, INFO)
                /\ sinceFirst' = Keep(sinceFirst, 0)
                /\ sinceSent' = Keep(sinceSent, 0)
                /\ clearStreak' = [f \in FP |-> NewClearStreak(f)]
       ELSE UNCHANGED <<recovered, activeVars, clearStreak>>
    /\ UNCHANGED <<copies, raised, sent, sentRecoveries, breachStreak>>

-----------------------------------------------------------------------------
(* dispatch *)

(* Mutant: emergencies wait like the rest. *)
DebouncedAll(f) == copies[f] > 0 /\ f \notin Intelligence

Debounced(f) == copies[f] > 0 /\ f \notin Intelligence /\ raised[f] # EMERGENCY

(* The streak counts the alerts of a fingerprint, so a list that holds it  *)
(* twice adds two.                                                         *)
NewStreakKept(f) ==      \* mutant: a cycle without the breach keeps the streak
    IF Debounced(f) THEN AtMost(breachStreak[f] + copies[f], BreachNeeded)
                    ELSE breachStreak[f]
NewStreakRestarted(f) == \* mutant: the streak starts over in every cycle
    IF Debounced(f) THEN AtMost(copies[f], BreachNeeded) ELSE 0

NewStreak(f) ==
    IF Debounced(f) THEN AtMost(breachStreak[f] + copies[f], BreachNeeded)
                    ELSE 0

PassesEarly(f) ==        \* mutant: the streak compared before this cycle counts
    /\ copies[f] > 0
    /\ Debounced(f) => NewStreak(f) + 1 >= BreachNeeded \/ f \in active

Passes(f) ==
    /\ copies[f] > 0
    /\ Debounced(f) => NewStreak(f) >= BreachNeeded \/ f \in active

EscalatesByRaised(f) ==  \* mutant: decided by the severity it is raised with
    /\ Passes(f)
    /\ f \in active
    /\ raised[f] = WARN
    /\ sinceFirst[f] > Escalation

Escalates(f) ==
    /\ Passes(f)
    /\ f \in active
    /\ severity[f] = WARN
    /\ sinceFirst[f] > Escalation

CoolingDownSinceFirst(f) == \* mutant: the cooldown runs from the first alert
    /\ f \in active
    /\ sinceFirst[f] < Cooldown
    /\ raised[f] <= severity[f]

CoolingDown(f) ==
    /\ f \in active
    /\ sinceSent[f] < Cooldown
    /\ raised[f] <= severity[f]

ToSend == {f \in FP : Passes(f) /\ (Escalates(f) \/ ~CoolingDown(f))}

(* to_send[:max_alerts_per_dispatch].  The recoveries come last in the     *)
(* list; their own order is that of the _active dictionary, left open here. *)
Batch == {f \in ToSend :
            Cardinality({g \in ToSend : Position[g] < Position[f]}) < MaxPerDispatch}

RecoveryBatchesWhenQuiet == \* mutant: alerts crowd out the recoveries
    IF Batch # {} THEN {{}} ELSE {recovered}

RecoveryBatches ==
    LET room == MaxPerDispatch - Cardinality(Batch)
    IN  {R \in SUBSET recovered : Cardinality(R) = AtMost(Cardinality(recovered), room)}

Dispatch ==
    /\ phase = "checked"
    /\ phase' = "asleep"
    /\ breachStreak' = [f \in FP |-> NewStreak(f)]
    /\ active' = active \cup ToSend
    /\ severity' = [f \in FP |-> IF Escalates(f) THEN CRITICAL
                                 ELSE IF f \in ToSend THEN raised[f]
                                 ELSE severity[f]]
    /\ sinceFirst' = [f \in FP |-> IF f \in ToSend \ active THEN 0 ELSE sinceFirst[f]]
    /\ sinceSent' = [f \in FP |-> IF f \in ToSend THEN 0 ELSE sinceSent[f]]
    /\ sent' = Batch
    /\ sentRecoveries' \in RecoveryBatches
    /\ UNCHANGED <<copies, raised, recovered, clearStreak>>

-----------------------------------------------------------------------------
Cycle == Collect \/ CheckRecovery \/ Dispatch

Next == Cycle \/ CycleFails \/ Reload

(* The main loop runs its next step whenever it can: nothing in a cycle     *)
(* waits for anything but time.                                            *)
Spec == Init /\ [][Next]_vars /\ WF_vars(Cycle)
=============================================================================
