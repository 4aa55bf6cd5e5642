--------------------------- MODULE AlertObserver ---------------------------
(***************************************************************************)
(* What an outside observer of the alert router knows, as auxiliary        *)
(* variables over AlertRouter: for how many cycles a condition has held or *)
(* been gone, and what the people who read the notifications believe.      *)
(* None of them is read by the router.  The properties of the router that  *)
(* relate its state to the history of the conditions are stated here.      *)
(*                                                                         *)
(* A cycle counts when it reaches dispatch; one that fails earlier reaches *)
(* neither the router's streaks nor these.                                 *)
(***************************************************************************)
EXTENDS AlertRouter

VARIABLES
    breachRun,      \* cycles in a row that raised the fingerprint, so far
    quietRun,       \* cycles in a row that did not
    sinceOpened,    \* cycles since the router last took it up as active
    open,           \* fingerprints whose last notification was not a recovery
    sinceNotified,  \* age of the last batch that held the alert
    sinceBefore     \* age of the batch before that one, since the alert was taken up

observerVars == <<breachRun, quietRun, sinceOpened, open, sinceNotified, sinceBefore>>
obsVars == <<vars, observerVars>>

FlapPeriod == ClearNeeded + BreachNeeded

ObserverTypeOK ==
    /\ TypeOK
    /\ breachRun \in [FP -> 0..BreachNeeded]
    /\ quietRun \in [FP -> 0..ClearNeeded]
    /\ sinceOpened \in [FP -> 0..FlapPeriod]
    /\ open \subseteq FP
    /\ sinceNotified \in [FP -> 0..Cooldown]
    /\ sinceBefore \in [FP -> 0..Cooldown]

ObserverInit ==
    /\ Init
    /\ breachRun = [f \in FP |-> 0]
    /\ quietRun = [f \in FP |-> ClearNeeded]
    /\ sinceOpened = [f \in FP |-> FlapPeriod]
    /\ open = {}
    /\ sinceNotified = [f \in FP |-> Cooldown]
    /\ sinceBefore = [f \in FP |-> Cooldown]

ObservedCollect ==
    \E gap \in Gaps :
        /\ CollectAfter(gap)
        /\ sinceNotified' = [f \in FP |-> AtMost(sinceNotified[f] + gap, Cooldown)]
        /\ sinceBefore' = [f \in FP |-> AtMost(sinceBefore[f] + gap, Cooldown)]
        /\ UNCHANGED <<breachRun, quietRun, sinceOpened, open>>

ObservedCycleFails == CycleFails /\ UNCHANGED observerVars

ObservedCheckRecovery == CheckRecovery /\ UNCHANGED observerVars

NextBreachRun(f) == IF copies[f] > 0 THEN AtMost(breachRun[f] + 1, BreachNeeded) ELSE 0
NextQuietRun(f) == IF copies[f] > 0 THEN 0 ELSE AtMost(quietRun[f] + 1, ClearNeeded)

ObservedDispatch ==
    /\ Dispatch
    /\ breachRun' = [f \in FP |-> NextBreachRun(f)]
    /\ quietRun' = [f \in FP |-> NextQuietRun(f)]
    /\ sinceOpened' = [f \in FP |-> IF f \in ToSend \ active THEN 0
                                    ELSE AtMost(sinceOpened[f] + 1, FlapPeriod)]
    /\ open' = (open \cup sent') \ sentRecoveries'
    /\ sinceNotified' = [f \in FP |-> IF f \in sent' THEN 0 ELSE sinceNotified[f]]
    /\ sinceBefore' = [f \in FP |-> IF f \in ToSend \ active THEN Cooldown
                                    ELSE IF f \in sent' THEN sinceNotified[f]
                                    ELSE sinceBefore[f]]

(* A new router owes nothing to what the old one opened. *)
ObservedReload ==
    /\ Reload
    /\ sinceOpened' = [f \in FP |-> FlapPeriod]
    /\ UNCHANGED <<breachRun, quietRun, open, sinceNotified, sinceBefore>>

ObservedCycle == ObservedCollect \/ ObservedCheckRecovery \/ ObservedDispatch

ObserverNext == ObservedCycle \/ ObservedCycleFails \/ ObservedReload

(* What the safety properties need, and the main loop that goes on. *)
ObserverSafety == ObserverInit /\ [][ObserverNext]_obsVars
ObserverSpec == ObserverSafety /\ WF_obsVars(ObservedCycle)

(* A daemon nobody reloads. *)
SteadySafety == ObserverInit /\ [][ObservedCycle \/ ObservedCycleFails]_obsVars
SteadySpec == SteadySafety /\ WF_obsVars(ObservedCycle)

-----------------------------------------------------------------------------
Threshold == FP \ Intelligence
Emergencies == {f \in Threshold : Severities[f] = {EMERGENCY}}
Standard == Threshold \ Emergencies

Becomes(f) == f \in active' \ active
Checking == phase = "evaluated" /\ phase' = "checked"
Dispatching == phase = "checked" /\ phase' = "asleep"

(***************************************************************************)
(* Debounce.  A standard alert is taken up only when its condition was     *)
(* raised in BreachNeeded consecutive cycles, whatever reloads, failed     *)
(* cycles and earlier recoveries came in between (dispatch's streaks).     *)
(***************************************************************************)
DebouncedStart ==
    [][\A f \in Standard : Becomes(f) => breachRun'[f] >= BreachNeeded]_obsVars

(***************************************************************************)
(* Hysteresis.  _check_recovery gives up an active alert only when its     *)
(* condition has not been raised for ClearNeeded consecutive cycles, this  *)
(* one included.                                                           *)
(***************************************************************************)
ClearedAfterQuiet(S) ==
    Checking => \A f \in S \cap (active \ active') : NextQuietRun(f) >= ClearNeeded

SustainedRecovery == [][ClearedAfterQuiet(Threshold)]_obsVars

(* The same, said of every fired alert.                                    *)
SustainedRecoveryOfAll == [][ClearedAfterQuiet(FP)]_obsVars

(***************************************************************************)
(* No stale entries.  While recovery is on, whatever _active holds between *)
(* two cycles was raised within the last ClearNeeded cycles: cooldown and  *)
(* escalation never act on a condition that went away long ago.            *)
(***************************************************************************)
NoStaleActive ==
    RecoveryNotifications /\ phase # "checked" =>
        \A f \in active \cap Threshold : quietRun[f] < ClearNeeded

(***************************************************************************)
(* Flap suppression.  Between two occasions on which one router takes up   *)
(* the same standard alert lie at least ClearNeeded quiet cycles and       *)
(* BreachNeeded raised ones (_clear_streak and _breach_streak together).   *)
(***************************************************************************)
FlapSuppressed ==
    [][\A f \in Standard : Dispatching /\ Becomes(f) => sinceOpened[f] + 1 >= FlapPeriod]_obsVars

(***************************************************************************)
(* Cooldown.  An alert that stayed active is not sent again within the     *)
(* cooldown of the last batch that held it, unless it escalates or has     *)
(* grown more severe.                                                      *)
(***************************************************************************)
CooldownWhileActive ==
    [][Dispatching => \A f \in active \cap sent' :
            Escalates(f) \/ raised[f] > severity[f] \/ sinceNotified[f] >= Cooldown]_obsVars

(***************************************************************************)
(* No spam.  Escalations and increases of severity may jump the cooldown,  *)
(* and dispatch overwrites the severity it decides them by.  Even so they  *)
(* never follow each other: of three batches that held an alert while it   *)
(* stayed active, the first and the last lie a cooldown apart.             *)
(***************************************************************************)
RepeatsSpaced ==
    [][Dispatching => \A f \in active \cap sent' : sinceBefore[f] >= Cooldown]_obsVars

(***************************************************************************)
(* Emergencies bypass the debounce and the queue of streaks: one that is   *)
(* not active yet is taken up in the very cycle that raises it.            *)
(***************************************************************************)
EmergencyAtOnce ==
    [][Dispatching => \A f \in Emergencies : copies[f] > 0 => f \in active']_obsVars

(***************************************************************************)
(* The receivers know.  Between two cycles the threshold alerts whose last *)
(* notification was not a recovery are exactly those the router holds      *)
(* active: every alert was sent, and every recovery followed (dispatch's   *)
(* batch, _check_recovery's list).                                         *)
(***************************************************************************)
ReceiversKnow ==
    phase # "checked" => open \cap Threshold = active \cap Threshold

(***************************************************************************)
(* Liveness, in a daemon that from some point on is neither reloaded nor   *)
(* loses cycles to exceptions.                                             *)
(***************************************************************************)
Undisturbed == <>[][~ObservedReload /\ ~ObservedCycleFails]_obsVars

(* A condition raised in every cycle is eventually made known to receivers. *)
SustainedBreachNotified ==
    Undisturbed => \A f \in Threshold : <>[](copies[f] > 0) => <>(f \in open)

(* A condition never raised again is eventually known to be over.           *)
EndedBreachClosed ==
    Undisturbed => \A f \in Threshold : <>[](copies[f] = 0) => <>[](f \notin open)
-----------------------------------------------------------------------------
(* Why the properties hold: the router's streaks agree with the history.   *)

(* Only fingerprints of this cycle's list carry a severity, one they have. *)
ListingAgrees ==
    \A f \in FP : IF copies[f] = 0 THEN raised[f] = INFO
                                   ELSE raised[f] \in Severities[f]

(* An alert gives up its clear streak with its place in _active. *)
ClearStreakOwned ==
    \A f \in FP : clearStreak[f] > 0 => f \in active /\ RecoveryNotifications

(* The clear streak of an active alert counts its quiet cycles; after the  *)
(* recovery check it is one ahead of what dispatch will have completed.    *)
ClearStreakAgrees ==
    RecoveryNotifications =>
        \A f \in active \cap Threshold :
            IF phase # "checked"
            THEN clearStreak[f] = quietRun[f] /\ quietRun[f] < ClearNeeded
            ELSE IF copies[f] > 0
                 THEN clearStreak[f] = 0
                 ELSE clearStreak[f] = quietRun[f] + 1 /\ clearStreak[f] < ClearNeeded

(* The breach streak never runs ahead of the cycles that raised the alert. *)
BreachStreakAgrees ==
    MaxCopies = 1 => \A f \in Standard : breachStreak[f] <= breachRun[f]

(* An alert that is not active has been quiet for ClearNeeded cycles since  *)
(* it last was, and for as many more as it has been breaching again.       *)
OpeningsSpaced ==
    MaxCopies = 1 =>
        \A f \in Standard :
            IF f \in active
            THEN IF phase = "checked" THEN sinceOpened[f] + 1 >= clearStreak[f]
                                      ELSE sinceOpened[f] >= clearStreak[f]
            ELSE IF phase = "checked" /\ copies[f] = 0
                 THEN sinceOpened[f] + 1 >= ClearNeeded
                 ELSE sinceOpened[f] >= ClearNeeded + breachStreak[f]

(* The router never takes an alert for sent longer ago than it was. *)
SentAgrees == \A f \in active : sinceSent[f] <= sinceNotified[f]

(* What is stored of an active alert decides whether it may jump the        *)
(* cooldown: it is stored as a warning only when its last batch did not.   *)
RepeatsAgree ==
    \A f \in active :
        /\ severity[f] \in Severities[f] \/ (severity[f] = CRITICAL /\ WARN \in Severities[f])
        /\ sinceNotified[f] <= sinceBefore[f]
        /\ severity[f] = WARN => sinceBefore[f] >= Cooldown

RouterInvariant ==
    /\ ListingAgrees
    /\ ClearStreakOwned
    /\ ClearStreakAgrees
    /\ BreachStreakAgrees
    /\ OpeningsSpaced
    /\ SentAgrees
    /\ RepeatsAgree

-----------------------------------------------------------------------------
(* The promise to the receivers, for the threshold alerts. *)
Promise == INSTANCE AlertLifecycle WITH
    Conditions <- Threshold,
    Instant <- Emergencies,
    open <- open \cap Threshold,
    breachRun <- [f \in Threshold |-> breachRun[f]],
    quietRun <- [f \in Threshold |-> quietRun[f]]

(***************************************************************************)
(* A router nobody reloads, whose batches are never cut short, implements  *)
(* the alert lifecycle of AlertLifecycle.                                  *)
(***************************************************************************)
ImplementsLifecycle == Promise!Spec
=============================================================================
