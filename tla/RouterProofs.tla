---------------------------- MODULE RouterProofs ----------------------------
(***************************************************************************)
(* Proofs about the alert router, for every set of fingerprints and every  *)
(* configuration.  None of them needs the fairness of the specifications.  *)
(*                                                                         *)
(* First the type invariant, the invariant that ties the router's streaks  *)
(* to the history of the conditions, and the properties of AlertObserver   *)
(* that follow from it.                                                    *)
(*                                                                         *)
(* Then the router's promise: AlertObserver implements AlertLifecycle, for *)
(* a router nobody reloads and whose batches are never cut short.          *)
(* RouterInvariant bounds the streaks; there they must be equal to what    *)
(* they count, and what the receivers believe must be tied to _active in   *)
(* the middle of a cycle, too, where a recovery has been taken out of      *)
(* _active and not yet been sent.                                          *)
(*                                                                         *)
(* Last the way from the readings to the router, in MonitoredRouter.       *)
(***************************************************************************)
EXTENDS MonitoredRouter, FiniteSetTheorems, TLAPS

USE DEF Severity, INFO, WARN, CRITICAL, EMERGENCY

LEMMA Limits == BreachNeeded \in Nat /\ BreachNeeded >= 1
                /\ ClearNeeded \in Nat /\ ClearNeeded >= 1
                /\ FlapPeriod \in Nat /\ FlapPeriod = ClearNeeded + BreachNeeded
BY ConfigAssumption DEF BreachNeeded, ClearNeeded, FlapPeriod, AtLeastOne

LEMMA AtMostNat ==
    ASSUME NEW n \in Nat, NEW bound \in Nat
    PROVE  /\ AtMost(n, bound) \in 0..bound
           /\ n <= bound => AtMost(n, bound) = n
           /\ n > bound => AtMost(n, bound) = bound
BY DEF AtMost

LEMMA ThresholdSeverity ==
    ASSUME NEW f \in Standard, NEW s \in Severities[f]
    PROVE  s \in Severity /\ s # EMERGENCY /\ f \in FP \ Intelligence
BY SeveritiesAssumption DEF Standard, Emergencies, Threshold

-----------------------------------------------------------------------------
(* The variables keep their types. *)

LEMMA TypeInit == ObserverInit => ObserverTypeOK
BY Limits, BoundsAssumption, ConfigAssumption
   DEF Init, ObserverInit, ObserverTypeOK, TypeOK, NoTimes, NoSeverity

LEMMA TypeCollect == ObserverTypeOK /\ ObservedCollect => ObserverTypeOK'
<1> SUFFICES ASSUME ObserverTypeOK, ObservedCollect PROVE ObserverTypeOK'
    OBVIOUS
<1> USE DEF ObserverTypeOK, TypeOK
<1>1. PICK gap \in Gaps : CollectAfter(gap)
            /\ sinceNotified' = [f \in FP |-> AtMost(sinceNotified[f] + gap, Cooldown)]
            /\ sinceBefore' = [f \in FP |-> AtMost(sinceBefore[f] + gap, Cooldown)]
            /\ UNCHANGED <<breachRun, quietRun, sinceOpened, open>>
    BY DEF ObservedCollect
<1>2. gap \in Nat
    BY BoundsAssumption
<1>3. copies' \in [FP -> 0..MaxCopies] /\ raised' \in [FP -> Severity]
    <2>1. PICK l \in Listings : copies' = l.copies /\ raised' = l.raised
        BY <1>1 DEF CollectAfter
    <2>2. l \in [copies : [FP -> 0..MaxCopies], raised : [FP -> Severity]]
        BY DEF Listings
    <2> QED BY <2>1, <2>2
<1>4. sinceFirst' \in [FP -> 0..(Escalation + 1)]
    BY <1>1, <1>2, ConfigAssumption DEF CollectAfter, AtMost
<1>5. /\ sinceSent' \in [FP -> 0..Cooldown]
      /\ sinceNotified' \in [FP -> 0..Cooldown] /\ sinceBefore' \in [FP -> 0..Cooldown]
    BY <1>1, <1>2, ConfigAssumption DEF CollectAfter, AtMost
<1>6. phase' \in {"asleep", "evaluated", "checked"}
      /\ UNCHANGED <<active, severity, breachStreak, clearStreak, breachRun, quietRun,
                     sinceOpened, open>>
      /\ recovered' = {} /\ sent' = {} /\ sentRecoveries' = {}
    BY <1>1 DEF CollectAfter
<1> QED BY <1>3, <1>4, <1>5, <1>6

LEMMA TypeCheck == ObserverTypeOK /\ ObservedCheckRecovery => ObserverTypeOK'
<1> SUFFICES ASSUME ObserverTypeOK, ObservedCheckRecovery PROVE ObserverTypeOK'
    OBVIOUS
<1> USE DEF ObserverTypeOK, TypeOK
<1>1. clearStreak' \in [FP -> 0..ClearNeeded]
    <2>1. CASE ~RecoveryNotifications
        BY <2>1 DEF ObservedCheckRecovery, CheckRecovery
    <2>2. CASE RecoveryNotifications
        <3>1. clearStreak' = [f \in FP |-> NewClearStreak(f)]
            BY <2>2 DEF ObservedCheckRecovery, CheckRecovery
        <3>2. \A f \in FP : NewClearStreak(f) \in 0..ClearNeeded
            BY Limits DEF NewClearStreak, Recovers
        <3> QED BY <3>1, <3>2
    <2> QED BY <2>1, <2>2
<1>2. /\ recovered' \subseteq FP /\ active' \subseteq FP
      /\ severity' \in [FP -> Severity]
      /\ sinceFirst' \in [FP -> 0..(Escalation + 1)]
      /\ sinceSent' \in [FP -> 0..Cooldown]
    <2>1. CASE ~RecoveryNotifications
        BY <2>1 DEF ObservedCheckRecovery, CheckRecovery, activeVars
    <2>2. CASE RecoveryNotifications
        BY <2>2, ConfigAssumption DEF ObservedCheckRecovery, CheckRecovery
    <2> QED BY <2>1, <2>2
<1>3. phase' \in {"asleep", "evaluated", "checked"}
      /\ UNCHANGED <<copies, raised, sent, sentRecoveries, breachStreak, breachRun,
                     quietRun, sinceOpened, open, sinceNotified, sinceBefore>>
    BY DEF ObservedCheckRecovery, CheckRecovery, observerVars
<1> QED BY <1>1, <1>2, <1>3

LEMMA TypeDispatch == ObserverTypeOK /\ ObservedDispatch => ObserverTypeOK'
<1> SUFFICES ASSUME ObserverTypeOK, ObservedDispatch PROVE ObserverTypeOK'
    OBVIOUS
<1> USE DEF ObserverTypeOK, TypeOK
<1>1. breachStreak' \in [FP -> 0..BreachNeeded]
    <2>1. \A f \in FP : NewStreak(f) \in 0..BreachNeeded
        BY Limits, BoundsAssumption DEF NewStreak, AtMost
    <2> QED BY <2>1 DEF ObservedDispatch, Dispatch
<1>2. breachRun' \in [FP -> 0..BreachNeeded] /\ quietRun' \in [FP -> 0..ClearNeeded]
    BY Limits DEF ObservedDispatch, NextBreachRun, NextQuietRun, AtMost
<1>3. sinceOpened' \in [FP -> 0..FlapPeriod]
    BY Limits DEF ObservedDispatch, AtMost
<1>4. ToSend \subseteq FP /\ Batch \subseteq ToSend
    BY DEF ToSend, Batch
<1>5. active' \subseteq FP
    BY <1>4 DEF ObservedDispatch, Dispatch
<1>6. severity' \in [FP -> Severity]
    BY DEF ObservedDispatch, Dispatch
<1>7. /\ sinceFirst' \in [FP -> 0..(Escalation + 1)]
      /\ sinceSent' \in [FP -> 0..Cooldown]
      /\ sinceNotified' \in [FP -> 0..Cooldown] /\ sinceBefore' \in [FP -> 0..Cooldown]
    BY ConfigAssumption DEF ObservedDispatch, Dispatch
<1>8. sent' \subseteq FP /\ sentRecoveries' \subseteq FP /\ open' \subseteq FP
    BY <1>4 DEF ObservedDispatch, Dispatch, RecoveryBatches
<1>9. phase' \in {"asleep", "evaluated", "checked"}
      /\ UNCHANGED <<copies, raised, recovered, clearStreak>>
    BY DEF ObservedDispatch, Dispatch
<1> QED BY <1>1, <1>2, <1>3, <1>5, <1>6, <1>7, <1>8, <1>9

LEMMA TypeStep == ObserverTypeOK /\ [ObserverNext]_obsVars => ObserverTypeOK'
<1> SUFFICES ASSUME ObserverTypeOK, [ObserverNext]_obsVars PROVE ObserverTypeOK'
    OBVIOUS
<1>1. CASE ObservedCollect
    BY <1>1, TypeCollect
<1>2. CASE ObservedCheckRecovery
    BY <1>2, TypeCheck
<1>3. CASE ObservedDispatch
    BY <1>3, TypeDispatch
<1>4. CASE ObservedCycleFails
    BY <1>4 DEF ObserverTypeOK, TypeOK, ObservedCycleFails, CycleFails, activeVars,
        observerVars
<1>5. CASE ObservedReload
    BY <1>5, Limits, ConfigAssumption
       DEF ObserverTypeOK, TypeOK, ObservedReload, Reload, NoTimes, NoSeverity, cycleVars
<1>6. CASE UNCHANGED obsVars
    BY <1>6 DEF ObserverTypeOK, TypeOK, obsVars, vars, cycleVars, activeVars, observerVars
<1> QED BY <1>1, <1>2, <1>3, <1>4, <1>5, <1>6 DEF ObserverNext, ObservedCycle

(* In every behaviour of the router, reloads and failed cycles included,    *)
(* every variable keeps its type: streaks and ages stay within the bounds   *)
(* beyond which the code no longer distinguishes them.                      *)
THEOREM RouterTypes == ObserverSafety => []ObserverTypeOK
<1> QED BY TypeInit, TypeStep, PTL DEF ObserverSafety

-----------------------------------------------------------------------------
(* The streaks agree with the history. *)

LEMMA InvariantInit == ObserverInit => RouterInvariant
BY Limits, ConfigAssumption
   DEF Init, ObserverInit, RouterInvariant, ListingAgrees, ClearStreakOwned,
       ClearStreakAgrees, BreachStreakAgrees, OpeningsSpaced, SentAgrees,
       RepeatsAgree, NoTimes, NoSeverity, Standard, Threshold

LEMMA InvariantCollect ==
    ObserverTypeOK /\ RouterInvariant /\ ObservedCollect => RouterInvariant'
<1> SUFFICES ASSUME ObserverTypeOK, RouterInvariant, ObservedCollect
             PROVE  RouterInvariant'
    OBVIOUS
<1> USE DEF ObserverTypeOK, TypeOK, RouterInvariant
<1>1. PICK gap \in Gaps : CollectAfter(gap)
            /\ sinceNotified' = [f \in FP |-> AtMost(sinceNotified[f] + gap, Cooldown)]
            /\ sinceBefore' = [f \in FP |-> AtMost(sinceBefore[f] + gap, Cooldown)]
            /\ UNCHANGED <<breachRun, quietRun, sinceOpened, open>>
    BY DEF ObservedCollect
<1>2. gap \in Nat
    BY BoundsAssumption
<1>3. /\ phase = "asleep" /\ phase' = "evaluated"
      /\ UNCHANGED <<active, severity, breachStreak, clearStreak, breachRun, quietRun,
                     sinceOpened>>
    BY <1>1 DEF CollectAfter
<1>4. ListingAgrees'
    BY <1>1 DEF CollectAfter, Listings, ListingAgrees
<1>5. SentAgrees'
    <2> SUFFICES ASSUME NEW f \in active PROVE sinceSent'[f] <= sinceNotified'[f]
        BY <1>3 DEF SentAgrees
    <2>1. sinceSent[f] <= sinceNotified[f] /\ f \in FP
        BY DEF SentAgrees
    <2>2. sinceSent'[f] = AtMost(sinceSent[f] + gap, Cooldown)
          /\ sinceNotified'[f] = AtMost(sinceNotified[f] + gap, Cooldown)
        BY <1>1, <2>1 DEF CollectAfter
    <2> QED BY <1>2, <2>1, <2>2, ConfigAssumption DEF AtMost
<1>6. RepeatsAgree'
    <2> SUFFICES ASSUME NEW f \in active
                 PROVE  /\ sinceNotified'[f] <= sinceBefore'[f]
                        /\ severity[f] = WARN => sinceBefore'[f] >= Cooldown
        BY <1>3 DEF RepeatsAgree
    <2>1. /\ sinceNotified[f] <= sinceBefore[f] /\ f \in FP
          /\ severity[f] = WARN => sinceBefore[f] >= Cooldown
        BY DEF RepeatsAgree
    <2>2. sinceNotified'[f] = AtMost(sinceNotified[f] + gap, Cooldown)
          /\ sinceBefore'[f] = AtMost(sinceBefore[f] + gap, Cooldown)
        BY <1>1, <2>1
    <2> QED BY <1>2, <2>1, <2>2, ConfigAssumption DEF AtMost
<1> QED BY <1>3, <1>4, <1>5, <1>6 DEF ClearStreakOwned, ClearStreakAgrees, BreachStreakAgrees,
        OpeningsSpaced

LEMMA InvariantCheck ==
    ObserverTypeOK /\ RouterInvariant /\ ObservedCheckRecovery => RouterInvariant'
<1> SUFFICES ASSUME ObserverTypeOK, RouterInvariant, ObservedCheckRecovery
             PROVE  RouterInvariant'
    OBVIOUS
<1> USE DEF ObserverTypeOK, TypeOK, RouterInvariant
<1>1. /\ phase = "evaluated" /\ phase' = "checked"
      /\ UNCHANGED <<copies, raised, breachStreak, breachRun, quietRun, sinceOpened,
                     sinceNotified, sinceBefore>>
    BY DEF ObservedCheckRecovery, CheckRecovery, observerVars
<1>2. CASE ~RecoveryNotifications
    <2>1. UNCHANGED <<active, severity, sinceSent, clearStreak>>
        BY <1>2 DEF ObservedCheckRecovery, CheckRecovery, activeVars
    <2>2. \A f \in FP : clearStreak[f] = 0
        BY <1>2 DEF ClearStreakOwned
    <2>3. OpeningsSpaced'
        BY <1>1, <2>1, <2>2, Limits DEF OpeningsSpaced, Standard, Threshold
    <2> QED BY <1>1, <1>2, <2>1, <2>3 DEF ListingAgrees, ClearStreakOwned,
            ClearStreakAgrees, BreachStreakAgrees, SentAgrees, RepeatsAgree
<1>3. CASE RecoveryNotifications
    <2>1. /\ active' = {f \in active : ~Recovers(f)}
          /\ clearStreak' = [f \in FP |-> NewClearStreak(f)]
          /\ \A f \in active' : sinceSent'[f] = sinceSent[f] /\ severity'[f] = severity[f]
        BY <1>3 DEF ObservedCheckRecovery, CheckRecovery
    <2>2. ClearStreakOwned'
        BY <1>3, <2>1, Limits DEF ClearStreakOwned, NewClearStreak, Recovers, Resolved
    <2>3. ClearStreakAgrees'
        <3> SUFFICES ASSUME NEW f \in active', f \in Threshold
                     PROVE  IF copies[f] > 0 THEN clearStreak'[f] = 0
                            ELSE /\ clearStreak'[f] = quietRun[f] + 1
                                 /\ clearStreak'[f] < ClearNeeded
            BY <1>1 DEF ClearStreakAgrees
        <3>1. f \in FP \ Intelligence /\ f \in active /\ ~Recovers(f)
            BY <2>1 DEF Threshold
        <3>2. clearStreak[f] = quietRun[f] /\ quietRun[f] < ClearNeeded
            BY <1>1, <1>3, <3>1 DEF ClearStreakAgrees, Threshold
        <3>3. Resolved(f) <=> ~(copies[f] > 0)
            BY <3>1 DEF Resolved, CurrentFps
        <3>4. clearStreak'[f] = IF copies[f] > 0 THEN 0 ELSE clearStreak[f] + 1
            BY <2>1, <3>1, <3>3 DEF NewClearStreak
        <3> QED BY <3>1, <3>2, <3>3, <3>4, Limits DEF Recovers
    <2>4. OpeningsSpaced'
        <3> SUFFICES ASSUME MaxCopies = 1, NEW f \in Standard
                     PROVE  IF f \in active'
                            THEN sinceOpened[f] + 1 >= clearStreak'[f]
                            ELSE IF copies[f] = 0
                                 THEN sinceOpened[f] + 1 >= ClearNeeded
                                 ELSE sinceOpened[f] >= ClearNeeded + breachStreak[f]
            BY <1>1 DEF OpeningsSpaced
        <3>1. f \in FP \ Intelligence
            BY DEF Standard, Threshold
        <3>2. IF f \in active THEN sinceOpened[f] >= clearStreak[f]
              ELSE sinceOpened[f] >= ClearNeeded + breachStreak[f]
            BY <1>1 DEF OpeningsSpaced
        <3>3. clearStreak'[f] = NewClearStreak(f)
            BY <2>1, <3>1
        <3>4. CASE f \in active'
            BY <2>1, <3>1, <3>2, <3>3, <3>4, Limits DEF NewClearStreak
        <3>5. CASE f \in active /\ f \notin active'
            BY <2>1, <3>1, <3>2, <3>5, Limits DEF Recovers, Resolved, CurrentFps
        <3>6. CASE f \notin active
            BY <2>1, <3>1, <3>2, <3>6, Limits
        <3> QED BY <3>4, <3>5, <3>6
    <2>5. SentAgrees' /\ RepeatsAgree'
        BY <1>1, <2>1 DEF SentAgrees, RepeatsAgree
    <2> QED BY <1>1, <2>2, <2>3, <2>4, <2>5 DEF ListingAgrees, BreachStreakAgrees
<1> QED BY <1>2, <1>3

(* An active alert that grew no more severe and did not escalate is sent    *)
(* only when its cooldown is over; what grows more severe was a warning.   *)
LEMMA StoredWhenSentAgain ==
    ASSUME ObserverTypeOK, SentAgrees, RepeatsAgree, ListingAgrees, NEW f \in active, f \in ToSend
    PROVE  \/ Escalates(f) /\ severity[f] = WARN
           \/ severity[f] = WARN /\ raised[f] = CRITICAL
           \/ sinceNotified[f] >= Cooldown
<1>1. /\ f \in FP /\ copies[f] > 0 /\ raised[f] \in Severities[f]
      /\ sinceSent[f] \in 0..Cooldown /\ sinceNotified[f] \in 0..Cooldown
      /\ raised[f] \in Severity /\ severity[f] \in Severity
    BY DEF ToSend, Passes, ListingAgrees, ObserverTypeOK, TypeOK
<1>2. CASE Escalates(f)
    BY <1>2 DEF Escalates
<1>3. CASE ~CoolingDown(f)
    <2>1. sinceSent[f] <= sinceNotified[f]
        BY DEF SentAgrees
    <2>2. CASE sinceSent[f] >= Cooldown
        BY <1>1, <2>1, <2>2, ConfigAssumption
    <2>3. CASE raised[f] > severity[f]
        <3>1. f \in Intelligence => severity[f] = WARN /\ raised[f] = CRITICAL
            BY <1>1, <2>3, SeveritiesAssumption DEF RepeatsAgree
        <3>2. f \notin Intelligence => FALSE
            <4>1. SUFFICES ASSUME f \notin Intelligence PROVE FALSE
                OBVIOUS
            <4>2. PICK s \in Severity : Severities[f] = {s}
                BY <1>1, <4>1, SeveritiesAssumption
            <4> QED BY <1>1, <2>3, <4>2 DEF RepeatsAgree
        <3> QED BY <3>1, <3>2
    <2> QED BY <1>1, <1>3, <2>2, <2>3, ConfigAssumption DEF CoolingDown
<1> QED BY <1>2, <1>3 DEF ToSend

LEMMA InvariantDispatch ==
    ObserverTypeOK /\ RouterInvariant /\ ObservedDispatch => RouterInvariant'
<1> SUFFICES ASSUME ObserverTypeOK, RouterInvariant, ObservedDispatch
             PROVE  RouterInvariant'
    OBVIOUS
<1> USE DEF ObserverTypeOK, TypeOK, RouterInvariant
<1>1. /\ phase = "checked" /\ phase' = "asleep"
      /\ active' = active \cup ToSend
      /\ breachStreak' = [f \in FP |-> NewStreak(f)]
      /\ sinceSent' = [f \in FP |-> IF f \in ToSend THEN 0 ELSE sinceSent[f]]
      /\ UNCHANGED <<copies, raised, recovered, clearStreak>>
      /\ sent' = Batch
    BY DEF ObservedDispatch, Dispatch
<1>2. /\ breachRun' = [f \in FP |-> NextBreachRun(f)]
      /\ quietRun' = [f \in FP |-> NextQuietRun(f)]
      /\ sinceOpened' = [f \in FP |-> IF f \in ToSend \ active THEN 0
                                      ELSE AtMost(sinceOpened[f] + 1, FlapPeriod)]
      /\ sinceNotified' = [f \in FP |-> IF f \in sent' THEN 0 ELSE sinceNotified[f]]
      /\ sinceBefore' = [f \in FP |-> IF f \in ToSend \ active THEN Cooldown
                                      ELSE IF f \in sent' THEN sinceNotified[f]
                                      ELSE sinceBefore[f]]
    BY DEF ObservedDispatch
<1>3. \A f \in ToSend : f \in FP /\ copies[f] > 0
    BY DEF ToSend, Passes
<1>4. \A f \in Standard : f \in FP /\ f \in Threshold /\ (Debounced(f) <=> copies[f] > 0)
    BY ThresholdSeverity DEF Debounced, ListingAgrees, Standard, Threshold
<1>5. ListingAgrees' /\ ClearStreakOwned'
    BY <1>1 DEF ListingAgrees, ClearStreakOwned
<1>6. ClearStreakAgrees'
    <2> SUFFICES ASSUME RecoveryNotifications, NEW f \in active', f \in Threshold
                 PROVE  clearStreak[f] = quietRun'[f] /\ quietRun'[f] < ClearNeeded
        BY <1>1 DEF ClearStreakAgrees
    <2>0. f \in FP /\ quietRun'[f] = NextQuietRun(f)
        BY <1>2 DEF Threshold
    <2>1. CASE f \in active
        BY <1>1, <2>0, <2>1, Limits DEF ClearStreakAgrees, NextQuietRun, AtMost
    <2>2. CASE f \notin active
        BY <1>1, <1>3, <2>0, <2>2, Limits DEF ClearStreakOwned, NextQuietRun
    <2> QED BY <2>1, <2>2
<1>7. BreachStreakAgrees'
    <2> SUFFICES ASSUME MaxCopies = 1, NEW f \in Standard
                 PROVE  breachStreak'[f] <= breachRun'[f]
        BY DEF BreachStreakAgrees
    <2>1. breachStreak[f] <= breachRun[f] /\ f \in FP
        BY <1>4 DEF BreachStreakAgrees
    <2> QED BY <1>1, <1>2, <1>4, <2>1, Limits DEF NewStreak, NextBreachRun, AtMost
<1>8. OpeningsSpaced'
    <2> SUFFICES ASSUME MaxCopies = 1, NEW f \in Standard
                 PROVE  IF f \in active' THEN sinceOpened'[f] >= clearStreak[f]
                        ELSE sinceOpened'[f] >= ClearNeeded + breachStreak'[f]
        BY <1>1 DEF OpeningsSpaced
    <2>1. f \in FP /\ (Debounced(f) <=> copies[f] > 0) /\ copies[f] \in 0..1
        BY <1>4
    <2>2. CASE f \in active
        BY <1>1, <1>2, <2>1, <2>2, Limits DEF OpeningsSpaced, AtMost
    <2>3. CASE f \in ToSend \ active
        BY <1>1, <1>2, <2>1, <2>3, Limits DEF ClearStreakOwned
    <2>4. CASE f \notin active /\ f \notin ToSend
        BY <1>1, <1>2, <2>1, <2>4, Limits DEF OpeningsSpaced, NewStreak, AtMost
    <2> QED BY <2>2, <2>3, <2>4
<1>9. SentAgrees'
    <2>1. sent' \subseteq ToSend
        BY <1>1 DEF Batch
    <2> QED BY <1>1, <1>2, <1>3, <2>1 DEF SentAgrees
<1>10. RepeatsAgree'
    <2> SUFFICES ASSUME NEW f \in active'
                 PROVE  /\ \/ severity'[f] \in Severities[f]
                           \/ severity'[f] = CRITICAL /\ WARN \in Severities[f]
                        /\ sinceNotified'[f] <= sinceBefore'[f]
                        /\ severity'[f] = WARN => sinceBefore'[f] >= Cooldown
        BY DEF RepeatsAgree
    <2>1. /\ f \in FP /\ sent' \subseteq ToSend
          /\ sinceNotified[f] \in 0..Cooldown /\ sinceBefore[f] \in 0..Cooldown
          /\ severity'[f] = IF Escalates(f) THEN CRITICAL
                            ELSE IF f \in ToSend THEN raised[f] ELSE severity[f]
        BY <1>1, <1>3 DEF ObservedDispatch, Dispatch, Batch
    <2>2. f \in ToSend => raised[f] \in Severities[f]
        BY <1>3 DEF ListingAgrees
    <2>3. CASE f \notin active
        BY <1>1, <1>2, <2>1, <2>2, <2>3, ConfigAssumption DEF Escalates
    <2>4. CASE f \in active
        <3>1. /\ severity[f] \in Severities[f] \/ (severity[f] = CRITICAL /\ WARN \in Severities[f])
              /\ sinceNotified[f] <= sinceBefore[f]
              /\ severity[f] = WARN => sinceBefore[f] >= Cooldown
            BY <2>4 DEF RepeatsAgree
        <3>2. /\ sinceNotified'[f] = IF f \in sent' THEN 0 ELSE sinceNotified[f]
              /\ sinceBefore'[f] = IF f \in sent' THEN sinceNotified[f] ELSE sinceBefore[f]
            BY <1>2, <2>1, <2>4
        <3>3. Escalates(f) => severity[f] = WARN
            BY DEF Escalates
        <3>4. f \in ToSend /\ severity'[f] = WARN => sinceNotified[f] >= Cooldown
            BY <2>1, <2>4, StoredWhenSentAgain
        <3> QED BY <2>1, <2>2, <3>1, <3>2, <3>3, <3>4, ConfigAssumption
    <2> QED BY <2>3, <2>4
<1> QED BY <1>5, <1>6, <1>7, <1>8, <1>9, <1>10

LEMMA InvariantReload ==
    ObserverTypeOK /\ RouterInvariant /\ ObservedReload => RouterInvariant'
BY Limits DEF ObserverTypeOK, TypeOK, RouterInvariant, ObservedReload, Reload, cycleVars,
    NoTimes, NoSeverity, ListingAgrees, ClearStreakOwned, ClearStreakAgrees,
    BreachStreakAgrees, OpeningsSpaced, SentAgrees, RepeatsAgree, Standard, Threshold

LEMMA InvariantCycleFails ==
    ObserverTypeOK /\ RouterInvariant /\ ObservedCycleFails => RouterInvariant'
BY DEF RouterInvariant, ObservedCycleFails, CycleFails, activeVars, observerVars,
    ListingAgrees, ClearStreakOwned, ClearStreakAgrees, BreachStreakAgrees,
    OpeningsSpaced, SentAgrees, RepeatsAgree

LEMMA InvariantStutter ==
    RouterInvariant /\ UNCHANGED obsVars => RouterInvariant'
BY DEF RouterInvariant, obsVars, vars, cycleVars, activeVars, observerVars,
    ListingAgrees, ClearStreakOwned, ClearStreakAgrees, BreachStreakAgrees,
    OpeningsSpaced, SentAgrees, RepeatsAgree

LEMMA InvariantStep ==
    ObserverTypeOK /\ RouterInvariant /\ [ObserverNext]_obsVars => RouterInvariant'
BY InvariantCollect, InvariantCheck, InvariantDispatch, InvariantReload,
   InvariantCycleFails, InvariantStutter DEF ObserverNext, ObservedCycle

(* In every behaviour the streaks the router keeps agree with the history   *)
(* of the conditions (RouterInvariant).                                     *)
THEOREM StreaksAgree == ObserverSafety => []RouterInvariant
<1> QED BY InvariantInit, InvariantStep, RouterTypes, PTL DEF ObserverSafety

-----------------------------------------------------------------------------
(* What follows for the properties of AlertObserver. *)

(* Between two cycles every active threshold alert was raised within the    *)
(* last ClearNeeded cycles, as long as recovery notifications are on        *)
(* (_check_recovery).                                                       *)
THEOREM NeverStale == ObserverSafety => []NoStaleActive
<1>1. RouterInvariant => NoStaleActive
    BY DEF RouterInvariant, ClearStreakAgrees, NoStaleActive
<1> QED BY <1>1, StreaksAgree, PTL

(* A step that takes up a fingerprint is dispatch, sending it.              *)
LEMMA TakenUp ==
    ASSUME ObserverTypeOK, [ObserverNext]_obsVars, NEW f, Becomes(f)
    PROVE  ObservedDispatch /\ f \in ToSend \ active
<1>1. CASE ObservedCheckRecovery
    BY <1>1 DEF ObservedCheckRecovery, CheckRecovery, Becomes, activeVars
<1>2. CASE ObservedCollect
    BY <1>2 DEF ObservedCollect, CollectAfter, Becomes
<1>3. CASE ObservedCycleFails
    BY <1>3 DEF ObservedCycleFails, CycleFails, activeVars, Becomes
<1>4. CASE ObservedReload
    BY <1>4 DEF ObservedReload, Reload, Becomes
<1>5. CASE ObservedDispatch
    BY <1>5 DEF ObservedDispatch, Dispatch, Becomes
<1>6. CASE UNCHANGED obsVars
    BY <1>6 DEF obsVars, vars, activeVars, Becomes
<1> QED BY <1>1, <1>2, <1>3, <1>4, <1>5, <1>6 DEF ObserverNext, ObservedCycle

(* A standard alert is sent for the first time only by the dispatch that    *)
(* completes its breach streak.                                             *)
LEMMA StreakComplete ==
    ASSUME ObserverTypeOK, RouterInvariant, NEW f \in Standard, f \in ToSend \ active
    PROVE  /\ f \in FP /\ copies[f] > 0
           /\ NewStreak(f) >= BreachNeeded
           /\ NewStreak(f) = AtMost(breachStreak[f] + copies[f], BreachNeeded)
<1>1. f \in FP \ Intelligence /\ copies[f] > 0 /\ copies[f] \in Nat
    BY BoundsAssumption DEF Standard, Threshold, ToSend, Passes, ObserverTypeOK, TypeOK
<1>2. Debounced(f)
    BY <1>1, ThresholdSeverity DEF RouterInvariant, ListingAgrees, Debounced
<1> QED BY <1>1, <1>2 DEF ToSend, Passes, NewStreak

(* If no list holds a fingerprint twice, a standard alert fires only after  *)
(* BreachNeeded consecutive cycles of its condition, through any reloads    *)
(* and failed cycles (dispatch's debounce).                                 *)
THEOREM Debounce == MaxCopies = 1 => (ObserverSafety => DebouncedStart)
<1>1. ASSUME MaxCopies = 1, ObserverTypeOK, RouterInvariant, [ObserverNext]_obsVars,
             NEW f \in Standard, Becomes(f)
      PROVE  breachRun'[f] >= BreachNeeded
    <2>1. ObservedDispatch /\ f \in ToSend \ active
        BY <1>1, TakenUp
    <2>2. f \in FP /\ copies[f] > 0 /\ NewStreak(f) >= BreachNeeded
          /\ NewStreak(f) = AtMost(breachStreak[f] + copies[f], BreachNeeded)
        BY <1>1, <2>1, StreakComplete
    <2>3. copies[f] = 1 /\ breachStreak[f] \in Nat /\ breachRun[f] \in Nat
          /\ breachStreak[f] <= breachRun[f]
        BY <1>1, <2>2, Limits DEF ObserverTypeOK, TypeOK, RouterInvariant, BreachStreakAgrees
    <2>4. breachStreak[f] + 1 >= BreachNeeded
        BY <2>2, <2>3, Limits DEF AtMost
    <2>5. breachRun'[f] = AtMost(breachRun[f] + 1, BreachNeeded)
        BY <2>1, <2>2 DEF ObservedDispatch, NextBreachRun
    <2> QED BY <2>3, <2>4, <2>5, Limits DEF AtMost
<1>2. MaxCopies = 1 /\ ObserverTypeOK /\ RouterInvariant /\ [ObserverNext]_obsVars
      => [\A f \in Standard : Becomes(f) => breachRun'[f] >= BreachNeeded]_obsVars
    BY <1>1
<1>3. SUFFICES ASSUME MaxCopies = 1 PROVE ObserverSafety => DebouncedStart
    OBVIOUS
<1> QED BY <1>2, <1>3, RouterTypes, StreaksAgree, PTL DEF ObserverSafety, DebouncedStart

(* A threshold alert is given up as recovered only after ClearNeeded        *)
(* consecutive cycles without its condition (_check_recovery's hysteresis). *)
THEOREM Hysteresis == ObserverSafety => SustainedRecovery
<1>1. ASSUME ObserverTypeOK, RouterInvariant, [ObserverNext]_obsVars
      PROVE  ClearedAfterQuiet(Threshold)
    <2> SUFFICES ASSUME Checking, NEW f \in Threshold, f \in active \ active'
                 PROVE  NextQuietRun(f) >= ClearNeeded
        BY DEF ClearedAfterQuiet
    <2>1. phase = "evaluated" /\ phase' = "checked"
        BY DEF Checking
    <2>2. CheckRecovery
        BY <1>1, <2>1 DEF ObserverNext, ObservedCycle, ObservedCollect, CollectAfter,
            ObservedCheckRecovery, ObservedDispatch, Dispatch, ObservedCycleFails, CycleFails,
            ObservedReload, Reload, obsVars, vars, cycleVars
    <2>3. RecoveryNotifications /\ Recovers(f) /\ f \in FP \ Intelligence
        BY <2>2 DEF CheckRecovery, activeVars, Threshold
    <2>4. copies[f] = 0 /\ clearStreak[f] + 1 >= ClearNeeded
        BY <1>1, <2>3, BoundsAssumption
           DEF Recovers, Resolved, CurrentFps, ObserverTypeOK, TypeOK
    <2>5. clearStreak[f] = quietRun[f] /\ quietRun[f] < ClearNeeded /\ quietRun[f] \in Nat
        BY <1>1, <2>1, <2>3, Limits
           DEF RouterInvariant, ClearStreakAgrees, ObserverTypeOK
    <2> QED BY <2>4, <2>5, Limits DEF NextQuietRun, AtMost
<1> QED BY <1>1, RouterTypes, StreaksAgree, PTL DEF ObserverSafety, SustainedRecovery

(* One router takes up the same standard alert twice only with ClearNeeded  *)
(* and then BreachNeeded cycles in between: a metric that oscillates across *)
(* its threshold produces no storm of alerts and recoveries.                *)
THEOREM FlapSuppression == MaxCopies = 1 => (ObserverSafety => FlapSuppressed)
<1>1. ASSUME MaxCopies = 1, ObserverTypeOK, RouterInvariant, [ObserverNext]_obsVars,
             NEW f \in Standard, Becomes(f)
      PROVE  sinceOpened[f] + 1 >= FlapPeriod
    <2>1. ObservedDispatch /\ f \in ToSend \ active
        BY <1>1, TakenUp
    <2>2. f \in FP /\ copies[f] > 0 /\ NewStreak(f) >= BreachNeeded
          /\ NewStreak(f) = AtMost(breachStreak[f] + copies[f], BreachNeeded)
        BY <1>1, <2>1, StreakComplete
    <2>3. copies[f] = 1 /\ breachStreak[f] \in Nat /\ sinceOpened[f] \in Nat
        BY <1>1, <2>2, Limits DEF ObserverTypeOK, TypeOK
    <2>4. breachStreak[f] + 1 >= BreachNeeded
        BY <2>2, <2>3, Limits DEF AtMost
    <2>5. sinceOpened[f] >= ClearNeeded + breachStreak[f]
        BY <1>1, <2>1, <2>3 DEF RouterInvariant, OpeningsSpaced
    <2> QED BY <2>3, <2>4, <2>5, Limits
<1>2. MaxCopies = 1 /\ ObserverTypeOK /\ RouterInvariant /\ [ObserverNext]_obsVars
      => [\A f \in Standard : Dispatching /\ Becomes(f) => sinceOpened[f] + 1 >= FlapPeriod]_obsVars
    BY <1>1
<1>3. SUFFICES ASSUME MaxCopies = 1 PROVE ObserverSafety => FlapSuppressed
    OBVIOUS
<1> QED BY <1>2, <1>3, RouterTypes, StreaksAgree, PTL DEF ObserverSafety, FlapSuppressed

(* An alert that stayed active is sent again within the cooldown of the     *)
(* last batch that held it only to escalate or because it grew more severe. *)
THEOREM CooldownKept == ObserverSafety => CooldownWhileActive
<1>1. ASSUME ObserverTypeOK, RouterInvariant, [ObserverNext]_obsVars, Dispatching,
             NEW f \in active, f \in sent'
      PROVE  Escalates(f) \/ raised[f] > severity[f] \/ sinceNotified[f] >= Cooldown
    <2>1. Dispatch
        BY <1>1 DEF Dispatching, ObserverNext, ObservedCycle, ObservedCollect, CollectAfter,
            ObservedCheckRecovery, CheckRecovery, ObservedDispatch, ObservedCycleFails,
            CycleFails, ObservedReload, Reload, obsVars, vars, cycleVars
    <2>2. f \in ToSend /\ f \in FP
        BY <1>1, <2>1 DEF Dispatch, Batch, ToSend
    <2>3. Escalates(f) \/ ~CoolingDown(f)
        BY <2>2 DEF ToSend
    <2>4. /\ raised[f] \in Int /\ severity[f] \in Int
          /\ sinceSent[f] \in Int /\ sinceNotified[f] \in Int
          /\ sinceSent[f] <= sinceNotified[f]
        BY <1>1, <2>2, ConfigAssumption
           DEF ObserverTypeOK, TypeOK, RouterInvariant, SentAgrees
    <2> QED BY <1>1, <2>3, <2>4, ConfigAssumption DEF CoolingDown
<1>2. ObserverTypeOK /\ RouterInvariant /\ [ObserverNext]_obsVars
      => [Dispatching => \A f \in active \cap sent' :
            Escalates(f) \/ raised[f] > severity[f] \/ sinceNotified[f] >= Cooldown]_obsVars
    BY <1>1
<1> QED BY <1>2, RouterTypes, StreaksAgree, PTL DEF ObserverSafety, CooldownWhileActive

(* Whatever is escalated, raised with another severity, cut from a batch or *)
(* overwritten in _active, and with recoveries on or off: of three batches  *)
(* that held an alert while it stayed active, the first and the last lie a  *)
(* cooldown apart (dispatch's escalation and cooldown).                     *)
THEOREM RepeatsKept == ObserverSafety => RepeatsSpaced
<1>1. ASSUME ObserverTypeOK, RouterInvariant, [ObserverNext]_obsVars, Dispatching,
             NEW f \in active, f \in sent'
      PROVE  sinceBefore[f] >= Cooldown
    <2>1. Dispatch
        BY <1>1 DEF Dispatching, ObserverNext, ObservedCycle, ObservedCollect, CollectAfter,
            ObservedCheckRecovery, CheckRecovery, ObservedDispatch, ObservedCycleFails,
            CycleFails, ObservedReload, Reload, obsVars, vars, cycleVars
    <2>2. f \in ToSend /\ f \in FP
        BY <1>1, <2>1 DEF Dispatch, Batch, ToSend
    <2>3. severity[f] = WARN \/ sinceNotified[f] >= Cooldown
        BY <1>1, <2>2, StoredWhenSentAgain DEF RouterInvariant
    <2>4. /\ sinceNotified[f] \in Int /\ sinceBefore[f] \in Int
          /\ sinceNotified[f] <= sinceBefore[f]
          /\ severity[f] = WARN => sinceBefore[f] >= Cooldown
        BY <1>1, <2>2, ConfigAssumption DEF ObserverTypeOK, TypeOK, RouterInvariant, RepeatsAgree
    <2> QED BY <2>3, <2>4, ConfigAssumption
<1>2. ObserverTypeOK /\ RouterInvariant /\ [ObserverNext]_obsVars
      => [Dispatching => \A f \in active \cap sent' : sinceBefore[f] >= Cooldown]_obsVars
    BY <1>1
<1> QED BY <1>2, RouterTypes, StreaksAgree, PTL DEF ObserverSafety, RepeatsSpaced

-----------------------------------------------------------------------------
(* ------------------------- The router's promise ------------------------- *)

(* Room for every fingerprint twice: as an alert and as a recovery.        *)
RoomForAll == MaxPerDispatch >= 2 * Cardinality(FP)

(* What was recovered has been quiet for long enough, this cycle included. *)
RecoveredQuiet ==
    /\ phase = "evaluated" => recovered = {}
    /\ phase = "checked" =>
        /\ recovered \cap active = {}
        /\ \A f \in recovered \cap Threshold :
              copies[f] = 0 /\ NextQuietRun(f) = ClearNeeded

ReceiversAgree ==
    open \cap Threshold =
        (IF phase = "checked" THEN active \cup recovered ELSE active) \cap Threshold

BreachStreakExact == MaxCopies = 1 => \A f \in Standard : breachStreak[f] = breachRun[f]

PromiseInvariant == RecoveredQuiet /\ ReceiversAgree /\ BreachStreakExact

SteadyNext == ObservedCycle \/ ObservedCycleFails

-----------------------------------------------------------------------------
LEMMA SteadyIsObserved == SteadySafety => ObserverSafety
<1>1. [ObservedCycle \/ ObservedCycleFails]_obsVars => [ObserverNext]_obsVars
    BY DEF ObserverNext
<1> QED BY <1>1, PTL DEF SteadySafety, ObserverSafety

(* A batch with room for all is all there is to send.                      *)
LEMMA WholeBatch ==
    ASSUME RoomForAll, ObserverTypeOK, NEW R \in RecoveryBatches
    PROVE  Batch = ToSend /\ R = recovered
<1>1. IsFiniteSet(FP) /\ Cardinality(FP) \in Nat /\ MaxPerDispatch \in Nat
    BY FPAssumption, ConfigAssumption, FS_CardinalityType
<1>2. ASSUME NEW S \in SUBSET FP
      PROVE  IsFiniteSet(S) /\ Cardinality(S) \in Nat /\ Cardinality(S) <= Cardinality(FP)
    BY <1>1, FS_Subset, FS_CardinalityType
<1>3. ToSend \in SUBSET FP /\ Batch \in SUBSET FP /\ recovered \in SUBSET FP
    BY DEF ToSend, Batch, ObserverTypeOK, TypeOK
<1>4. ASSUME NEW f \in ToSend
      PROVE  Cardinality({g \in ToSend : Position[g] < Position[f]}) < MaxPerDispatch
    <2>1. Cardinality({g \in ToSend : Position[g] < Position[f]}) <= Cardinality(FP)
          /\ Cardinality({g \in ToSend : Position[g] < Position[f]}) \in Nat
        BY <1>2, <1>3
    <2>2. Cardinality(FP) # 0
        BY <1>1, <1>3, FS_EmptySet
    <2> QED BY <1>1, <2>1, <2>2 DEF RoomForAll
<1>5. Batch = ToSend
    BY <1>4 DEF Batch
<1>6. R \in SUBSET recovered
      /\ Cardinality(R) = AtMost(Cardinality(recovered), MaxPerDispatch - Cardinality(Batch))
    BY DEF RecoveryBatches
<1>7. Cardinality(R) = Cardinality(recovered)
    <2>1. /\ Cardinality(recovered) \in Nat /\ Cardinality(recovered) <= Cardinality(FP)
          /\ Cardinality(Batch) \in Nat /\ Cardinality(Batch) <= Cardinality(FP)
        BY <1>2, <1>3
    <2> QED BY <1>1, <1>6, <2>1 DEF RoomForAll, AtMost
<1>8. R = recovered
    BY <1>2, <1>3, <1>6, <1>7, FS_Subset
<1> QED BY <1>5, <1>8

LEMMA PromiseInitially == ObserverInit => PromiseInvariant
BY DEF ObserverInit, Init, PromiseInvariant, RecoveredQuiet, ReceiversAgree, BreachStreakExact,
       Standard, Threshold, NoTimes

(* What a threshold alert is raised with, and whether it is debounced.     *)
LEMMA RaisedKind ==
    ASSUME ObserverTypeOK, RouterInvariant, NEW f \in Threshold, copies[f] > 0
    PROVE  f \in FP /\ (Debounced(f) <=> f \in Standard)
<1>1. f \in FP /\ f \notin Intelligence /\ copies[f] # 0 /\ raised[f] \in Severities[f]
    BY DEF Threshold, ObserverTypeOK, TypeOK, RouterInvariant, ListingAgrees
<1>2. raised[f] = EMERGENCY <=> f \in Emergencies
    BY <1>1, SeveritiesAssumption DEF Emergencies
<1> QED BY <1>1, <1>2 DEF Debounced, Standard

LEMMA CheckKeepsPromise ==
    ASSUME ObserverTypeOK, RouterInvariant, PromiseInvariant, ObservedCheckRecovery
    PROVE  PromiseInvariant'
<1> USE DEF PromiseInvariant
<1>1. /\ phase = "evaluated" /\ phase' = "checked"
      /\ UNCHANGED <<copies, breachStreak, breachRun, quietRun, open>>
    BY DEF ObservedCheckRecovery, CheckRecovery, observerVars
<1>2. CASE ~RecoveryNotifications
    <2>1. recovered' = {} /\ active' = active
        BY <1>1, <1>2 DEF ObservedCheckRecovery, CheckRecovery, activeVars, RecoveredQuiet
    <2> QED BY <1>1, <2>1 DEF RecoveredQuiet, ReceiversAgree, BreachStreakExact, Standard, Threshold
<1>3. CASE RecoveryNotifications
    <2>1. recovered' = {f \in active : Recovers(f)} /\ active' = active \ recovered'
        BY <1>3 DEF ObservedCheckRecovery, CheckRecovery
    <2>2. ASSUME NEW f \in recovered', f \in Threshold
          PROVE  copies[f] = 0 /\ NextQuietRun(f) = ClearNeeded
        <3>1. f \in FP /\ copies[f] \in Nat /\ quietRun[f] \in Nat
            BY <2>2, BoundsAssumption, Limits DEF Threshold, ObserverTypeOK, TypeOK
        <3>2. copies[f] = 0 /\ clearStreak[f] + 1 >= ClearNeeded
            BY <2>1, <2>2, <3>1 DEF Recovers, Resolved, CurrentFps, Threshold
        <3>3. clearStreak[f] = quietRun[f] /\ quietRun[f] < ClearNeeded
            BY <1>1, <1>3, <2>1, <2>2 DEF RouterInvariant, ClearStreakAgrees
        <3> QED BY <3>1, <3>2, <3>3, Limits DEF NextQuietRun, AtMost
    <2>3. RecoveredQuiet'
        BY <1>1, <2>1, <2>2 DEF RecoveredQuiet, NextQuietRun
    <2>4. ReceiversAgree'
        BY <1>1, <2>1 DEF ReceiversAgree
    <2> QED BY <1>1, <2>3, <2>4 DEF BreachStreakExact, Standard, Threshold
<1> QED BY <1>2, <1>3

LEMMA DispatchKeepsPromise ==
    ASSUME RoomForAll, ObserverTypeOK, RouterInvariant, PromiseInvariant, ObservedDispatch
    PROVE  PromiseInvariant'
<1> USE DEF PromiseInvariant
<1>1. /\ phase = "checked" /\ phase' = "asleep" /\ active' = active \cup ToSend
      /\ breachStreak' = [f \in FP |-> NewStreak(f)] /\ breachRun' = [f \in FP |-> NextBreachRun(f)]
      /\ sent' = Batch /\ sentRecoveries' \in RecoveryBatches
      /\ open' = (open \cup sent') \ sentRecoveries'
    BY DEF ObservedDispatch, Dispatch
<1>2. sent' = ToSend /\ sentRecoveries' = recovered
    BY <1>1, WholeBatch
<1>3. \A f \in recovered \cap Threshold : f \notin active /\ f \notin ToSend
    BY <1>1 DEF RecoveredQuiet, ToSend, Passes
<1>4. ReceiversAgree'
    BY <1>1, <1>2, <1>3 DEF ReceiversAgree
<1>5. ASSUME MaxCopies = 1, NEW f \in Standard
      PROVE  breachStreak'[f] = breachRun'[f]
    <2>1. f \in FP /\ f \in Threshold /\ breachStreak[f] = breachRun[f] /\ copies[f] \in 0..1
        BY <1>5 DEF BreachStreakExact, Standard, Threshold, ObserverTypeOK, TypeOK
    <2>2. Debounced(f) <=> copies[f] > 0
        BY <1>5, <2>1, RaisedKind DEF Debounced
    <2> QED BY <1>1, <2>1, <2>2 DEF NewStreak, NextBreachRun
<1> QED BY <1>1, <1>4, <1>5 DEF RecoveredQuiet, BreachStreakExact

LEMMA PromisePreserved ==
    ASSUME RoomForAll
    PROVE  ObserverTypeOK /\ RouterInvariant /\ PromiseInvariant /\ [SteadyNext]_obsVars => PromiseInvariant'
<1> SUFFICES ASSUME ObserverTypeOK, RouterInvariant, PromiseInvariant, [SteadyNext]_obsVars
             PROVE  PromiseInvariant'
    OBVIOUS
<1> USE DEF PromiseInvariant, RecoveredQuiet, ReceiversAgree, BreachStreakExact
<1>1. CASE ObservedCollect
    BY <1>1 DEF ObservedCollect, CollectAfter
<1>2. CASE ObservedCheckRecovery
    BY <1>2, CheckKeepsPromise
<1>3. CASE ObservedDispatch
    BY <1>3, DispatchKeepsPromise
<1>4. CASE ObservedCycleFails
    BY <1>4 DEF ObservedCycleFails, CycleFails, activeVars, observerVars
<1>5. CASE UNCHANGED obsVars
    BY <1>5 DEF obsVars, vars, cycleVars, activeVars, observerVars, NextQuietRun
<1> QED BY <1>1, <1>2, <1>3, <1>4, <1>5 DEF SteadyNext, ObservedCycle

LEMMA PromiseInvariantHolds ==
    RoomForAll => (SteadySafety => [](ObserverTypeOK /\ RouterInvariant /\ PromiseInvariant))
<1> SUFFICES ASSUME RoomForAll
             PROVE  SteadySafety => [](ObserverTypeOK /\ RouterInvariant /\ PromiseInvariant)
    OBVIOUS
<1> QED BY SteadyIsObserved, RouterTypes, StreaksAgree, PromiseInitially, PromisePreserved, PTL
        DEF SteadySafety, SteadyNext

(***************************************************************************)
(* As long as batches have room for all, the receivers of a router nobody  *)
(* reloads know between two cycles exactly which threshold alerts are      *)
(* active, whatever cycles fail and however lists repeat fingerprints.     *)
(***************************************************************************)
THEOREM ReceiversAlwaysKnow == RoomForAll => (SteadySafety => []ReceiversKnow)
<1>1. PromiseInvariant => ReceiversKnow
    BY DEF PromiseInvariant, ReceiversAgree, ReceiversKnow
<1>2. SUFFICES ASSUME RoomForAll PROVE SteadySafety => []ReceiversKnow
    OBVIOUS
<1> QED BY <1>1, <1>2, PromiseInvariantHolds, PTL

(***************************************************************************)
(* Whatever the debounce, the cooldown and the state of the streaks, an    *)
(* emergency is active after the first cycle that raises it, through       *)
(* reloads and failed cycles (dispatch).                                   *)
(***************************************************************************)
THEOREM EmergencyInstant == ObserverSafety => EmergencyAtOnce
<1>1. ASSUME ObserverTypeOK, RouterInvariant, [ObserverNext]_obsVars, Dispatching,
             NEW f \in Emergencies, copies[f] > 0
      PROVE  f \in active'
    <2>1. active' = active \cup ToSend
        BY <1>1 DEF Dispatching, ObserverNext, ObservedCycle, ObservedCollect, CollectAfter,
            ObservedCheckRecovery, CheckRecovery, ObservedDispatch, Dispatch, ObservedCycleFails,
            CycleFails, ObservedReload, Reload, obsVars, vars, cycleVars
    <2>2. f \in FP /\ Passes(f)
        BY <1>1, RaisedKind DEF Passes, Emergencies, Standard, Threshold
    <2> QED BY <2>1, <2>2 DEF ToSend, CoolingDown
<1>2. ObserverTypeOK /\ RouterInvariant /\ [ObserverNext]_obsVars
      => [Dispatching => \A f \in Emergencies : copies[f] > 0 => f \in active']_obsVars
    BY <1>1
<1> QED BY <1>2, RouterTypes, StreaksAgree, PTL DEF ObserverSafety, EmergencyAtOnce

-----------------------------------------------------------------------------
(* Every step of the router is a step of the promise, or none. *)

Raised == {f \in Threshold : copies[f] > 0}

LEMMA OpensAsPromised ==
    ASSUME ObserverTypeOK, RouterInvariant, PromiseInvariant, MaxCopies = 1, phase = "checked",
           NEW f \in Threshold
    PROVE  f \in open \/ f \in ToSend <=> f \in open \/ f \in Promise!Opening(Raised)
<1>1. f \in FP /\ copies[f] \in 0..1 /\ breachRun[f] \in 0..BreachNeeded
    BY DEF Threshold, ObserverTypeOK, TypeOK
<1>2. f \in active => f \in open
    BY <1>1 DEF PromiseInvariant, ReceiversAgree
<1>3. CASE copies[f] = 0
    BY <1>1, <1>3 DEF ToSend, Passes, Raised, Promise!Opening
<1>4. CASE copies[f] = 1
    <2>1. Debounced(f) <=> f \in Standard
        BY <1>4, RaisedKind
    <2>2. f \in ToSend => Passes(f)
        BY DEF ToSend
    <2>3. Passes(f) => f \in ToSend \/ f \in active
        BY <1>1 DEF ToSend, CoolingDown
    <2>4. f \in Promise!Opening(Raised) <=>
              f \in Emergencies \/ Promise!Longer(breachRun[f], BreachNeeded) = BreachNeeded
        BY <1>1, <1>4 DEF Promise!Opening, Raised
    <2>5. CASE f \in Emergencies
        BY <1>2, <1>4, <2>1, <2>2, <2>3, <2>4, <2>5 DEF Passes, Standard
    <2>6. CASE f \in Standard
        <3>1. NewStreak(f) = AtMost(breachRun[f] + 1, BreachNeeded)
            BY <1>4, <2>1, <2>6 DEF NewStreak, PromiseInvariant, BreachStreakExact
        <3>2. NewStreak(f) >= BreachNeeded <=> Promise!Longer(breachRun[f], BreachNeeded) = BreachNeeded
            BY <1>1, <3>1, Limits DEF AtMost, Promise!Longer
        <3>3. f \notin Emergencies
            BY <2>6 DEF Standard
        <3> QED BY <1>2, <1>4, <2>1, <2>2, <2>3, <2>4, <2>6, <3>2, <3>3 DEF Passes
    <2> QED BY <2>5, <2>6 DEF Standard
<1> QED BY <1>1, <1>3, <1>4

LEMMA ClosesAsPromised ==
    ASSUME ObserverTypeOK, RouterInvariant, PromiseInvariant, RecoveryNotifications, phase = "checked",
           NEW f \in Threshold, f \in open \/ f \in ToSend
    PROVE  f \in recovered <=> f \in Promise!Closing(Raised)
<1>1. f \in FP /\ copies[f] \in Nat /\ quietRun[f] \in 0..ClearNeeded
    BY BoundsAssumption DEF Threshold, ObserverTypeOK, TypeOK
<1>2. f \in Promise!Closing(Raised) <=>
          copies[f] = 0 /\ Promise!Longer(quietRun[f], ClearNeeded) = ClearNeeded
    BY <1>1 DEF Promise!Closing, Raised
<1>3. copies[f] = 0 => NextQuietRun(f) = Promise!Longer(quietRun[f], ClearNeeded)
    BY <1>1, Limits DEF NextQuietRun, AtMost, Promise!Longer
<1>4. f \in recovered => copies[f] = 0 /\ NextQuietRun(f) = ClearNeeded
    BY DEF PromiseInvariant, RecoveredQuiet
<1>5. ASSUME copies[f] = 0, f \notin recovered
      PROVE  Promise!Longer(quietRun[f], ClearNeeded) # ClearNeeded
    <2>1. f \in active
        BY <1>5 DEF PromiseInvariant, ReceiversAgree, ToSend, Passes
    <2>2. quietRun[f] + 1 < ClearNeeded
        BY <1>5, <2>1 DEF RouterInvariant, ClearStreakAgrees
    <2> QED BY <1>1, <2>2, Limits DEF Promise!Longer
<1> QED BY <1>2, <1>3, <1>4, <1>5

LEMMA DispatchIsObserve ==
    ASSUME RoomForAll, MaxCopies = 1, RecoveryNotifications,
           ObserverTypeOK, RouterInvariant, PromiseInvariant, ObservedDispatch
    PROVE  Promise!Observe(Raised)
<1>1. /\ phase = "checked"
      /\ breachRun' = [f \in FP |-> NextBreachRun(f)] /\ quietRun' = [f \in FP |-> NextQuietRun(f)]
      /\ sent' = Batch /\ sentRecoveries' \in RecoveryBatches
      /\ open' = (open \cup sent') \ sentRecoveries'
    BY DEF ObservedDispatch, Dispatch
<1>2. open' = (open \cup ToSend) \ recovered
    BY <1>1, WholeBatch
<1>3. Threshold \subseteq FP /\ Raised \subseteq Threshold
    BY DEF Threshold, Raised
<1>4. [f \in Threshold |-> breachRun'[f]] =
          [c \in Threshold |->
              IF c \in Raised THEN Promise!Longer([f \in Threshold |-> breachRun[f]][c], BreachNeeded) ELSE 0]
    <2>1. ASSUME NEW c \in Threshold
          PROVE  breachRun'[c] = IF c \in Raised THEN Promise!Longer(breachRun[c], BreachNeeded) ELSE 0
        <3>1. breachRun'[c] = NextBreachRun(c) /\ breachRun[c] \in 0..BreachNeeded
            BY <1>1, <1>3 DEF ObserverTypeOK
        <3> QED BY <3>1, Limits DEF NextBreachRun, AtMost, Promise!Longer, Raised
    <2> QED BY <2>1
<1>5. [f \in Threshold |-> quietRun'[f]] =
          [c \in Threshold |->
              IF c \in Raised THEN 0 ELSE Promise!Longer([f \in Threshold |-> quietRun[f]][c], ClearNeeded)]
    <2>1. ASSUME NEW c \in Threshold
          PROVE  quietRun'[c] = IF c \in Raised THEN 0 ELSE Promise!Longer(quietRun[c], ClearNeeded)
        <3>1. quietRun'[c] = NextQuietRun(c) /\ quietRun[c] \in 0..ClearNeeded
            BY <1>1, <1>3 DEF ObserverTypeOK
        <3> QED BY <3>1, Limits DEF NextQuietRun, AtMost, Promise!Longer, Raised
    <2> QED BY <2>1
<1>6. open' \cap Threshold =
          ((open \cap Threshold) \cup Promise!Opening(Raised)) \ Promise!Closing(Raised)
    <2>1. Promise!Opening(Raised) \subseteq Threshold
        BY <1>3 DEF Promise!Opening
    <2>2. \A f \in Threshold : f \in open \/ f \in ToSend <=> f \in open \/ f \in Promise!Opening(Raised)
        BY <1>1, OpensAsPromised
    <2>3. \A f \in Threshold :
              f \in open \/ f \in ToSend => (f \in recovered <=> f \in Promise!Closing(Raised))
        BY <1>1, ClosesAsPromised
    <2> QED BY <1>2, <2>1, <2>2, <2>3
<1> QED BY <1>4, <1>5, <1>6 DEF Promise!Observe

LEMMA PromisedStep ==
    ASSUME RoomForAll, MaxCopies = 1, RecoveryNotifications
    PROVE  ObserverTypeOK /\ RouterInvariant /\ PromiseInvariant /\ [SteadyNext]_obsVars
              => [Promise!Next]_(Promise!vars)
<1> SUFFICES ASSUME ObserverTypeOK, RouterInvariant, PromiseInvariant, [SteadyNext]_obsVars
             PROVE  [Promise!Next]_(Promise!vars)
    OBVIOUS
<1>1. CASE ObservedDispatch
    <2>1. Promise!Observe(Raised) /\ Raised \in SUBSET Threshold
        BY <1>1, DispatchIsObserve DEF Raised
    <2>2. Promise!Next
        BY <2>1 DEF Promise!Next, Promise!Observe
    <2> QED BY <2>2
<1>2. CASE UNCHANGED <<open, breachRun, quietRun>>
    BY <1>2 DEF Promise!vars
<1>3. CASE ObservedCollect \/ ObservedCheckRecovery \/ ObservedCycleFails \/ UNCHANGED obsVars
    BY <1>2, <1>3 DEF ObservedCollect, ObservedCheckRecovery, ObservedCycleFails, obsVars, observerVars
<1> QED BY <1>1, <1>3 DEF SteadyNext, ObservedCycle

(***************************************************************************)
(* A router nobody reloads, with recovery notifications on, lists that     *)
(* repeat no fingerprint and batches with room for all, implements the     *)
(* lifecycle that AlertConfig's comments promise: every alert opens and    *)
(* closes in the very cycle that completes its streak.                     *)
(***************************************************************************)
THEOREM PromiseKept ==
    RoomForAll /\ MaxCopies = 1 /\ RecoveryNotifications => (SteadySafety => ImplementsLifecycle)
<1>1. ObserverInit => Promise!Init
    BY DEF ObserverInit, Promise!Init, Threshold
<1>2. SUFFICES ASSUME RoomForAll, MaxCopies = 1, RecoveryNotifications
               PROVE  SteadySafety => ImplementsLifecycle
    OBVIOUS
<1> QED BY <1>1, <1>2, PromisedStep, PromiseInvariantHolds, PTL
        DEF SteadySafety, SteadyNext, ImplementsLifecycle, Promise!Spec

-----------------------------------------------------------------------------
(* ---------------------- From readings to the router --------------------- *)

MonitorNext == MonitoredCycle \/ MonitoredCycleFails

(* What the router is given are the alerts of the last snapshots. *)
ReadingsListed == \A f \in Threshold : copies[f] = Times(snapshots, f)

(* A cycle of readings is a cycle of the router, or fails as one. *)
LEMMA MonitorIsSteady == MonitorSafety => SteadySafety
<1>1. [MonitorNext]_monitorVars => [ObservedCycle \/ ObservedCycleFails]_obsVars
    BY DEF MonitorNext, MonitoredCycle, MonitoredCollect, MonitoredCheckRecovery, MonitoredDispatch,
           MonitoredCycleFails, ObservedCycle, monitorVars
<1>2. MonitorInit => ObserverInit
    BY DEF MonitorInit
<1> QED BY <1>1, <1>2, PTL DEF MonitorSafety, MonitorNext, SteadySafety

LEMMA ReadingsInitially == MonitorInit => ReadingsListed
<1> SUFFICES ASSUME MonitorInit, NEW f \in Threshold PROVE copies[f] = Times(snapshots, f)
    BY DEF ReadingsListed
<1>1. copies[f] = 0
    BY DEF MonitorInit, ObserverInit, Init, NoTimes, Threshold
<1>2. {d \in Collectors : Usable(snapshots, d)} = {}
    BY DEF MonitorInit, Usable
<1>3. {e \in Evaluate(snapshots) : e[2] = f} = {}
    BY <1>2 DEF Evaluate
<1>4. Cardinality({}) = 0
    BY FS_EmptySet
<1> QED BY <1>1, <1>3, <1>4 DEF Times

LEMMA ReadingsKept == ReadingsListed /\ [MonitorNext]_monitorVars => ReadingsListed'
<1> SUFFICES ASSUME ReadingsListed, [MonitorNext]_monitorVars PROVE ReadingsListed'
    OBVIOUS
<1>1. CASE MonitoredCollect
    <2>1. \A f \in FP \ Intelligence : copies'[f] = Times(snapshots', f)
        BY <1>1 DEF MonitoredCollect
    <2> QED BY <2>1 DEF ReadingsListed, Threshold, Times, Evaluate, Usable
<1>2. CASE UNCHANGED <<copies, snapshots>>
    BY <1>2 DEF ReadingsListed, Threshold, Times, Evaluate, Usable
<1>3. CASE MonitoredCheckRecovery \/ MonitoredDispatch \/ MonitoredCycleFails
    BY <1>2, <1>3 DEF MonitoredCheckRecovery, ObservedCheckRecovery, CheckRecovery,
        MonitoredDispatch, ObservedDispatch, Dispatch,
        MonitoredCycleFails, ObservedCycleFails, CycleFails
<1>4. CASE UNCHANGED monitorVars
    BY <1>2, <1>4 DEF monitorVars, obsVars, vars, cycleVars
<1> QED BY <1>1, <1>3, <1>4 DEF MonitorNext, MonitoredCycle

(* The threshold conditions that hold in the last snapshots. *)
Holding == {f \in Threshold : Times(snapshots, f) > 0}

(***************************************************************************)
(* From the readings to the receivers: with recovery notifications on,     *)
(* readings that name no alert twice and batches with room for all, every  *)
(* dispatch takes the open alerts where the lifecycle takes them that      *)
(* observes the conditions of the cycle's snapshots, and no other step     *)
(* changes what the receivers know (evaluate, _check_recovery, dispatch).  *)
(***************************************************************************)
ReadingsObserved ==
    [][IF Dispatching THEN Promise!Observe(Holding) ELSE UNCHANGED Promise!vars]_monitorVars

THEOREM ReadingsReachReceivers ==
    RoomForAll /\ MaxCopies = 1 /\ RecoveryNotifications => (MonitorSafety => ReadingsObserved)
<1> SUFFICES ASSUME RoomForAll, MaxCopies = 1, RecoveryNotifications
             PROVE  MonitorSafety => ReadingsObserved
    OBVIOUS
<1>1. ASSUME ObserverTypeOK, RouterInvariant, PromiseInvariant, ReadingsListed, [MonitorNext]_monitorVars
      PROVE  IF Dispatching THEN Promise!Observe(Holding) ELSE UNCHANGED Promise!vars
    <2>1. CASE MonitoredDispatch
        <3>1. Raised = Holding
            BY <1>1 DEF ReadingsListed, Raised, Holding
        <3>2. Promise!Observe(Raised)
            BY <1>1, <2>1, DispatchIsObserve DEF MonitoredDispatch
        <3>3. Dispatching
            BY <2>1 DEF MonitoredDispatch, ObservedDispatch, Dispatch, Dispatching
        <3>4. Promise!Observe(Holding)
            BY <3>1, <3>2 DEF Promise!Observe, Promise!Opening, Promise!Closing
        <3> QED BY <3>3, <3>4
    <2>2. CASE ~MonitoredDispatch
        <3>1. ~Dispatching
            BY <1>1, <2>2 DEF MonitorNext, MonitoredCycle, MonitoredCollect, ObservedCollect, CollectAfter,
                MonitoredCheckRecovery, ObservedCheckRecovery, CheckRecovery, MonitoredCycleFails,
                ObservedCycleFails, CycleFails, Dispatching, monitorVars, obsVars, vars, cycleVars
        <3>2. UNCHANGED <<open, breachRun, quietRun>>
            BY <1>1, <2>2 DEF MonitorNext, MonitoredCycle, MonitoredCollect, ObservedCollect,
                MonitoredCheckRecovery, ObservedCheckRecovery, MonitoredCycleFails,
                ObservedCycleFails, monitorVars, obsVars, observerVars
        <3> QED BY <3>1, <3>2 DEF Promise!vars
    <2> QED BY <2>1, <2>2
<1>2. ObserverTypeOK /\ RouterInvariant /\ PromiseInvariant /\ ReadingsListed /\ [MonitorNext]_monitorVars
      => [IF Dispatching THEN Promise!Observe(Holding) ELSE UNCHANGED Promise!vars]_monitorVars
    BY <1>1
<1> QED BY <1>2, MonitorIsSteady, PromiseInvariantHolds, ReadingsInitially, ReadingsKept, PTL
        DEF MonitorSafety, MonitorNext, ReadingsObserved

(***************************************************************************)
(* A daemon fed with readings has the router's properties: its streaks     *)
(* agree with the history, between two cycles the receivers know what is   *)
(* active, and what they know is the alert lifecycle.                      *)
(***************************************************************************)
THEOREM MonitoredRouterSafe ==
    /\ MonitorSafety => []RouterInvariant /\ []NoStaleActive
    /\ RoomForAll => (MonitorSafety => []ReceiversKnow)
    /\ RoomForAll /\ MaxCopies = 1 /\ RecoveryNotifications => (MonitorSafety => ImplementsLifecycle)
<1>1. MonitorSafety => []RouterInvariant /\ []NoStaleActive
    BY MonitorIsSteady, SteadyIsObserved, StreaksAgree, NeverStale, PTL
<1>2. ASSUME RoomForAll PROVE MonitorSafety => []ReceiversKnow
    BY <1>2, MonitorIsSteady, ReceiversAlwaysKnow, PTL
<1>3. ASSUME RoomForAll, MaxCopies = 1, RecoveryNotifications PROVE MonitorSafety => ImplementsLifecycle
    BY <1>3, MonitorIsSteady, PromiseKept, PTL
<1> QED BY <1>1, <1>2, <1>3
=============================================================================
