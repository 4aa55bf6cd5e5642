--------------------------- MODULE AlertLifecycle ---------------------------
(***************************************************************************)
(* What the alert router promises those who read its notifications, with   *)
(* none of its machinery: per condition, an alert is open from the cycle   *)
(* that completes BreachNeeded consecutive cycles with the condition (or   *)
(* the first one, for an instant condition) to the cycle that completes    *)
(* ClearNeeded consecutive cycles without it.                              *)
(*                                                                         *)
(* The promise is written down in the comments of AlertConfig              *)
(* (src/guardian/config/schema.py) and of dispatch.                        *)
(***************************************************************************)
EXTENDS Integers

CONSTANTS Conditions, Instant, BreachNeeded, ClearNeeded

VARIABLES
    open,       \* conditions with an open alert
    breachRun,  \* consecutive cycles with the condition, up to BreachNeeded
    quietRun    \* consecutive cycles without it, up to ClearNeeded

vars == <<open, breachRun, quietRun>>

Init ==
    /\ open = {}
    /\ breachRun = [c \in Conditions |-> 0]
    /\ quietRun = [c \in Conditions |-> ClearNeeded]

Longer(run, limit) == IF run < limit THEN run + 1 ELSE limit

Opening(S) == {c \in S : c \in Instant \/ Longer(breachRun[c], BreachNeeded) = BreachNeeded}
Closing(S) == {c \in Conditions \ S : Longer(quietRun[c], ClearNeeded) = ClearNeeded}

(* A cycle in which exactly the conditions in S hold. *)
Observe(S) ==
    /\ breachRun' = [c \in Conditions |->
                        IF c \in S THEN Longer(breachRun[c], BreachNeeded) ELSE 0]
    /\ quietRun' = [c \in Conditions |->
                        IF c \in S THEN 0 ELSE Longer(quietRun[c], ClearNeeded)]
    /\ open' = (open \cup Opening(S)) \ Closing(S)

Next == \E S \in SUBSET Conditions : Observe(S)

Spec == Init /\ [][Next]_vars
=============================================================================
