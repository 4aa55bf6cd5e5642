--------------------------- MODULE AlertSeverity ---------------------------
(* AlertSeverity of src/guardian/alerter/base.py, in its order. *)
EXTENDS Integers

INFO == 0
WARN == 1
CRITICAL == 2
EMERGENCY == 3
Severity == {INFO, WARN, CRITICAL, EMERGENCY}
=============================================================================
