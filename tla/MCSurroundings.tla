--------------------------- MODULE MCSurroundings ---------------------------
(* The daemon with what outlives it and with those who look at it while it *)
(* runs.  The parts share no state, so each behaviour is of one of them:   *)
(* "history" and "baseline" of the lifetimes, the requests or the file.    *)
EXTENDS DaemonLifetimes, ConfigFile, RequestHandlers

VARIABLE part

LifetimeParts == {"history", "baseline"}

SurroundingsInit ==
    /\ part \in LifetimeParts \cup {"requests", "file"}
    /\ LifetimesInit /\ RequestsInit /\ ConfigInit
    /\ part # "requests" => watched = "alerts"
    /\ part # "file" => file = Empty

(* The readings matter to the baseline, the alerts to the history.         *)
LifetimeStep ==
    /\ part \in LifetimeParts /\ LifetimesNext
    /\ part = "history" => reading' = NoReading
    /\ part = "baseline" => happened'["alerts"] = {}
    /\ UNCHANGED <<part, requestVars, configVars>>

RequestStep ==
    /\ part = "requests" /\ RequestsNext
    /\ UNCHANGED <<part, lifetimeVars, configVars>>

FileStep ==
    /\ part = "file" /\ ConfigNext
    /\ UNCHANGED <<part, lifetimeVars, requestVars>>

SurroundingsNext == LifetimeStep \/ RequestStep \/ FileStep

SurroundingsSpec == SurroundingsInit /\ [][SurroundingsNext]_<<part, lifetimeVars, requestVars, configVars>>

SurroundingsTypeOK == LifetimesTypeOK /\ RequestsTypeOK /\ ConfigTypeOK
=============================================================================
