-------------------------- MODULE MCAlertDelivery --------------------------
(* A channel of each kind, and batches that mix severities and repeat a     *)
(* fingerprint.                                                            *)
EXTENDS AlertDelivery, TLC

CONSTANTS slack, telegram, email, cpu, disk

Fired(f, s) == [fp |-> f, severity |-> s, recovery |-> FALSE]
Recovered(f) == [fp |-> f, severity |-> INFO, recovery |-> TRUE]

MCKind == slack :> "webhook" @@ telegram :> "telegram" @@ email :> "email"
KindHere == [c \in Channels |-> MCKind[c]]

(* The defaults of schema.py, and one channel that hears of everything. *)
DefaultSeverities == slack :> WARN @@ telegram :> WARN @@ email :> CRITICAL
SeveritiesHere == [c \in Channels |-> DefaultSeverities[c]]
TelegramHearsAll == [SeveritiesHere EXCEPT ![telegram] = INFO]

MixedBatches == {<<Fired(cpu, WARN), Fired(disk, CRITICAL)>>, <<Fired(cpu, CRITICAL), Recovered(disk)>>}
RecoveryBatches == {<<Fired(cpu, CRITICAL), Recovered(disk)>>, <<Recovered(cpu)>>}
=============================================================================
