-------------------------- MODULE AuditAccounting ---------------------------
(***************************************************************************)
(* recordAuditEventSafe, noteAuditWriteSucceeded and auditHealth           *)
(* (src/server/session-manager.ts): a failing audit sink never fails a     *)
(* session, and the number of records lost while it was down is written    *)
(* into the log itself when it works again.                                *)
(***************************************************************************)
EXTENDS Naturals

CONSTANT MaxRecords  \* bound on the records of one behaviour

ASSUME MaxRecordsAssumption == MaxRecords \in Nat

VARIABLES
    droppedAuditRecords,
    lastAuditError,  \* whether an error is kept
    records,         \* history: events the manager was asked to record
    kept,            \* history: those the sink took
    recovered        \* history: sum of the audit_sink_recovered counts

accountingVars == <<droppedAuditRecords, lastAuditError, records, kept, recovered>>

AccountingInit ==
    /\ droppedAuditRecords = 0
    /\ lastAuditError = FALSE
    /\ records = 0
    /\ kept = 0
    /\ recovered = 0

Request == records < MaxRecords /\ records' = records + 1

\* The sink throws on the record itself.
RecordDropped ==
    /\ Request
    /\ droppedAuditRecords' = droppedAuditRecords + 1
    /\ lastAuditError' = TRUE
    /\ UNCHANGED <<kept, recovered>>

\* The sink takes the record, and nothing was lost before it.
RecordKept ==
    /\ Request
    /\ droppedAuditRecords = 0
    /\ kept' = kept + 1
    /\ UNCHANGED <<droppedAuditRecords, lastAuditError, recovered>>

\* The sink takes the record and then the recovery marker.
RecordKeptAndRecovered ==
    /\ Request
    /\ droppedAuditRecords > 0
    /\ kept' = kept + 1
    /\ recovered' = recovered + droppedAuditRecords
    /\ droppedAuditRecords' = 0
    /\ lastAuditError' = FALSE

\* Mutant: the count reset for the marker is not put back.
RecordKeptCountLost ==
    /\ Request
    /\ droppedAuditRecords > 0
    /\ kept' = kept + 1
    /\ droppedAuditRecords' = 0
    /\ lastAuditError' = TRUE
    /\ UNCHANGED recovered

\* The sink takes the record and throws on the recovery marker: the count
\* that had been reset for it is put back.
RecordKeptMarkerDropped ==
    /\ Request
    /\ droppedAuditRecords > 0
    /\ kept' = kept + 1
    /\ lastAuditError' = TRUE
    /\ UNCHANGED <<droppedAuditRecords, recovered>>

AccountingNext ==
    \/ RecordDropped
    \/ RecordKept
    \/ RecordKeptAndRecovered
    \/ RecordKeptMarkerDropped

AccountingSpec == AccountingInit /\ [][AccountingNext]_accountingVars

\* auditHealth().healthy.
Healthy == droppedAuditRecords = 0

-----------------------------------------------------------------------------
(* Properties *)

\* The counters are natural numbers.
AccountingTypeOK ==
    /\ droppedAuditRecords \in Nat
    /\ lastAuditError \in BOOLEAN
    /\ records \in 0..MaxRecords
    /\ kept \in Nat
    /\ recovered \in Nat

\* Every event is in the log, counted by a recovery marker in the log, or
\* counted by auditHealth(): none is lost twice or forgotten, whichever of
\* the two writes of a recovery fails.
EveryRecordAccounted == records = kept + recovered + droppedAuditRecords

\* auditHealth() never shows "healthy" with an error, or "unhealthy" without
\* one, and healthy means the log itself explains all of its gaps.
HealthIsHonest ==
    /\ Healthy <=> ~lastAuditError
    /\ Healthy => records = kept + recovered
=============================================================================
