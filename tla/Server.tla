------------------------------- MODULE Server -------------------------------
(***************************************************************************)
(* The parts of the server, and of its database, that transfers,           *)
(* idempotency and outbox do not cover.  They are independent of one       *)
(* another, so no interleaving of two of them shows what one alone does    *)
(* not: part says which one moves, and the others stay where they begin.   *)
(***************************************************************************)
EXTENDS Authentication, Pagination, Reconciliation, Retention, OutboxOperator,
        JournalSchema

VARIABLE part

vars ==
  <<part, authVars, paginationVars, reconciliationVars, retentionVars, operatorVars, schemaVars>>

Parts == {"authentication", "pagination", "reconciliation", "retention", "operator", "schema"}

Init ==
  /\ part \in Parts
  /\ AuthInit /\ PaginationInit /\ ReconciliationInit /\ OperatorInit /\ SchemaInit
  /\ RetentionInit /\ (part # "retention" => finished = [r \in Rows |-> 0])

Next ==
  /\ UNCHANGED part
  /\ \/ part = "authentication" /\ AuthNext
     \/ part # "authentication" /\ UNCHANGED authVars
  /\ \/ part = "pagination" /\ PaginationNext
     \/ part # "pagination" /\ UNCHANGED paginationVars
  /\ \/ part = "reconciliation" /\ ReconciliationNext
     \/ part # "reconciliation" /\ UNCHANGED reconciliationVars
  /\ \/ part = "retention" /\ RetentionNext
     \/ part # "retention" /\ UNCHANGED retentionVars
  /\ \/ part = "operator" /\ OperatorNext
     \/ part # "operator" /\ UNCHANGED operatorVars
  /\ \/ part = "schema" /\ SchemaNext
     \/ part # "schema" /\ UNCHANGED schemaVars

Spec == Init /\ [][Next]_vars

----------------------------------------------------------------------------
\* Every variable of the server's parts, and of their tables, has its type.
TypeOK ==
  /\ AuthTypeOK /\ PaginationTypeOK /\ ReconciliationTypeOK /\ RetentionTypeOK
  /\ OperatorTypeOK /\ SchemaTypeOK
=============================================================================
