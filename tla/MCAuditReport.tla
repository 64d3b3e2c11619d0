--------------------------- MODULE MCAuditReport ---------------------------
\* The instance of AuditReport that TLC checks.
EXTENDS AuditReport
=============================================================================
