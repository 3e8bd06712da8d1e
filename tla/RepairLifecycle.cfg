\* Two records on one or two pieces of equipment, one of them linked to a machine;
\* three requests of which two overlap, one cut off.
SPECIFICATION Spec
CONSTANTS
  NULL = NULL
  Repair = {r1, r2}
  Equipment = {e1, e2}
  User = {u1}
  Thread = {t1, t2}
  Eta = {}
  Archived = {}
  Linked = {e1}
  NotifyOn = {"resolved"}
  StatusInput = {"New", "Resolved", "Closed - Duplicate"}
  SeverityInput = {NULL}
  EtaInput = {NULL}
  AssigneeInput = {u1}
  MaxRequests = 3
  MaxCrashes = 1
SYMMETRY Symmetry
INVARIANTS
  TypeOK
  LinksStaySettled
  UnlockNeverForgotten
PROPERTIES
  AuditTellsOldValues
  ClosedNeverClaimed
CHECK_DEADLOCK FALSE
