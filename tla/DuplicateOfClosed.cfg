\* Two records of one machine, closed one after the other.
SPECIFICATION Spec
CONSTANTS
  NULL = NULL
  Repair = {r1, r2}
  Equipment = {e1}
  User = {u1}
  Thread = {t1, t2}
  Eta = {}
  Archived = {}
  Linked = {}
  NotifyOn = {}
  StatusInput = {"New", "Resolved", "Closed - Duplicate"}
  SeverityInput = {NULL}
  EtaInput = {NULL}
  AssigneeInput = {u1}
  MaxRequests = 2
  MaxCrashes = 0
PROPERTY
  DuplicateOfAnOpenRepair
CHECK_DEADLOCK FALSE
