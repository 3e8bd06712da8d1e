\* Two pieces of equipment in one of two areas; a record of any kind at the start, and
\* three changes, up to two more records among them.
SPECIFICATION Spec
CONSTANTS
  NONE = NONE
  Area = {a1, a2}
  Equipment = {e1, e2}
  Booking = {b1}
  Record = {1, 2, 3}
  Name = {"n1", "n2"}
  SeverityInput = {"Down", "Not Sure", NONE}
  EtaInput = {NONE}
  InitialRecords = {1}
  MaxChanges = 3
INVARIANTS
  DotAndListAgree
  ViewsAgree
  QueueLeadsWithStatus
PROPERTIES
  ChangesAreTold
CHECK_DEADLOCK FALSE
