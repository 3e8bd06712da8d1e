\* One machine, two requests at a time, two reservations of one slot or of adjacent ones.
SPECIFICATION Spec
CONSTANTS
  NONE = NONE
  DAY = 4
  UTC_OFFSET = 1
  Equipment = {e1}
  Request = {q1, q2}
  Settings <- MCSettings
  Starts = {0, 1}
  Durations = {1}
  MaxReservations = 2
  MaxTime = 1
  MaxChanges = 1
INVARIANTS
  TypeOK
  OverlapsWereOverridden
  ReplacedOnce
  CheckedStaysTrue
  DeadlocksMixOrders
PROPERTIES
  ImplementsCalendar
  RequestsEnd
CHECK_DEADLOCK FALSE
