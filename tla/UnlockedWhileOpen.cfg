\* One oops of one machine, a report, and two closings.
SPECIFICATION Spec
CONSTANTS
  Machine = {m1}
  Event = {v1}
  Handler = {h1, h2}
  Closer = {c1}
  NONE = NONE
  MAX_RETRIES = 2
  MaxReports = 1
  MaxClosings = 2
  MaxFailures = 2
PROPERTY
  NotUnlockedWhileOpen
CHECK_DEADLOCK FALSE
