\* One oops of one machine, a report, and two closings that can overlap.
SPECIFICATION Spec
CONSTANTS
  Machine = {m1}
  Event = {v1}
  Handler = {h1}
  Closer = {c1, c2}
  NONE = NONE
  MAX_RETRIES = 2
  MaxReports = 1
  MaxClosings = 2
  MaxFailures = 2
INVARIANTS
  AnsweredMeansRepaired
  DueIsUnderWay
PROPERTIES
  UnlockedOnlyAsDecided
  OopsBringsRepair
  DueIsUnlocked
CHECK_DEADLOCK FALSE
