\* Two machines, one webhook at a time beside the worker; nothing fails by itself.
SPECIFICATION Spec
CONSTANTS
  Machine = {m1, m2}
  Handler = {h1}
  NONE = NONE
  MaxChanges = 2
  MaxFailures = 0
INVARIANT
  RefreshIsSelfContained
CHECK_DEADLOCK FALSE
