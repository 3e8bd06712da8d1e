\* Two machines, one webhook at a time beside the worker, a failure.
SPECIFICATION Spec
CONSTANTS
  Machine = {m1, m2}
  Handler = {h1}
  NONE = NONE
  MaxChanges = 2
  MaxFailures = 1
PROPERTIES
  AgreementStays
  RefreshCompletes
  CacheConverges
CHECK_DEADLOCK FALSE
