\* Two rows and a batch of one, so that the second waits behind the retries of the first.
SPECIFICATION Spec
CONSTANTS
  MaxRows = 2
  MAX_RETRIES = 2
  BATCH_SIZE = 1
  MaxStops = 2
  MaxDbErrors = 1
INVARIANTS
  TypeOK
  CallsBounded
  SentOnceUnlessDoubtful
PROPERTY
  ImplementsDelivery
CHECK_DEADLOCK FALSE
