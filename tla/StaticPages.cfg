\* Two changes of any kind and two faults, written to a directory or to a bucket behind
\* a CDN.
SPECIFICATION Spec
CONSTANTS
  Destinations = {"local", "cdn"}
  MaxChanges = 2
  MaxFaults = 2
INVARIANTS
  BehindIsOwed
PROPERTIES
  DeliveredMeansServed
  ViewersNeverGoBack
  StatusPageFollows
  ReservationPageHeals
CHECK_DEADLOCK FALSE
