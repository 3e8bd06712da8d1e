SPECIFICATION Spec
CONSTANTS
  NULL = NULL
  admin = admin  user = user
  b1 = b1
  Thread = {t1, t2}
  Desk <- MCDesk
  MaxRequests <- MCMaxRequests
  Area = {a1, a2}
  Equipment = {e1, e2}
  AreaName = {shop, lab}
  Machine = {planer}
  Spelling = {lower, upper}
  InitialNames = {NULL}
  Item = {i1, i2}
  User = {admin, user, other}
  Browser = {b1}
  Owner <- MCOwner
  InitialRoles <- MCInitialRoles
  RoleInput = {"technician"}
  HandleInput = {TRUE}
  ConfigKey <- MCConfigKey
  Value = {blank, ssid}
  Default = blank
  MaxRestarts = 1
SYMMETRY Symmetry
INVARIANTS
  SharedMachineNameMeansOverlap
  FilesMatchRows
  OneTabShowsEachPasswordOnce
  GuideOutOfDateOnlyExcused
PROPERTIES
  ArchivedStaysAsItIs
  PasswordChangeIsProved
  SettingsLogTellsOldValue
CHECK_DEADLOCK FALSE
