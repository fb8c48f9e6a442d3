SPECIFICATION Spec
CONSTANTS
  sales = sales
  audit = audit
  drop = drop
  purge = purge
  c1 = c1
  c2 = c2
  k1 = k1
  k2 = k2
  Absent = Absent
  Context <- MCContext
  Home = sales
  Statement <- MCStatement
  Command <- MCCommand
  Check <- MCCheck
  Settings <- MCSettings
INVARIANTS
  OneLiveCheck
  UsedAsReviewed
PROPERTIES
  NothingLost
  OwnGeneration
  HealthEnds
CHECK_DEADLOCK FALSE
