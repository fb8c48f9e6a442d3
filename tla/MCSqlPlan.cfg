SPECIFICATION PlanSpec
CONSTANTS
  MaxDepth = 2
  Settings <- MCSettings
  Changes <- MCChanges
INVARIANTS
  OneStatementEach
  FlagsAreTrue
  UnflaggedRestricts
CHECK_DEADLOCK FALSE
