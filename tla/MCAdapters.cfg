CONSTANTS
  Engines = {"mysql", "mysql57", "postgres", "sqlite"}
  Scripts <- MCScripts
  Losses = TRUE
  BatchRows = 1
  TrancheRows = 2
  RetainedRows = 3
  NoResult = NoResult
SPECIFICATION Spec
INVARIANTS
  CleanHidesNothing
  BatchIsAtomic
  CompletedResultIsWhole
PROPERTIES
  ManualWritesWait
CHECK_DEADLOCK FALSE
