SPECIFICATION Spec
CONSTANTS
  Statements = 1
  BatchRows = 1
  TrancheRows = 2
  RetainedRows = 3
  EventCapacity = 2
  ControlCapacity = 2
  a = a
  b = b
  Clicks = {a}
  Cancels = TRUE
  Reloads = TRUE
  EmitFaults = TRUE
  NoResult = NoResult
  NoCall = NoCall
PROPERTIES
  AckWaitEnds
  CancelStops
  ExecutionReleased
