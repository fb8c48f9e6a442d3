SPECIFICATION Spec
CONSTANTS
  Statements = 1
  BatchRows = 2
  TrancheRows = 3
  RetainedRows = 7
  EventCapacity = 2
  ControlCapacity = 2
  a = a
  b = b
  Clicks = {a, b}
  Cancels = FALSE
  Reloads = TRUE
  EmitFaults = FALSE
  NoResult = NoResult
  NoCall = NoCall
INVARIANTS
  TrancheAuthorized
