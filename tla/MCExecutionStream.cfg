SPECIFICATION Spec
CONSTANTS
  Statements = 2
  BatchRows = 1
  TrancheRows = 2
  RetainedRows = 4
  EventCapacity = 2
  ControlCapacity = 2
  a = a
  b = b
  Clicks = {a}
  Cancels = TRUE
  Reloads = TRUE
  EmitFaults = TRUE
  NoResult = NoResult
  NoCall = NoCall
INVARIANTS
  Lockstep
  CompletedIsComplete
  OutcomeIsTrue
  LateEventsDropped
PROPERTIES
  NothingAfterTerminal
