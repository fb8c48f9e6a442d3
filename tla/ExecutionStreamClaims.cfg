SPECIFICATION Spec
CONSTANTS
  a = a
  b = b
  Statements = 1
  BatchRows = 1
  TrancheRows = 2
  RetainedRows = 3
  EventCapacity = 2
  ControlCapacity = 2
  Clicks = {}
  Cancels = TRUE
  Reloads = FALSE
  EmitFaults = FALSE
  NoResult = NoResult
  NoCall = NoCall
INVARIANT CancelIsNotAFailure
\* The other claims, one at a time, each with what changes above:
\*   PROPERTY TerminalStateStays
\*   INVARIANT ShownResultsEnd   with   Cancels = FALSE, TrancheRows = 3
\*   INVARIANT ReloadForgetsResults   with   Cancels = FALSE, Reloads = TRUE
\*   PROPERTY ReloadEndsJob   with   Cancels = FALSE, Reloads = TRUE
\*   INVARIANT PauseIsShown   with   Cancels = FALSE, Clicks = {a}, TrancheRows = 1
