SPECIFICATION Spec
CONSTANTS
  Engines = {"postgres"}
  Scripts <- CScripts
  Losses = FALSE
  BatchRows = 1
  TrancheRows = 2
  RetainedRows = 3
  NoResult = NoResult
CHECK_DEADLOCK FALSE
INVARIANT TransactionShown
\* The other claims, one at a time, each with what changes above:
\*   INVARIANT TransactionShown   with   Scripts <- PlainScripts
\*   INVARIANT TransactionShown   with   Engines = {"mysql57"}, Scripts <- PlainScripts
\*   PROPERTY UnclassifiableIsUnknown   with   Engines = {"mysql57"}, Scripts <- CommentScripts
\*   PROPERTY ManualWriteWaits   with   Engines = {"sqlite"}, Scripts <- SqliteScripts
\*   INVARIANT CancelledOnRequest   with   Engines = {"mysql"}, Scripts <- PlainScripts
