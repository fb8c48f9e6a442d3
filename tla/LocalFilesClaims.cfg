SPECIFICATION Spec
CONSTANTS
  StoreFiles <- claimStores
  File = {f}
  Text = {x, y}
  Empty = x
  Tab <- claimTab
  Grant <- claimGrant
  MaxPending = 1
  Settings <- claimRouted
  Absent = Absent
CHECK_DEADLOCK FALSE
INVARIANT RoutedFilesUsable
\* The other claims, one at a time, each with what changes above:
\*   PROPERTY ExternalChangeStops   with   Settings <- claimWritten
\*   INVARIANT UnsavedIsMarked   with   Settings <- claimTyped
\*   INVARIANT PagesAreReturned   with   Settings <- claimFirstStart
