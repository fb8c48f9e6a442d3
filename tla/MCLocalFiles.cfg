SPECIFICATION FairSpec
CONSTANTS
  StoreFiles <- mcStoreFiles
  File = {f}
  Text = {x, y}
  Empty = x
  Tab <- mcTab
  Grant <- mcGrant
  MaxPending = 1
  Settings <- mcSettings
  Absent = Absent
INVARIANTS
  TabsStayUsable
  CleanMeansSaved
  SchemaWhole
PROPERTIES
  NothingOverwrittenUnseen
  OldStoreKept
  RoutedFilesOpen
CHECK_DEADLOCK FALSE
