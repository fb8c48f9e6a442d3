SPECIFICATION Spec
CONSTANTS
  q1 = q1
  t1 = t1
  r1 = r1
  r2 = r2
  c1 = c1
  c2 = c2
  c3 = c3
  QueryTab = {q1}
  TableTab = {t1}
  Secret = {r1, r2}
  Command = {c1, c2}
  Rivals = {{}, {"edit", "autosave", "history"}}
  Reloads = 0
  Crashes = 2
  Faults = 2
  NoSecret = NoSecret
  Absent = Absent
INVARIANTS
  RegistryFollowsStore
PROPERTIES
  DeletionSpec
  PendingEnds
CHECK_DEADLOCK FALSE
