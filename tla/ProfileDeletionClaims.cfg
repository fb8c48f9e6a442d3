INIT Init
NEXT Next
CONSTANTS
  q1 = q1
  t1 = t1
  r1 = r1
  r2 = r2
  c1 = c1
  c2 = c2
  c3 = c3
  QueryTab = {q1}
  TableTab = {t1}
  Secret = {r1, r2}
  Command = {c1, c2}
  Rivals = {{"autosave"}}
  Reloads = 0
  Crashes = 1
  Faults = 0
  NoSecret = NoSecret
  Absent = Absent
CHECK_DEADLOCK FALSE
INVARIANT WorkspaceRestored
\* The other claims, one at a time, each with what changes above:
\*   INVARIANT CredentialGone   with   Rivals = {{"edit"}}, Crashes = 0, Faults = 1
\*   INVARIANT ChoiceHonoured   with   Rivals = {{}}, Crashes = 0, Faults = 1
\*   INVARIANT HistoryReleased   with   Rivals = {{"history"}}, Crashes = 0
\*   PROPERTY GoneForGood   with   Rivals = {{}}, Crashes = 0, Reloads = 1
\*   INVARIANT RegistryFollowsStore   with   Rivals = {{"toggle"}}, Crashes = 0
