SPECIFICATION Spec
CONSTANTS
  w1 = w1
  p1 = p1
  t1 = t1
  s1 = s1
  s2 = s2
  e1 = e1
  e2 = e2
  c1 = c1
  c2 = c2
  Main = w1
  Profile = {p1}
  Tab = {t1}
  Session = {s1, s2}
  Execution = {e1, e2}
  Command = {c1, c2}
  Home <- ClaimHome
  NoProfile = NoProfile
  Absent = Absent
  Settings <- ClaimReload
CHECK_DEADLOCK FALSE
INVARIANT OneSessionPerTab
\* The other claims, one at a time, each with what changes above:
\*   INVARIANT ConnectCanBeCancelled
\*   INVARIANT RegistriesMatch
\*   PROPERTY CancelledStaysOut   with   Settings <- ClaimNoReload
\*   INVARIANT DisconnectedMeansIdle   with   Settings <- ClaimNoReload
\*   INVARIANT OneJob   with   Settings <- ClaimAnyPage
