SPECIFICATION Spec
CONSTANTS
  w1 = w1
  p1 = p1
  t1 = t1
  s1 = s1
  s2 = s2
  e1 = e1
  e2 = e2
  c1 = c1
  c2 = c2
  c3 = c3
  Main = w1
  Profile = {p1}
  Tab = {t1}
  Session = {s1, s2}
  Execution = {e1, e2}
  Command = {c1, c2, c3}
  Home <- MCHome
  NoProfile = NoProfile
  Absent = Absent
  Settings <- MCSettings
SYMMETRY Symmetry
INVARIANTS
  AttemptsAreLive
  OneJobPerSession
  RegistriesAgree
PROPERTIES
  OwnerSpec
  OldStartsRefused
CHECK_DEADLOCK FALSE
