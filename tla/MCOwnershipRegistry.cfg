SPECIFICATION Spec
CONSTANTS
  w1 = w1
  w2 = w2
  p1 = p1
  p2 = p2
  t1 = t1
  t2 = t2
  s1 = s1
  s2 = s2
  e1 = e1
  e2 = e2
  Window <- MCWindow
  Profile <- MCProfile
  Tab <- MCTab
  Session <- MCSession
  Execution <- MCExecution
  NoProfile = NoProfile
  Absent = Absent
INVARIANTS
  TypeOK
  OwnershipChain
  TerminalIsNotLive
PROPERTIES
  ExecutionsEndTerminal
  WindowIsolation
