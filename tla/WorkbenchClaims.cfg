INIT Init
NEXT Next
CONSTANTS
  sales = sales
  audit = audit
  drop = drop
  purge = purge
  c1 = c1
  c2 = c2
  k1 = k1
  k2 = k2
  Absent = Absent
  Context <- MCContext
  Home = sales
  Statement <- MCStatement
  Command <- MCCommand
  Check <- MCCheck
  Settings <- ClaimTransaction
CHECK_DEADLOCK FALSE
PROPERTY TransactionKept
\* The other claims, one at a time, each with what changes above:
\*   PROPERTY ContextPreserved   with   Settings <- ClaimContext
\*   PROPERTY ModePreserved   with   Settings <- ClaimMode
\*   PROPERTY PlanProtected   with   Settings <- ClaimPlan
\*   PROPERTY ReconnectInvalidates   with   Settings <- ClaimApproval
\*   PROPERTY ContextInvalidates   with   Settings <- ClaimChange
