------------------------------ MODULE SqlPlan ------------------------------
(***************************************************************************)
(* plan_execution_for_dialect: the document is split, then every statement  *)
(* is classified before any of them runs.  SqlText is the splitting,        *)
(* SqlPredicate the classification of one UPDATE or DELETE.                 *)
(***************************************************************************)
EXTENDS SqlText, SqlPredicate

CONSTANT
  Changes \* the statements that change rows the users of this behaviour may write

VARIABLES
  change, \* one of the script
  reason  \* why it is shown for confirmation, or "none"

planVars == <<vars, change, reason>>

Unplanned == "unplanned"

PlanInit ==
  /\ Init
  /\ change = [tokens |-> <<>>, where |-> 0, rows |-> {}]
  /\ reason = Unplanned

Classify ==
  /\ status = "planned" /\ reason = Unplanned
  /\ setting.changes
  /\ change' \in Changes
  /\ reason' = classify_destructive(change'.tokens)
  /\ UNCHANGED vars

PlanNext == (Next /\ UNCHANGED <<change, reason>>) \/ Classify

PlanSpec == PlanInit /\ [][PlanNext]_planVars

-----------------------------------------------------------------------------
(* The statement starts with UPDATE or DELETE, and no query in it has a      *)
(* WHERE before its own.  The others refute EXE-5 (SqlPlanClaims).          *)
Plain ==
  /\ change.tokens # <<>> /\ Head(change.tokens) \in {"UPDATE", "DELETE"}
  /\ \A i \in DOMAIN change.tokens : change.tokens[i] = "WHERE" => change.where \in 1 .. i

(* A plain UPDATE or DELETE that runs without a confirmation leaves some    *)
(* row alone, however its predicate is put together and whatever clauses    *)
(* stand before and behind it.                                             *)
UnflaggedRestricts == reason = "none" /\ Plain => Restricts(change)
=============================================================================
