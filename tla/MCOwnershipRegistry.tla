------------------------ MODULE MCOwnershipRegistry ------------------------
(* OwnershipRegistry on two windows that compete for two profiles and two  *)
(* tabs, with two native sessions and two executions.                      *)
EXTENDS OwnershipRegistry

CONSTANTS w1, w2, p1, p2, t1, t2, s1, s2, e1, e2

MCWindow == {w1, w2}
MCProfile == {p1, p2}
MCTab == {t1, t2}
MCSession == {s1, s2}
MCExecution == {e1, e2}
=============================================================================
