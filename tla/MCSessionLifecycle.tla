------------------------- MODULE MCSessionLifecycle -------------------------
(* SessionLifecycle on one profile with one tab.                           *)
EXTENDS SessionLifecycle, TLC

CONSTANTS w1, p1, t1, s1, s2, e1, e2, c1, c2, c3

MCHome == [x \in Tab |-> p1]

(* Any two requests at once; three from a page that keeps its busy flag;   *)
(* three at once without reloads and losses.                               *)
MCSettings ==
  {[commands |-> 2, reloads |-> 1, losses |-> TRUE, serialises |-> FALSE],
   [commands |-> 3, reloads |-> 1, losses |-> TRUE, serialises |-> TRUE],
   [commands |-> 3, reloads |-> 0, losses |-> FALSE, serialises |-> FALSE]}

(* Sessions, executions and command slots are interchangeable.             *)
Symmetry == Permutations({s1, s2}) \cup Permutations({e1, e2}) \cup Permutations(Command)
=============================================================================
