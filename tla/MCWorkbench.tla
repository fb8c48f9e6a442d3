---------------------------- MODULE MCWorkbench ----------------------------
(* Workbench with two contexts, two commands and two health checks.  The   *)
(* health checks meet a query tab, its executions and transactions; then a *)
(* table tab, its plans and refreshes; then two pages.                     *)
EXTENDS Workbench

CONSTANTS sales, audit, drop, purge, c1, c2, k1, k2

MCContext == {sales, audit}
MCStatement == {drop, purge}
MCCommand == {c1, c2}
MCCheck == {k1, k2}

Plain == [sends |-> {}, commands |-> 1, generations |-> 1, sessions |-> 2, connections |-> 2,
          issues |-> 0, reloads |-> 0, checks |-> {k1}, loses |-> {"session"}, timeouts |-> FALSE]

(* A query tab: approvals over three connections, then executions and      *)
(* transactions, then a change of context between a review and its use,    *)
(* then pings that time out.                                               *)
QueryTab ==
  {[Plain EXCEPT !.sends = {"execute"}, !.issues = 2, !.connections = 3],
   [Plain EXCEPT !.sends = {"execute", "explain", "transaction"}],
   [Plain EXCEPT !.sends = {"execute", "context"}, !.issues = 1, !.sessions = 1],
   [Plain EXCEPT !.sends = {"context", "transaction"}, !.sessions = 1, !.timeouts = TRUE],
   [Plain EXCEPT !.sends = {"mode", "transaction"}, !.commands = 2, !.sessions = 1]}

(* A table tab: previews that overlap a change of context, then a health   *)
(* check, then refreshes and the next session, then a script of the tab.   *)
TableTab ==
  {[Plain EXCEPT !.sends = {"plan", "context"}, !.commands = 2, !.issues = 2, !.checks = {},
                 !.sessions = 1, !.connections = 1],
   [Plain EXCEPT !.sends = {"plan", "context"}, !.issues = 1, !.sessions = 1],
   [Plain EXCEPT !.sends = {"plan", "refresh"}, !.issues = 2],
   [Plain EXCEPT !.sends = {"plan", "execute"}, !.issues = 2, !.sessions = 1]}

(* Two explicit connections and two pages, each with its check.            *)
Pages ==
  {[Plain EXCEPT !.checks = {k1, k2}, !.generations = 2, !.reloads = 1, !.connections = 3,
                 !.loses = {"metadata", "session"}, !.timeouts = TRUE]}

MCSettings == QueryTab \cup TableTab \cup Pages
=============================================================================
