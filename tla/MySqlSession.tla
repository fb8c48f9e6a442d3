----------------------------- MODULE MySqlSession -----------------------------
(***************************************************************************)
(* The MySQL-family adapter (querynot-core/src/mysql.rs): the transaction  *)
(* of one session as the adapter knows it.  A server with the in_          *)
(* transaction variable ("mysql") is asked for it after every statement;   *)
(* MySQL 5.7 ("mysql57") cannot be, and the adapter follows the statements *)
(* it ran by their leading keyword.                                        *)
(***************************************************************************)
EXTENDS ResultStream

transaction_variable_available == engine = "mysql"

(***************************************************************************)
(* reconcile_transaction: one question to the server, or the tracked       *)
(* certainty.  Where it is only tracked, anything but active becomes clean.*)
(***************************************************************************)
reconcile_transaction ==
  LET active == IF transaction_variable_available THEN server.tx = "open"
                ELSE session.certainty = "active"
  IN IF active THEN "active" ELSE "clean"

reconcile_mysql57_statement_effect(kind) ==
  CASE kind = "begin" -> "active"
    [] kind \in {"commit", "rollback", "rollback_to"} -> "clean"
    [] kind \in {"ddl", "autocommit_off", "autocommit_on"} -> "clean"
    [] kind = "show" -> session.certainty
    [] kind = "unclassified" -> "unknown"
    [] OTHER -> IF session.automatic THEN "clean" ELSE "active"

(***************************************************************************)
(* set_automatic, commit and rollback: ask, act, and ask again.            *)
(***************************************************************************)
\* Whether the call goes on after its first question.
GoesOn ==
  CASE command.op = "manual" -> TRUE
    [] command.op = "automatic" -> reconcile_transaction = "clean"
    [] OTHER -> reconcile_transaction # "clean"

\* A call that gets no answer leaves the adapter with what it believed.
CallAnswers(answer) ==
  /\ reply' = IF answer = "ok" THEN reply ELSE "unanswered"
  /\ UNCHANGED <<engine, script>> /\ ExecKeeps

InspectFirst(answer) ==
  /\ command.step = "first"
  /\ Ask("inspect", FALSE, answer)
  /\ IF answer = "ok" THEN Certain(reconcile_transaction) ELSE UNCHANGED session
  /\ IF answer = "ok" /\ GoesOn THEN Go("act") ELSE command' = NoCommand
  /\ CallAnswers(answer)

\* Faulty: the mode is stored before the server has answered.
SetAutocommitEarly(answer) ==
  LET automatic == command.op = "automatic" IN
  /\ command.step = "act"
  /\ Ask(IF automatic THEN "autocommit_on" ELSE "autocommit_off", FALSE, answer)
  /\ session' = [session EXCEPT !.automatic = automatic, !.certainty = "clean"]
  /\ IF answer = "ok" THEN Go("inspect again") ELSE command' = NoCommand
  /\ CallAnswers(answer)

\* SET SESSION autocommit: what was tracked of the transaction starts over.
SetAutocommit(answer) ==
  LET automatic == command.op = "automatic" IN
  /\ command.step = "act"
  /\ Ask(IF automatic THEN "autocommit_on" ELSE "autocommit_off", FALSE, answer)
  /\ IF answer = "ok"
     THEN /\ session' = [session EXCEPT !.automatic = automatic, !.certainty = "clean"]
          /\ Go("inspect again")
     ELSE command' = NoCommand /\ UNCHANGED session
  /\ CallAnswers(answer)

EndTransaction(answer) ==
  /\ command.step = "act"
  /\ Ask(command.op, TRUE, answer)
  /\ IF answer = "ok" THEN Certain("clean") /\ Go("inspect again")
     ELSE command' = NoCommand /\ UNCHANGED session
  /\ CallAnswers(answer)

InspectAgain(answer) ==
  /\ command.step = "inspect again"
  /\ Ask("inspect", FALSE, answer)
  /\ IF answer = "ok" THEN Certain(reconcile_transaction) ELSE UNCHANGED session
  /\ command' = NoCommand
  /\ CallAnswers(answer)

set_automatic(answer) ==
  /\ command.op \in {"automatic", "manual"}
  /\ InspectFirst(answer) \/ SetAutocommit(answer) \/ InspectAgain(answer)

commit(answer) ==
  /\ command.op = "commit"
  /\ InspectFirst(answer) \/ EndTransaction(answer) \/ InspectAgain(answer)

rollback(answer) ==
  /\ command.op = "rollback"
  /\ InspectFirst(answer) \/ EndTransaction(answer) \/ InspectAgain(answer)

(***************************************************************************)
(* Execute.                                                                *)
(***************************************************************************)
NextStatement(kind) ==
  /\ Runs("statement") /\ ~exec.cancel
  /\ kind \in script /\ MayRun(kind)
  /\ exec' = [exec EXCEPT !.phase = "stream", !.kind = kind]
  /\ UNCHANGED <<serverVars, session, tail, slot, command, reply, ended, outcome>>

\* After an error the server is asked; if it does not answer, nothing is known.
transaction_after_error(answer) ==
  /\ Runs("settle") /\ exec.cur = NoResult /\ exec.error
  /\ Ask("inspect", FALSE, answer)
  /\ Certain(IF answer = "ok" THEN reconcile_transaction ELSE "unknown")
  /\ exec' = [exec EXCEPT !.phase = "report"]
  /\ UNCHANGED <<engine, script, tail, slot, command, reply, ended, outcome>>

StatementSettles ==
  /\ Runs("settle") /\ exec.cur = NoResult /\ ~exec.error
  /\ IF exec.cancel
     THEN exec' = [exec EXCEPT !.phase = "finish"] /\ UNCHANGED session
     ELSE /\ exec' = [exec EXCEPT !.phase = "reconcile"]
          /\ Certain(IF transaction_variable_available THEN session.certainty
                     ELSE reconcile_mysql57_statement_effect(exec.kind))
  /\ UNCHANGED <<serverVars, tail, slot, command, reply, ended, outcome>>

\* After every statement the adapter takes the server's word for the mode and
\* the transaction.
ReconcileStatement(answer) ==
  /\ Runs("reconcile")
  /\ Ask("inspect", FALSE, answer)
  /\ IF answer = "ok"
     THEN /\ session' = [session EXCEPT !.automatic = server.autocommit,
                                        !.certainty = reconcile_transaction]
          /\ exec' = [exec EXCEPT !.phase = "statement", !.kind = "none"]
     ELSE /\ Certain("unknown")
          /\ exec' = [exec EXCEPT !.phase = "report", !.failed = TRUE]
  /\ UNCHANGED <<engine, script, tail, slot, command, reply, ended, outcome>>

\* The last question, before the terminal event.
FinishExecution(answer) ==
  /\ Runs("finish")
  /\ Ask("inspect", FALSE, answer)
  /\ Certain(IF answer = "ok" THEN reconcile_transaction ELSE "unknown")
  /\ exec' = [exec EXCEPT !.phase = "report"]
  /\ UNCHANGED <<engine, script, tail, slot, command, reply, ended, outcome>>

Execute ==
  \/ Acquire \/ PlanEnds \/ StatementSettles \/ Report("report")
  \/ \E kind \in script : NextStatement(kind) \/ RefuseStatement(kind)
  \/ \E answer \in Replies :
       \/ transaction_after_error(answer) \/ ReconcileStatement(answer)
       \/ FinishExecution(answer)

Next ==
  /\ engine \in MySqlFamily
  /\ \/ Execute \/ ResultStreamStep \/ ClearActive
     \/ request_cancel \/ ControlFails \/ ControlConfirms
     \/ LocksConnection \/ ExplainReports
     \/ \E op \in {"execute", "explain"} : Install(op)
     \/ \E op \in Operations : AskCommand(op)
     \/ \E answer \in Replies :
          \/ set_automatic(answer) \/ commit(answer) \/ rollback(answer)
          \/ load_object_detail(answer) \/ browse_table(answer) \/ ping_if_idle(answer) \/ ExplainAsks(answer)
          \/ apply_table_mutations(answer) \/ rollback_mutations(answer)
=============================================================================
