---------------------------- MODULE PostgresSession ----------------------------
(***************************************************************************)
(* The PostgreSQL adapter (querynot-core/src/postgres.rs).  The server is  *)
(* never asked whether a transaction is open: the adapter follows the      *)
(* leading keyword of the statements that completed.  Manual mode is the   *)
(* client's own: a BEGIN before the first ordinary statement.              *)
(***************************************************************************)
EXTENDS ResultStream

TransactionControl == {"begin", "commit", "rollback", "rollback_to"}

reconcile_statement_effect(kind) ==
  CASE kind \in {"begin", "savepoint"} -> "active"
    [] kind \in {"commit", "rollback", "rollback_to"} -> "clean"
    [] kind = "unclassified" -> "unknown"
    [] OTHER -> IF session.automatic THEN "clean" ELSE "active"

(***************************************************************************)
(* The calls.  Changing the mode waits for nobody.                         *)
(***************************************************************************)
set_automatic ==
  LET automatic == command.op = "automatic" IN
  /\ command.op \in {"automatic", "manual"}
  /\ session' = IF automatic /\ session.certainty # "clean" THEN session
                ELSE [session EXCEPT !.automatic = automatic]
  /\ command' = NoCommand
  /\ UNCHANGED <<server, kills>> /\ CallKeeps

\* commit and rollback look at the certainty before they wait for the
\* connection.
NoTransaction ==
  /\ command.op \in {"commit", "rollback"} /\ command.step = "waiting"
  /\ session.certainty = "clean"
  /\ command' = NoCommand
  /\ UNCHANGED <<server, kills, session>> /\ CallKeeps

WantsConnection ==
  /\ command.op \in {"commit", "rollback"} /\ command.step = "waiting"
  /\ session.certainty # "clean"
  /\ Go("locking")
  /\ UNCHANGED <<server, kills, session>> /\ CallKeeps

EndTransaction(answer) ==
  /\ command.step = "locking" /\ LockFree
  /\ Ask(command.op, TRUE, answer)
  /\ IF answer = "ok" THEN Certain("clean") ELSE UNCHANGED session
  /\ command' = NoCommand
  /\ CallKeeps

commit(answer) == command.op = "commit" /\ EndTransaction(answer)
rollback(answer) == command.op = "rollback" /\ EndTransaction(answer)

(***************************************************************************)
(* Execute.                                                                *)
(***************************************************************************)
Lazily(kind) == /\ ~session.automatic /\ session.certainty = "clean"
                /\ kind \notin TransactionControl

NextStatement(kind) ==
  /\ Runs("statement") /\ ~exec.cancel
  /\ kind \in script /\ MayRun(kind)
  /\ exec' = [exec EXCEPT !.phase = IF Lazily(kind) THEN "begin" ELSE "stream",
                          !.kind = kind]
  /\ UNCHANGED <<serverVars, session, tail, slot, command, reply, ended, outcome>>

LazyBegin(answer) ==
  /\ Runs("begin")
  /\ Ask("begin", TRUE, answer)
  /\ IF answer = "ok"
     THEN Certain("active") /\ exec' = [exec EXCEPT !.phase = "stream"]
     ELSE Certain("unknown") /\ exec' = [exec EXCEPT !.phase = "report", !.failed = TRUE]
  /\ UNCHANGED <<engine, script, tail, slot, command, reply, ended, outcome>>

\* An error leaves whatever was open open; a cancelled statement changes
\* nothing the adapter knows.
StatementSettles ==
  /\ Runs("settle") /\ exec.cur = NoResult
  /\ exec' = [exec EXCEPT !.phase = IF exec.error \/ exec.cancel THEN "report"
                                    ELSE "statement"]
  /\ Certain(IF exec.error THEN IF session.certainty = "clean" THEN "clean" ELSE "active"
             ELSE IF exec.cancel THEN session.certainty
             ELSE reconcile_statement_effect(exec.kind))
  /\ UNCHANGED <<serverVars, tail, slot, command, reply, ended, outcome>>

\* The stream of a statement, and the parts of a result the page answers.
StreamsRows ==
  /\ ReceiveRow \/ UnreadableRow \/ ResultDone
     \/ \E answer \in Replies : StatementRuns(answer)
FinishesResult == LastResult
BatchAnswered == Acknowledged \/ \E canceled \in BOOLEAN : BatchRefused(canceled)
PauseAnswered == \E d \in {"continue", "discard", "expire", "cancel"} : PauseEnds(d)

Execute ==
  \/ Acquire \/ PlanEnds \/ StatementSettles \/ Report("report") \/ Report("finish")
  \/ \E kind \in script : NextStatement(kind) \/ RefuseStatement(kind)
  \/ \E answer \in Replies : LazyBegin(answer)

\* The same calls, at this adapter's own lines.
StartsCancel == request_cancel \/ ControlFails \/ ControlConfirms
AppliesBatch == \E answer \in Replies : apply_table_mutations(answer)
RollsBatchBack == \E answer \in Replies : rollback_mutations(answer)
Describes == \E answer \in Replies : load_object_detail(answer)
BrowsesTable == \E answer \in Replies : browse_table(answer)
Pings == \E answer \in Replies : ping_if_idle(answer)
Explains == ExplainReports \/ \E answer \in Replies : ExplainAsks(answer)

Next ==
  /\ engine = "postgres"
  /\ \/ Execute \/ StreamsRows \/ FinishesResult \/ BatchAnswered \/ PauseAnswered
     \/ StartsCancel \/ ClearActive
     \/ AppliesBatch \/ RollsBatchBack \/ Describes \/ BrowsesTable \/ Pings \/ Explains
     \/ \E op \in {"execute", "explain"} : Install(op)
     \/ \E op \in Operations : AskCommand(op)
     \/ LocksConnection /\ TableTab
     \/ NoTransaction \/ WantsConnection
     \/ set_automatic
     \/ \E answer \in Replies : commit(answer) \/ rollback(answer)
=============================================================================
