----------------------------- MODULE SqliteSession -----------------------------
(***************************************************************************)
(* The SQLite adapter (querynot-core/src/sqlite.rs): its transaction and   *)
(* its calls.  The rows of a statement are the subject of ExecutionStream; *)
(* here a statement runs, fails or is stopped by the progress handler in   *)
(* one step.  Nothing is asked of the library about the transaction.       *)
(***************************************************************************)
EXTENDS ResultStream

TransactionControl == {"begin", "savepoint", "commit", "rollback", "rollback_to", "release"}

reconcile_transaction_statement(kind) ==
  CASE kind \in {"begin", "savepoint"} -> "active"
    [] kind \in {"commit", "rollback", "rollback_to"} -> "clean"
    [] OTHER -> session.certainty

(***************************************************************************)
(* The calls.                                                              *)
(***************************************************************************)
set_automatic ==
  LET automatic == command.op = "automatic" IN
  /\ command.op \in {"automatic", "manual"}
  /\ session' = IF automatic /\ session.certainty # "clean" THEN session
                ELSE [session EXCEPT !.automatic = automatic]
  /\ command' = NoCommand
  /\ UNCHANGED <<server, kills>> /\ CallKeeps

EndTransaction(answer) ==
  /\ command.step = "waiting" /\ LockFree
  /\ IF session.certainty = "clean"
     THEN answer = "refused" /\ UNCHANGED <<server, kills, session>>
     ELSE /\ Ask(command.op, TRUE, answer)
          /\ IF answer = "ok" THEN Certain("clean") ELSE UNCHANGED session
  /\ command' = NoCommand
  /\ CallKeeps

commit(answer) == command.op = "commit" /\ EndTransaction(answer)
rollback(answer) == command.op = "rollback" /\ EndTransaction(answer)

\* The flag in the slot stops the running statement; nothing else is needed.
request_cancel_flag ==
  /\ slot # "none"
  /\ exec' = IF slot = "exec" THEN [exec EXCEPT !.cancel = TRUE, !.asked = TRUE] ELSE exec
  /\ UNCHANGED <<serverVars, session, tail, slot, command, reply, ended, outcome>>

(***************************************************************************)
(* Execute.                                                                *)
(***************************************************************************)
Lazily(kind) == /\ ~session.automatic /\ session.certainty = "clean"
                /\ kind \notin TransactionControl

NextStatement(kind) ==
  /\ Runs("statement") /\ ~exec.cancel
  /\ kind \in script
  /\ exec' = [exec EXCEPT !.phase = IF Lazily(kind) THEN "begin" ELSE "stream",
                          !.kind = kind]
  /\ UNCHANGED <<serverVars, session, tail, slot, command, reply, ended, outcome>>

\* Faulty: the transaction that was begun is not recorded.
LazyBeginForgets(answer) ==
  /\ Runs("begin")
  /\ Ask("begin", TRUE, answer)
  /\ exec' = [exec EXCEPT !.phase = IF answer = "ok" THEN "stream" ELSE "report",
                          !.failed = answer # "ok"]
  /\ UNCHANGED <<engine, script, session, tail, slot, command, reply, ended, outcome>>

LazyBegin(answer) ==
  /\ Runs("begin")
  /\ Ask("begin", TRUE, answer)
  /\ IF answer = "ok"
     THEN Certain("active") /\ exec' = [exec EXCEPT !.phase = "stream"]
     ELSE UNCHANGED session /\ exec' = [exec EXCEPT !.phase = "report", !.failed = TRUE]
  /\ UNCHANGED <<engine, script, tail, slot, command, reply, ended, outcome>>

\* A statement may complete although it was to be stopped.  A read-only
\* database refuses every write.
RunStatement(answer) ==
  /\ Runs("stream")
  /\ answer = "ok" => ~session.readOnly \/ exec.kind \notin {"write", "ddl"}
  /\ Ask(exec.kind, TRUE, answer)
  /\ exec' = [exec EXCEPT !.phase = "settle",
                          !.error = answer # "ok" /\ ~exec.cancel,
                          !.failed = answer # "ok" /\ ~exec.cancel]
  /\ UNCHANGED <<engine, script, session, tail, slot, command, reply, ended, outcome>>

\* mark_unknown_if_active after an error; a cancelled statement changes
\* nothing the adapter knows.
mark_unknown_if_active ==
  IF session.certainty = "active" THEN "unknown" ELSE session.certainty

StatementSettles ==
  /\ Runs("settle")
  /\ exec' = [exec EXCEPT !.phase = IF exec.error \/ exec.cancel THEN "report"
                                    ELSE "statement"]
  /\ Certain(IF exec.error THEN mark_unknown_if_active
             ELSE IF exec.cancel THEN session.certainty
             ELSE reconcile_transaction_statement(exec.kind))
  /\ UNCHANGED <<serverVars, tail, slot, command, reply, ended, outcome>>

Execute ==
  \/ Acquire \/ PlanEnds \/ StatementSettles \/ Report("report") \/ Report("finish")
  \/ \E kind \in script : NextStatement(kind)
  \/ \E answer \in Replies : LazyBegin(answer) \/ RunStatement(answer)

\* The same calls, at this adapter's own lines.
AppliesBatch == \E answer \in Replies : apply_table_mutations(answer)
RollsBatchBack == \E answer \in Replies : rollback_mutations(answer)
Describes == \E answer \in Replies : load_object_detail(answer)
BrowsesTable == \E answer \in Replies : browse_table(answer)
Explains == ExplainReports \/ \E answer \in Replies : ExplainAsks(answer)

Next ==
  /\ engine = "sqlite"
  /\ \/ Execute \/ request_cancel_flag \/ ClearActive
     \/ AppliesBatch \/ RollsBatchBack \/ Describes \/ BrowsesTable \/ Explains
     \/ \E op \in {"execute", "explain"} : Install(op)
     \/ \E op \in Operations : AskCommand(op)
     \/ LocksConnection /\ TableTab
     \/ set_automatic
     \/ \E answer \in Replies : commit(answer) \/ rollback(answer)
=============================================================================
