----------------------------- MODULE ResultStream -----------------------------
(***************************************************************************)
(* What the adapters share, line for line: the session behind a connection *)
(* lock, the slot through which the running execution is cancelled, the    *)
(* calls of a table tab, and, between the MySQL family and PostgreSQL, the *)
(* stream that turns the rows of one statement into batches, pauses and    *)
(* result sets.  The definitions follow mysql.rs; PostgresSession and      *)
(* SqliteSession name the lines of their own that say the same.  The       *)
(* page's answers to a batch and to a pause are choices of the             *)
(* environment; the channels that carry them are the subject of            *)
(* ExecutionStream.                                                        *)
(*                                                                         *)
(* A call that holds the lock is a sequence of round trips; control        *)
(* requests, and calls that need no lock, come between them.               *)
(*                                                                         *)
(*   session  the adapter's record of the session                          *)
(*   exec     the execution, or the explain, in progress                   *)
(*   tail     an execution has sent its terminal event and still holds the *)
(*            lock: it has its slot to clear                               *)
(*   slot     whose flags active_cancel holds                              *)
(*   command  the other call on the session that is in progress            *)
(*   reply    what the last call answered                                  *)
(*   ended    the last result terminal, with what the page really got      *)
(*   outcome  the last terminal event of an execution                      *)
(***************************************************************************)
EXTENDS ServerConnection

CONSTANTS BatchRows,      \* MAX_BATCH_ROWS
          TrancheRows,    \* the configured tranche
          RetainedRows,   \* MAX_RETAINED_ROWS
          NoResult

ASSUME BoundsAssumption == {BatchRows, TrancheRows, RetainedRows} \subseteq Nat \ {0}

VARIABLES session, exec, tail, slot, command, reply, ended, outcome

vars == <<serverVars, session, exec, tail, slot, command, reply, ended, outcome>>

Certainty == {"clean", "active", "unknown"}

NewResult ==
  [sequence |-> 0, sendColumns |-> TRUE, rows |-> 0, received |-> 0,
   limit |-> TrancheRows, capped |-> FALSE, discarded |-> FALSE,
   expired |-> FALSE, skip |-> FALSE, missed |-> FALSE]

ResultType ==
  [sequence : 0..RetainedRows + 1, sendColumns : BOOLEAN, rows : 0..BatchRows,
   received : 0..RetainedRows, limit : Nat, capped : BOOLEAN, discarded : BOOLEAN,
   expired : BOOLEAN, skip : BOOLEAN, missed : BOOLEAN]

NoExec == [op |-> "none", phase |-> "idle", kind |-> "none", after |-> "none",
           sent |-> 0, cancel |-> FALSE, asked |-> FALSE, confirmed |-> FALSE,
           failed |-> FALSE, error |-> FALSE, cur |-> NoResult]

ExecType ==
  [op : {"none", "execute", "explain"},
   phase : {"idle", "queued", "statement", "begin", "stream", "ack", "paused",
            "settle", "reconcile", "finish", "report"},
   kind : STRING, after : {"none", "row", "tranche", "done", "end"},
   sent : 0..BatchRows, cancel : BOOLEAN, asked : BOOLEAN, confirmed : BOOLEAN,
   failed : BOOLEAN, error : BOOLEAN, cur : {NoResult} \cup ResultType]

NoCommand == [op |-> "none", step |-> "idle"]

\* Every property of the session at rest is stated where no call is in progress.
Quiet == exec = NoExec /\ ~tail /\ command = NoCommand

LockFree == /\ ~tail
            /\ exec.phase \in {"idle", "queued"} \/ exec.op = "explain"
            /\ command.step \in {"idle", "waiting"}

\* A query tab runs scripts and shows the transaction controls, a table tab
\* browses a table and applies what was staged on it.
TableTab == script = {}
Operations == IF TableTab THEN {"describe", "browse", "apply"}
              ELSE {"automatic", "manual", "commit", "rollback"}

NoTerminal == [state |-> "none", whole |-> TRUE, capped |-> FALSE, failed |-> FALSE]

Certain(c) == session' = [session EXCEPT !.certainty = c]

TypeOK ==
  /\ engine \in Engines /\ server \in ServerType
  /\ kills \subseteq {"current", "late", "confirming"} /\ script \in Scripts
  /\ session \in [automatic : BOOLEAN, certainty : Certainty, readOnly : BOOLEAN]
  /\ exec \in ExecType /\ tail \in BOOLEAN /\ slot \in {"none", "exec", "tail"}
  /\ command.op \in {"none"} \cup Operations
  /\ reply \in {"none", "applied", "rolled back", "unconfirmed", "unanswered"}

\* A session is opened in auto-commit mode with no transaction; what the
\* adapter found out about the server decides whether it may write.
Init ==
  /\ engine \in Engines /\ script \in Scripts
  /\ server = FreshServer /\ kills = {}
  /\ session \in [automatic : {TRUE}, certainty : {"clean"}, readOnly : BOOLEAN]
  /\ exec = NoExec /\ tail = FALSE /\ slot = "none" /\ command = NoCommand
  /\ reply = "none"
  /\ ended = NoTerminal
  /\ outcome = [kind |-> "none", confirmed |-> FALSE, asked |-> FALSE]

(***************************************************************************)
(* Cancelling.                                                             *)
(***************************************************************************)
\* The flags are installed before the call waits for the connection.
\* A session in an unknown state runs only what provably reads.
WriteGate(op) ==
  op = "execute" /\ session.certainty = "unknown" => script \subseteq {"select", "read"}

Install(op) ==
  /\ exec = NoExec /\ ~TableTab /\ WriteGate(op)
  /\ exec' = [NoExec EXCEPT !.op = op, !.phase = "queued"]
  /\ slot' = "exec"
  /\ outcome' = [kind |-> "none", confirmed |-> FALSE, asked |-> FALSE]
  /\ ended' = NoTerminal
  /\ UNCHANGED <<serverVars, session, tail, command, reply>>

\* The flag in the slot is cleared and a task is spawned that connects and
\* asks the server to stop the session's running query.
request_cancel ==
  /\ slot # "none"
  /\ IF slot = "exec"
     THEN /\ exec' = [exec EXCEPT !.cancel = TRUE, !.asked = TRUE]
          /\ kills' = kills \cup {"current"}
     ELSE /\ kills' = kills \cup {"late"}
          /\ UNCHANGED exec
  /\ UNCHANGED <<engine, server, script, session, tail, slot, command, reply, ended, outcome>>

\* The task cannot connect, or the server refuses it.
ControlFails ==
  /\ \E k \in kills \ {"confirming"} : kills' = kills \ {k}
  /\ UNCHANGED <<engine, server, script, session, exec, tail, slot, command, reply, ended, outcome>>

\* The server obeys while the session runs nothing it could stop, or the
\* report of a request that did stop something arrives.
ControlConfirms ==
  /\ \E k \in kills :
       /\ kills' = kills \ {k}
       /\ exec' = IF k = "late" THEN exec ELSE [exec EXCEPT !.confirmed = TRUE]
  /\ UNCHANGED <<engine, server, script, session, tail, slot, command, reply, ended, outcome>>

\* A request outlives the execution it aimed at.
Outlived == {"late" : k \in kills \cap {"current", "late"}}

\* The terminal event goes out while the lock is held and the slot is full.
Terminate(kind) ==
  /\ outcome' = [kind |-> kind, confirmed |-> exec.confirmed, asked |-> exec.asked]
  /\ exec' = NoExec /\ tail' = TRUE
  /\ slot' = IF slot = "exec" THEN "tail" ELSE slot

\* Whatever the slot holds by then is cleared, and the lock is dropped.
ClearActive ==
  /\ tail
  /\ tail' = FALSE /\ slot' = "none"
  /\ UNCHANGED <<serverVars, session, exec, command, reply, ended, outcome>>

(***************************************************************************)
(* The calls of a tab that is not running a script.                        *)
(***************************************************************************)
CommandIs(op, step) == command.op = op /\ command.step = step
Go(step) == command' = [command EXCEPT !.step = step]
ExecKeeps == UNCHANGED <<exec, tail, slot, ended, outcome>>
CallKeeps == UNCHANGED <<engine, script, reply>> /\ ExecKeeps

\* A staged batch needs a writable, clean auto-commit session; the page asks
\* for the other mode than the one it shows.  What the session's transactions
\* had committed before the call is left out of account.
AskCommand(op) ==
  /\ command = NoCommand /\ op \in Operations
  /\ op = "apply" => /\ ~session.readOnly
                     /\ session.automatic /\ session.certainty = "clean"
  /\ op = "automatic" => ~session.automatic
  /\ op = "manual" => session.automatic
  /\ command' = [op |-> op, step |-> "waiting"]
  /\ reply' = "none"
  /\ server' = [server EXCEPT !.saved = {}]
  /\ UNCHANGED <<engine, kills, script, session>> /\ ExecKeeps

LocksConnection ==
  /\ command.step = "waiting" /\ LockFree
  /\ Go(CASE command.op = "apply" -> "begin"
          [] command.op \in {"describe", "browse"} -> "describe"
          [] OTHER -> "first")
  /\ UNCHANGED <<serverVars, session, reply>> /\ ExecKeeps

\* Metadata is read in one question or, of an object, in several; the first
\* that fails ends the call.  A page of rows comes after the object's.
load_object_detail(answer) ==
  /\ command.step = "describe"
  /\ Ask("show", TRUE, answer)
  /\ IF answer # "ok" THEN command' = NoCommand
     ELSE IF command.op = "browse" THEN command' = command \/ Go("page")
     ELSE command' \in {command, NoCommand}
  /\ UNCHANGED session /\ CallKeeps

browse_table(answer) ==
  /\ CommandIs("browse", "page")
  /\ Ask("read", TRUE, answer)
  /\ command' = NoCommand
  /\ UNCHANGED session /\ CallKeeps

\* The health check pings a connection nobody holds.
ping_if_idle(answer) ==
  /\ LockFree /\ answer \in {"ok", "lost"}
  /\ Ask("ping", FALSE, answer)
  /\ UNCHANGED <<session, command>> /\ CallKeeps

\* apply_table_mutations: a transaction of its own around two changes.
StartBatch(answer) ==
  /\ CommandIs("apply", "begin")
  /\ Ask("begin", TRUE, answer)
  /\ IF answer = "ok" THEN Go("m1") ELSE command' = NoCommand
  /\ UNCHANGED session /\ CallKeeps

\* A change that fails, or that did not touch exactly the rows it expects,
\* rolls the batch back.
ChangeRow(answer, expected) ==
  /\ command.op = "apply" /\ command.step \in {"m1", "m2"}
  /\ Ask(command.step, TRUE, answer)
  /\ Go(IF answer = "ok" /\ expected
        THEN IF command.step = "m1" THEN "m2" ELSE "commit"
        ELSE "undo")
  /\ UNCHANGED session /\ CallKeeps

\* Faulty: the session stays as clean as it was.
CommitBatchTrusting(answer) ==
  /\ CommandIs("apply", "commit")
  /\ Ask("commit", TRUE, answer)
  /\ IF answer = "ok"
     THEN command' = NoCommand /\ reply' = "applied" /\ UNCHANGED session
     ELSE Go("last") /\ UNCHANGED <<session, reply>>
  /\ UNCHANGED <<engine, script>> /\ ExecKeeps

\* A commit nobody confirmed is followed by a rollback whose outcome is
\* ignored.
CommitBatch(answer) ==
  /\ CommandIs("apply", "commit")
  /\ Ask("commit", TRUE, answer)
  /\ IF answer = "ok"
     THEN command' = NoCommand /\ reply' = "applied" /\ UNCHANGED session
     ELSE Go("last") /\ Certain("unknown") /\ UNCHANGED reply
  /\ UNCHANGED <<engine, script>> /\ ExecKeeps

LastRollback(answer) ==
  /\ CommandIs("apply", "last")
  /\ Ask("rollback", FALSE, answer)
  /\ command' = NoCommand /\ reply' = "unconfirmed"
  /\ UNCHANGED <<engine, script, session>> /\ ExecKeeps

rollback_mutations(answer) ==
  /\ CommandIs("apply", "undo")
  /\ Ask("rollback", FALSE, answer)
  /\ command' = NoCommand
  /\ IF answer = "ok" THEN reply' = "rolled back" /\ UNCHANGED session
     ELSE reply' = "unconfirmed" /\ Certain("unknown")
  /\ UNCHANGED <<engine, script>> /\ ExecKeeps

apply_table_mutations(answer) ==
  \/ StartBatch(answer) \/ CommitBatch(answer) \/ LastRollback(answer)
  \/ \E expected \in BOOLEAN : ChangeRow(answer, expected)

(***************************************************************************)
(* Execute, but for the transaction, and explain.                          *)
(***************************************************************************)
Runs(phase) == exec.op = "execute" /\ exec.phase = phase

Acquire ==
  /\ Runs("queued") /\ LockFree
  /\ exec' = [exec EXCEPT !.phase = "statement"]
  /\ UNCHANGED <<serverVars, session, tail, slot, command, reply, ended, outcome>>

\* A session that may not write runs only what provably reads: anything else
\* is the end of the script.
MayRun(kind) == session.readOnly => kind \in {"select", "read"}

RefuseStatement(kind) ==
  /\ Runs("statement") /\ ~exec.cancel
  /\ kind \in script /\ ~MayRun(kind)
  /\ Terminate("failed") /\ kills' = Outlived
  /\ UNCHANGED <<engine, server, script, session, command, reply, ended>>

\* The script is over, or a cancelled one runs no further statement.
PlanEnds ==
  /\ Runs("statement")
  /\ exec' = [exec EXCEPT !.phase = "finish"]
  /\ UNCHANGED <<serverVars, session, tail, slot, command, reply, ended, outcome>>

Report(phase) ==
  /\ Runs(phase)
  /\ Terminate(IF exec.failed THEN "failed"
               ELSE IF exec.cancel THEN "cancelled" ELSE "finished")
  /\ kills' = Outlived
  /\ UNCHANGED <<engine, server, script, session, command, reply, ended>>

\* Explain asks the server for a plan; its slot is cleared before the outcome
\* is looked at.
ExplainAsks(answer) ==
  /\ exec.op = "explain" /\ exec.phase = "queued" /\ LockFree
  /\ Ask("show", TRUE, answer)
  /\ exec' = [exec EXCEPT !.phase = "report", !.failed = answer # "ok"]
  /\ UNCHANGED <<session, tail, slot, command, ended, outcome>>
  /\ UNCHANGED <<engine, script, reply>>

ExplainReports ==
  /\ exec.op = "explain" /\ exec.phase = "report"
  /\ exec' = NoExec /\ slot' = "none" /\ kills' = Outlived
  /\ outcome' = [kind |-> IF exec.cancel THEN "cancelled"
                          ELSE IF exec.failed THEN "failed" ELSE "finished",
                 confirmed |-> exec.confirmed, asked |-> exec.asked]
  /\ UNCHANGED <<engine, server, script, session, tail, command, reply, ended>>

(***************************************************************************)
(* The stream of one statement.  Each step maps exec; nothing else moves   *)
(* but the result terminal it may send.                                    *)
(***************************************************************************)
Streaming == /\ exec.op = "execute" /\ exec.phase = "stream"

StreamKeeps == UNCHANGED <<engine, script, session, tail, slot, command, reply, outcome>>

\* Faulty: a refused last batch is not told from one that was taken.
finish_state_trusting(delivered, r) ==
  IF exec.cancel THEN "cancelled"
  ELSE IF r.expired THEN "expired"
  ELSE IF r.discarded THEN "disposed"
  ELSE "completed"

finish_state(delivered, r) ==
  IF exec.cancel THEN "cancelled"
  ELSE IF r.expired THEN "expired"
  ELSE IF r.discarded \/ ~delivered THEN "disposed"
  ELSE "completed"

\* The end of finish_result: a terminal for every result a batch of which was
\* acknowledged; then the stream goes on, or the statement is over.
SendTerminal(r, delivered, next, canceled) ==
  LET state == IF canceled THEN "cancelled" ELSE finish_state(delivered, r) IN
  /\ exec' = [exec EXCEPT !.cur = NoResult, !.after = "none", !.phase = next,
                          !.sent = 0, !.cancel = @ \/ canceled]
  /\ ended' = IF r.sequence > 0
              THEN [state |-> state, whole |-> ~r.missed, capped |-> r.capped,
                    failed |-> exec.error]
              ELSE ended

\* flush_batch: nothing to send counts as delivered.
Flush(r, after) ==
  exec' = [exec EXCEPT !.phase = "ack", !.after = after, !.sent = r.rows,
                       !.cur = [r EXCEPT !.rows = 0, !.sendColumns = FALSE]]

finish_result(r, after) ==
  IF r.discarded \/ r.expired \/ exec.cancel \/ (r.rows = 0 /\ ~r.sendColumns)
  THEN SendTerminal(r, TRUE, IF after = "done" THEN "stream" ELSE "settle", FALSE)
  ELSE Flush(r, after) /\ UNCHANGED ended

Append(r) ==
  LET taken == [r EXCEPT !.rows = @ + 1, !.received = @ + 1] IN
  IF taken.received >= taken.limit
  THEN Flush(taken, "tranche")
  ELSE exec' = [exec EXCEPT !.cur = taken, !.phase = "stream", !.after = "none", !.sent = 0]

Current == IF exec.cur = NoResult THEN NewResult ELSE exec.cur

\* A row arrives: it is passed over, refused for its size or the retained
\* limit, kept, or waits for the batch before it.
ReceiveRow ==
  LET r == Current IN
  /\ Streaming /\ exec.kind = "select" /\ server.up
  /\ \/ r.skip /\ exec' = [exec EXCEPT !.cur = [r EXCEPT !.missed = TRUE]]
     \/ /\ ~r.skip    \* too wide, or over a limit
        /\ exec' = [exec EXCEPT !.cur = [r EXCEPT !.capped = TRUE, !.skip = TRUE,
                                                  !.missed = TRUE]]
     \/ ~r.skip /\ r.received < RetainedRows /\ r.rows < BatchRows /\ Append(r)
     \/ ~r.skip /\ r.received < RetainedRows /\ r.rows > 0 /\ Flush(r, "row")
  /\ UNCHANGED <<server, kills, ended>> /\ StreamKeeps

\* A row whose shape or values cannot be read ends the statement.
UnreadableRow ==
  /\ Streaming /\ exec.kind = "select" /\ ~Current.skip
  /\ exec' = [exec EXCEPT !.failed = TRUE, !.error = TRUE, !.phase = "settle",
                          !.cur = [Current EXCEPT !.missed = TRUE]]
  /\ UNCHANGED <<server, kills, ended>> /\ StreamKeeps

\* One result set is complete and the statement may have more.
ResultDone ==
  /\ Streaming /\ exec.kind = "select" /\ exec.cur # NoResult
  /\ finish_result(exec.cur, "done")
  /\ UNCHANGED <<server, kills>> /\ StreamKeeps

\* The page answers a batch.
Acknowledged ==
  LET r == [exec.cur EXCEPT !.sequence = @ + 1] IN
  /\ exec.phase = "ack" /\ ~exec.cancel
  /\ CASE exec.after = "row" -> Append(r) /\ UNCHANGED ended
       [] exec.after = "tranche" ->
            exec' = [exec EXCEPT !.cur = r, !.phase = "paused", !.after = "none", !.sent = 0]
            /\ UNCHANGED ended
       [] OTHER -> SendTerminal(r, TRUE, IF exec.after = "done" THEN "stream" ELSE "settle", FALSE)
  /\ UNCHANGED <<server, kills>> /\ StreamKeeps

\* A batch is refused: discarded by the page, or given up because the
\* execution is cancelled, by request_cancel, a control message, or the end of
\* its channel.
BatchRefused(canceled) ==
  LET r == [exec.cur EXCEPT !.missed = @ \/ exec.sent > 0 \/ exec.after = "row"] IN
  /\ exec.phase = "ack"
  /\ exec.cancel => canceled
  /\ IF exec.after \in {"row", "tranche"}
     THEN /\ exec' = [exec EXCEPT !.cur = [r EXCEPT !.discarded = TRUE, !.skip = TRUE],
                                  !.phase = "stream", !.after = "none", !.sent = 0,
                                  !.cancel = canceled, !.asked = @ \/ canceled]
          /\ UNCHANGED ended
     ELSE SendTerminal(r, FALSE, "settle", canceled)
  /\ UNCHANGED <<server, kills>> /\ StreamKeeps

\* wait_for_more: the page asks for more, drops the rest, does not answer in
\* the cursor's lifetime, or cancels.
PauseEnds(decision) ==
  /\ exec.phase = "paused"
  /\ exec.cancel => decision = "cancel"
  /\ exec' = CASE decision = "continue" -> [exec EXCEPT !.phase = "stream",
                                              !.cur.limit = @ + TrancheRows]
               [] decision = "discard"  -> [exec EXCEPT !.phase = "stream",
                                              !.cur.discarded = TRUE, !.cur.skip = TRUE]
               [] decision = "expire"   -> [exec EXCEPT !.phase = "stream",
                                              !.cur.expired = TRUE, !.cur.skip = TRUE]
               [] OTHER -> [exec EXCEPT !.phase = "settle", !.cancel = TRUE, !.asked = TRUE]
  /\ UNCHANGED <<server, kills, ended>> /\ StreamKeeps

\* A statement without rows is run by the server, or the rows of one end.
\* A query stopped by the server cancels the execution; any other error is
\* the statement's own, unless the execution is cancelled already.
StatementRuns(answer) ==
  /\ Streaming
  /\ Ask(IF exec.kind = "select" THEN "read" ELSE exec.kind, TRUE, answer)
  /\ exec' = [exec EXCEPT
       !.phase = "settle",
       !.confirmed = @ \/ answer = "interrupted",
       !.cancel = @ \/ answer = "interrupted",
       !.failed = answer \in {"refused", "lost"} /\ ~exec.cancel,
       !.error = answer \in {"refused", "lost"} /\ ~exec.cancel]
  /\ UNCHANGED ended /\ StreamKeeps

\* After the stream, whatever result is left is finished.
LastResult ==
  /\ exec.op = "execute" /\ exec.phase = "settle" /\ exec.cur # NoResult
  /\ finish_result(exec.cur, "end")
  /\ UNCHANGED <<server, kills>> /\ StreamKeeps

ResultStreamStep ==
  \/ ReceiveRow \/ UnreadableRow \/ ResultDone \/ Acknowledged \/ LastResult
  \/ \E canceled \in BOOLEAN : BatchRefused(canceled)
  \/ \E d \in {"continue", "discard", "expire", "cancel"} : PauseEnds(d)
  \/ \E answer \in Replies : StatementRuns(answer)
=============================================================================
