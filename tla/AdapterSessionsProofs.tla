------------------------- MODULE AdapterSessionsProofs -------------------------
(***************************************************************************)
(* What AdapterSessions states about one native session, proved for every  *)
(* set of engines, every set of scripts and every limit: a completed       *)
(* result is whole, a staged batch is atomic, a manual write waits, and a  *)
(* clean session hides nothing.                                            *)
(*                                                                         *)
(* Each adapter is an instance, and its steps are copies of the shared     *)
(* ones.  The first part shows that the copies agree with ResultStream;    *)
(* what is proved of a shared step is then proved once.                    *)
(***************************************************************************)
EXTENDS AdapterSessions, TLAPS

(***************************************************************************)
(* The shape of the state.                                                 *)
(***************************************************************************)
ResultShape ==
  [sequence : Nat, sendColumns : BOOLEAN, rows : Nat, received : Nat, limit : Nat,
   capped : BOOLEAN, discarded : BOOLEAN, expired : BOOLEAN, skip : BOOLEAN,
   missed : BOOLEAN]

ExecShape ==
  [op : {"none", "execute", "explain"},
   phase : {"idle", "queued", "statement", "begin", "stream", "ack", "paused",
            "settle", "reconcile", "finish", "report"},
   kind : {"none"} \cup script,
   after : {"none", "row", "tranche", "done", "end"}, sent : Nat,
   cancel : BOOLEAN, asked : BOOLEAN, confirmed : BOOLEAN, failed : BOOLEAN,
   error : BOOLEAN, cur : {NoResult} \cup ResultShape]

SessionShape == [automatic : BOOLEAN, certainty : Certainty, readOnly : BOOLEAN]

TableCalls == {"describe", "browse", "apply"}
QueryCalls == {"automatic", "manual", "commit", "rollback"}
TableSteps == {"waiting", "describe", "page", "begin", "m1", "m2", "commit", "undo", "last"}
QuerySteps == {"waiting", "first", "act", "inspect again", "locking"}

TableCommands == [op : TableCalls, step : TableSteps]
QueryCommands == [op : QueryCalls, step : QuerySteps]
Commands == IF TableTab THEN TableCommands ELSE QueryCommands

\* What a server of each engine may be.
Good(s) ==
  /\ s \in ServerType
  /\ s.tx = "none" => s.dirty = {}
  /\ s.tx = "aborted" => engine = "postgres"
  /\ ~s.autocommit => engine \in MySqlFamily

(***************************************************************************)
(* The stream.  What was passed over is owed to a flag of the result, or   *)
(* to the error of its statement, and an error is the end of a statement.  *)
(***************************************************************************)
Excused(r, error) ==
  /\ r \in ResultShape
  /\ r.missed => r.capped \/ r.discarded \/ r.expired \/ error
  /\ r.skip => r.capped \/ r.discarded \/ r.expired

StreamInv ==
  /\ exec.cur = NoResult \/ Excused(exec.cur, exec.error)
  /\ exec.phase \in {"ack", "paused"} => Excused(exec.cur, exec.error)
  /\ exec.error => \/ exec.phase \in {"settle", "report"}
                   \/ exec.phase = "ack" /\ exec.after = "end"

(***************************************************************************)
(* The lock.  One call at a time has the connection of a MySQL session.    *)
(***************************************************************************)
LockInv ==
  /\ exec.phase \notin {"idle", "queued", "report"} => exec.op = "execute"
  /\ engine \in MySqlFamily /\ command.step \notin {"idle", "waiting"}
     => ~tail /\ (exec.phase \in {"idle", "queued"} \/ exec.op = "explain")
  /\ engine = "sqlite" /\ ~TableTab => command.step \in {"idle", "waiting"}

\* A mode that is shown as manual is the server's.
ManualInv ==
  (engine \in MySqlFamily /\ ~session.automatic /\ "autocommit_on" \notin script)
  => ~server.autocommit

(***************************************************************************)
(* The calls of a table tab, step by step.                                 *)
(***************************************************************************)
Applying(steps) == command.op = "apply" /\ command.step \in steps

TableInv ==
  /\ exec = NoExec /\ tail = FALSE /\ slot = "none" /\ kills = {}
  /\ server.autocommit /\ "user" \notin server.dirty
  /\ session.certainty = "clean" /\ ~Applying({"m1", "m2", "commit", "undo"})
     => server.tx = "none"
  /\ Applying({"waiting", "begin"}) => session.certainty = "clean"
  /\ Applying({"m1"}) => server.tx = "open" /\ server.dirty = {}
  /\ Applying({"m2"}) => server.tx = "open" /\ server.dirty = {"m1"}
  /\ Applying({"commit"}) => server.tx = "open" /\ server.dirty = {"m1", "m2"}
  /\ Applying({"last"}) => session.certainty = "unknown"
  /\ command # NoCommand => reply = "none"
  /\ command # NoCommand /\ ~Applying({"last"}) => server.saved = {}
  /\ server.saved \in {{}, {"m1", "m2"}}
  /\ reply = "applied" => server.saved = {"m1", "m2"}
  /\ reply = "rolled back" => server.saved = {} /\ server.dirty = {}
  /\ reply = "unconfirmed" => session.certainty = "unknown"

BatchInv == IF TableTab THEN TableInv ELSE reply \in {"none", "unanswered"}

(***************************************************************************)
(* What a query tab knows of its transaction.                              *)
(***************************************************************************)
\* Where the server is asked: at rest, and wherever a statement has been
\* accounted for.
AskedInv ==
  ( /\ engine = "mysql" /\ ~TableTab
    /\ command = NoCommand /\ reply # "unanswered"
    /\ exec.op = "execute" => exec.phase \in {"queued", "statement", "report"}
    /\ server.up /\ session.certainty = "clean" )
  => "user" \notin server.dirty

\* On SQLite, without handwritten control: a clean session has no
\* transaction, and neither has one whose commit or rollback completed.
LedgerInv ==
  (engine = "sqlite" /\ ~TableTab /\ script \cap Handwritten = {})
  => /\ session.certainty = "clean" => server.tx = "none"
     /\ ( /\ exec.phase = "settle" /\ ~exec.error /\ ~exec.cancel
          /\ exec.kind \in {"commit", "rollback"} )
        => server.tx = "none"

(***************************************************************************)
(* The copies.                                                             *)
(***************************************************************************)
\* What the MySQL family shares is what ResultStream says.
LEMMA MySqlShares ==
  /\ \A k, f, r : M!Ask(k, f, r) <=> Ask(k, f, r)
  /\ M!Acquire <=> Acquire
  /\ M!PlanEnds <=> PlanEnds
  /\ \A p : M!Report(p) <=> Report(p)
  /\ \A k : M!RefuseStatement(k) <=> RefuseStatement(k)
  /\ M!ResultStreamStep <=> ResultStreamStep
  /\ M!ClearActive <=> ClearActive
  /\ M!request_cancel <=> request_cancel
  /\ M!ControlFails <=> ControlFails
  /\ M!ControlConfirms <=> ControlConfirms
  /\ M!LocksConnection <=> LocksConnection
  /\ M!ExplainReports <=> ExplainReports
  /\ \A op : M!Install(op) <=> Install(op)
  /\ \A op : M!AskCommand(op) <=> AskCommand(op)
  /\ \A a : M!load_object_detail(a) <=> load_object_detail(a)
  /\ \A a : M!browse_table(a) <=> browse_table(a)
  /\ \A a : M!ping_if_idle(a) <=> ping_if_idle(a)
  /\ \A a : M!ExplainAsks(a) <=> ExplainAsks(a)
  /\ \A a : M!apply_table_mutations(a) <=> apply_table_mutations(a)
  /\ \A a : M!rollback_mutations(a) <=> rollback_mutations(a)
BY DEF M!Ask, Ask, M!Effect, Effect, M!Refusals, Refusals, M!Dropped, Dropped,
    M!PostgresEffect, PostgresEffect, M!SqliteEffect, SqliteEffect, M!MySqlEffect,
    MySqlEffect, M!Ended, Ended, M!MySqlFamily, MySqlFamily, M!Opened, Opened,
    M!BackToSavepoint, BackToSavepoint, M!Written, Written, M!Tags, Tags, M!Acquire,
    Acquire, M!Runs, Runs, M!LockFree, LockFree, M!serverVars, serverVars,
    M!PlanEnds, PlanEnds, M!Report, Report, M!Terminate, Terminate, M!Outlived,
    Outlived, M!NoExec, NoExec, M!RefuseStatement, RefuseStatement, M!MayRun,
    MayRun, M!ResultStreamStep, ResultStreamStep, M!ReceiveRow, ReceiveRow,
    M!UnreadableRow, UnreadableRow, M!ResultDone, ResultDone, M!Acknowledged,
    Acknowledged, M!LastResult, LastResult, M!BatchRefused, BatchRefused,
    M!PauseEnds, PauseEnds, M!Replies, Replies, M!StatementRuns, StatementRuns,
    M!Current, Current, M!Streaming, Streaming, M!Append, Append, M!Flush, Flush,
    M!StreamKeeps, StreamKeeps, M!finish_result, finish_result, M!SendTerminal,
    SendTerminal, M!NewResult, NewResult, M!finish_state, finish_state,
    M!ClearActive, ClearActive, M!request_cancel, request_cancel, M!ControlFails,
    ControlFails, M!ControlConfirms, ControlConfirms, M!LocksConnection,
    LocksConnection, M!Go, Go, M!ExecKeeps, ExecKeeps, M!ExplainReports,
    ExplainReports, M!Install, Install, M!TableTab, TableTab, M!WriteGate,
    WriteGate, M!NoTerminal, NoTerminal, M!AskCommand, AskCommand, M!NoCommand,
    NoCommand, M!Operations, Operations, M!load_object_detail, load_object_detail,
    M!CallKeeps, CallKeeps, M!browse_table, browse_table, M!CommandIs, CommandIs,
    M!ping_if_idle, ping_if_idle, M!ExplainAsks, ExplainAsks,
    M!apply_table_mutations, apply_table_mutations, M!StartBatch, StartBatch,
    M!CommitBatch, CommitBatch, M!LastRollback, LastRollback, M!ChangeRow,
    ChangeRow, M!Certain, Certain, M!rollback_mutations, rollback_mutations

\* So is what PostgreSQL shares.
LEMMA PostgresShares ==
  /\ \A k, f, r : P!Ask(k, f, r) <=> Ask(k, f, r)
  /\ P!Acquire <=> Acquire
  /\ P!PlanEnds <=> PlanEnds
  /\ \A p : P!Report(p) <=> Report(p)
  /\ \A k : P!RefuseStatement(k) <=> RefuseStatement(k)
  /\ P!ReceiveRow <=> ReceiveRow
  /\ P!UnreadableRow <=> UnreadableRow
  /\ P!ResultDone <=> ResultDone
  /\ \A a : P!StatementRuns(a) <=> StatementRuns(a)
  /\ P!LastResult <=> LastResult
  /\ P!Acknowledged <=> Acknowledged
  /\ \A c : P!BatchRefused(c) <=> BatchRefused(c)
  /\ \A d : P!PauseEnds(d) <=> PauseEnds(d)
  /\ P!ClearActive <=> ClearActive
  /\ P!request_cancel <=> request_cancel
  /\ P!ControlFails <=> ControlFails
  /\ P!ControlConfirms <=> ControlConfirms
  /\ P!LocksConnection <=> LocksConnection
  /\ P!ExplainReports <=> ExplainReports
  /\ \A op : P!Install(op) <=> Install(op)
  /\ \A op : P!AskCommand(op) <=> AskCommand(op)
  /\ \A a : P!load_object_detail(a) <=> load_object_detail(a)
  /\ \A a : P!browse_table(a) <=> browse_table(a)
  /\ \A a : P!ping_if_idle(a) <=> ping_if_idle(a)
  /\ \A a : P!ExplainAsks(a) <=> ExplainAsks(a)
  /\ \A a : P!apply_table_mutations(a) <=> apply_table_mutations(a)
  /\ \A a : P!rollback_mutations(a) <=> rollback_mutations(a)
BY DEF P!Ask, Ask, P!Effect, Effect, P!Refusals, Refusals, P!Dropped, Dropped,
    P!PostgresEffect, PostgresEffect, P!SqliteEffect, SqliteEffect, P!MySqlEffect,
    MySqlEffect, P!Ended, Ended, P!MySqlFamily, MySqlFamily, P!Opened, Opened,
    P!BackToSavepoint, BackToSavepoint, P!Written, Written, P!Tags, Tags, P!Acquire,
    Acquire, P!Runs, Runs, P!LockFree, LockFree, P!serverVars, serverVars,
    P!PlanEnds, PlanEnds, P!Report, Report, P!Terminate, Terminate, P!Outlived,
    Outlived, P!NoExec, NoExec, P!RefuseStatement, RefuseStatement, P!MayRun,
    MayRun, P!ReceiveRow, ReceiveRow, P!Current, Current, P!Streaming, Streaming,
    P!Append, Append, P!Flush, Flush, P!StreamKeeps, StreamKeeps, P!NewResult,
    NewResult, P!UnreadableRow, UnreadableRow, P!ResultDone, ResultDone,
    P!finish_result, finish_result, P!SendTerminal, SendTerminal, P!finish_state,
    finish_state, P!StatementRuns, StatementRuns, P!LastResult, LastResult,
    P!Acknowledged, Acknowledged, P!BatchRefused, BatchRefused, P!PauseEnds,
    PauseEnds, P!ClearActive, ClearActive, P!request_cancel, request_cancel,
    P!ControlFails, ControlFails, P!ControlConfirms, ControlConfirms,
    P!LocksConnection, LocksConnection, P!Go, Go, P!ExecKeeps, ExecKeeps,
    P!ExplainReports, ExplainReports, P!Install, Install, P!TableTab, TableTab,
    P!WriteGate, WriteGate, P!NoTerminal, NoTerminal, P!AskCommand, AskCommand,
    P!NoCommand, NoCommand, P!Operations, Operations, P!load_object_detail,
    load_object_detail, P!CallKeeps, CallKeeps, P!browse_table, browse_table,
    P!CommandIs, CommandIs, P!ping_if_idle, ping_if_idle, P!ExplainAsks,
    ExplainAsks, P!apply_table_mutations, apply_table_mutations, P!StartBatch,
    StartBatch, P!CommitBatch, CommitBatch, P!LastRollback, LastRollback,
    P!ChangeRow, ChangeRow, P!Certain, Certain, P!rollback_mutations,
    rollback_mutations

\* And what SQLite shares.
LEMMA SqliteShares ==
  /\ \A k, f, r : S!Ask(k, f, r) <=> Ask(k, f, r)
  /\ S!Acquire <=> Acquire
  /\ S!PlanEnds <=> PlanEnds
  /\ \A p : S!Report(p) <=> Report(p)
  /\ S!ClearActive <=> ClearActive
  /\ S!LocksConnection <=> LocksConnection
  /\ S!ExplainReports <=> ExplainReports
  /\ \A op : S!Install(op) <=> Install(op)
  /\ \A op : S!AskCommand(op) <=> AskCommand(op)
  /\ \A a : S!load_object_detail(a) <=> load_object_detail(a)
  /\ \A a : S!browse_table(a) <=> browse_table(a)
  /\ \A a : S!ExplainAsks(a) <=> ExplainAsks(a)
  /\ \A a : S!apply_table_mutations(a) <=> apply_table_mutations(a)
  /\ \A a : S!rollback_mutations(a) <=> rollback_mutations(a)
BY DEF S!Ask, Ask, S!Effect, Effect, S!Refusals, Refusals, S!Dropped, Dropped,
    S!PostgresEffect, PostgresEffect, S!SqliteEffect, SqliteEffect, S!MySqlEffect,
    MySqlEffect, S!Ended, Ended, S!MySqlFamily, MySqlFamily, S!Opened, Opened,
    S!BackToSavepoint, BackToSavepoint, S!Written, Written, S!Tags, Tags, S!Acquire,
    Acquire, S!Runs, Runs, S!LockFree, LockFree, S!serverVars, serverVars,
    S!PlanEnds, PlanEnds, S!Report, Report, S!Terminate, Terminate, S!Outlived,
    Outlived, S!NoExec, NoExec, S!ClearActive, ClearActive, S!LocksConnection,
    LocksConnection, S!Go, Go, S!ExecKeeps, ExecKeeps, S!ExplainReports,
    ExplainReports, S!Install, Install, S!TableTab, TableTab, S!WriteGate,
    WriteGate, S!NoTerminal, NoTerminal, S!AskCommand, AskCommand, S!NoCommand,
    NoCommand, S!Operations, Operations, S!load_object_detail, load_object_detail,
    S!CallKeeps, CallKeeps, S!browse_table, browse_table, S!CommandIs, CommandIs,
    S!ExplainAsks, ExplainAsks, S!apply_table_mutations, apply_table_mutations,
    S!StartBatch, StartBatch, S!CommitBatch, CommitBatch, S!LastRollback,
    LastRollback, S!ChangeRow, ChangeRow, S!Certain, Certain, S!rollback_mutations,
    rollback_mutations

\* The steps every adapter may take besides those of a stream.
SharedStep ==
  \/ Acquire \/ PlanEnds \/ ClearActive \/ request_cancel \/ ControlFails
  \/ ControlConfirms \/ ExplainReports
  \/ \E kind \in script : RefuseStatement(kind)
  \/ \E op \in {"execute", "explain"} : Install(op)
  \/ \E op \in Operations : AskCommand(op)
  \/ \E answer \in Replies :
       \/ load_object_detail(answer) \/ browse_table(answer) \/ ping_if_idle(answer)
       \/ ExplainAsks(answer) \/ apply_table_mutations(answer)
       \/ rollback_mutations(answer)

MySqlCall(answer) == M!set_automatic(answer) \/ M!commit(answer) \/ M!rollback(answer)

MySqlStep ==
  \/ ResultStreamStep \/ LocksConnection \/ Report("report") \/ M!StatementSettles
  \/ \E kind \in script : M!NextStatement(kind)
  \/ \E answer \in Replies :
       \/ M!transaction_after_error(answer) \/ M!ReconcileStatement(answer)
       \/ M!FinishExecution(answer) \/ MySqlCall(answer)

PostgresStep ==
  \/ ResultStreamStep
  \/ LocksConnection /\ TableTab
  \/ Report("report") \/ Report("finish") \/ P!StatementSettles
  \/ P!NoTransaction \/ P!WantsConnection \/ P!set_automatic
  \/ \E kind \in script : P!NextStatement(kind)
  \/ \E answer \in Replies : P!LazyBegin(answer) \/ P!commit(answer) \/ P!rollback(answer)

SqliteStep ==
  \/ LocksConnection /\ TableTab
  \/ Report("report") \/ Report("finish") \/ S!StatementSettles
  \/ S!request_cancel_flag \/ S!set_automatic
  \/ \E kind \in script : S!NextStatement(kind)
  \/ \E answer \in Replies :
       S!LazyBegin(answer) \/ S!RunStatement(answer) \/ S!commit(answer) \/ S!rollback(answer)

\* Every step is a shared one or one of the engine's own.
LEMMA Splits ==
  Next => \/ engine \in MySqlFamily /\ (SharedStep \/ MySqlStep)
          \/ engine = "postgres" /\ (SharedStep \/ PostgresStep)
          \/ engine = "sqlite" /\ (SharedStep \/ SqliteStep)
<1>1. M!Next => engine \in MySqlFamily /\ (SharedStep \/ MySqlStep)
  BY MySqlShares
  DEF M!Next, M!Execute, M!MySqlFamily, MySqlFamily, M!Operations, Operations,
      M!TableTab, TableTab, M!Replies, Replies, SharedStep, MySqlStep, MySqlCall
<1>2. P!Next => engine = "postgres" /\ (SharedStep \/ PostgresStep)
  <2>1. P!StreamsRows \/ P!FinishesResult \/ P!BatchAnswered \/ P!PauseAnswered
        => ResultStreamStep
    BY PostgresShares
    DEF P!Replies, Replies, P!StreamsRows, P!FinishesResult, P!BatchAnswered,
        P!PauseAnswered, ResultStreamStep
  <2>2. P!Execute => SharedStep \/ PostgresStep
    BY PostgresShares DEF P!Execute, P!Replies, Replies, SharedStep, PostgresStep
  <2>3. P!StartsCancel \/ P!AppliesBatch \/ P!RollsBatchBack \/ P!Describes
        \/ P!BrowsesTable \/ P!Pings \/ P!Explains => SharedStep
    BY PostgresShares
    DEF P!Replies, Replies, P!StartsCancel, P!AppliesBatch, P!RollsBatchBack,
        P!Describes, P!BrowsesTable, P!Pings, P!Explains, SharedStep
  <2>4. (\E op \in {"execute", "explain"} : P!Install(op)) => SharedStep
    BY PostgresShares DEF SharedStep
  <2>5. (\E op \in P!Operations : P!AskCommand(op)) => SharedStep
    BY PostgresShares DEF P!Operations, Operations, P!TableTab, TableTab, SharedStep
  <2>6. P!LocksConnection /\ P!TableTab => PostgresStep
    BY PostgresShares DEF P!TableTab, TableTab, PostgresStep
  <2>7. (\E answer \in P!Replies : P!commit(answer) \/ P!rollback(answer)) => PostgresStep
    BY DEF P!Replies, Replies, PostgresStep
  <2>8. P!NoTransaction \/ P!WantsConnection \/ P!set_automatic \/ ResultStreamStep
        => PostgresStep
    BY DEF PostgresStep
  <2>9. P!ClearActive => SharedStep
    BY PostgresShares DEF SharedStep
  <2>. QED  BY <2>1, <2>2, <2>3, <2>4, <2>5, <2>6, <2>7, <2>8, <2>9 DEF P!Next
<1>3. S!Next => engine = "sqlite" /\ (SharedStep \/ SqliteStep)
  BY SqliteShares
  DEF S!Next, S!Execute, S!Operations, Operations, S!TableTab, TableTab, S!Replies,
      Replies, S!AppliesBatch, S!RollsBatchBack, S!Describes, S!BrowsesTable,
      S!Explains, SharedStep, SqliteStep
<1>. QED  BY <1>1, <1>2, <1>3 DEF Next

(***************************************************************************)
(* The server.                                                             *)
(***************************************************************************)
Known == engine \in {"mysql", "mysql57", "postgres", "sqlite"}

\* A transaction that ends leaves a server of its engine's.
LEMMA EndedGood == ASSUME Good(server), NEW kept \in SUBSET Tags PROVE Good(Ended(kept))
BY DEF Good, Ended, ServerType
\* So does one that opens.
LEMMA OpenedGood == ASSUME Good(server) PROVE Good(Opened)
BY DEF Good, Opened, ServerType
\* So does a write.
LEMMA WrittenGood == ASSUME Good(server), NEW tag \in Tags PROVE Good(Written(tag))
BY DEF Good, Written, ServerType
\* So does going back to a savepoint.
LEMMA BackGood == ASSUME Good(server), NEW s \in BackToSavepoint PROVE Good(s)
<1>1. server.dirty \ {"user"} \in SUBSET Tags  BY DEF Good, ServerType
<1>. QED BY <1>1, OpenedGood DEF BackToSavepoint, Good, Opened, ServerType
\* Whatever a statement does, it leaves a server of its engine's.
LEMMA EffectGood ==
  ASSUME Known, Good(server), NEW kind, NEW s \in Effect(kind)
  PROVE  Good(s)
<1>1. {} \in SUBSET Tags /\ server.dirty \in SUBSET Tags /\ "user" \in Tags
  BY DEF Good, ServerType, Tags
<1>2. Good(Ended({})) /\ Good(Ended(server.dirty)) /\ Good(Opened) /\ Good(Written("user"))
     /\ \A t \in Tags : Good(Written(t))
    BY <1>1, EndedGood, OpenedGood, WrittenGood
<1>3. \A x \in BackToSavepoint : Good(x)  BY BackGood
<1>4. CASE engine = "postgres"
  BY <1>4, <1>2, <1>3 DEF Effect, PostgresEffect
<1>5. CASE engine = "sqlite"
  BY <1>5, <1>2, <1>3 DEF Effect, SqliteEffect
<1>6. CASE engine \in MySqlFamily
  <2>1. Good([Ended(server.dirty) EXCEPT !.tx = "open"])
    BY <1>1 DEF Good, Ended, ServerType
  <2>2. Good([Ended(server.dirty) EXCEPT !.autocommit = TRUE])
    BY <1>1 DEF Good, Ended, ServerType
  <2>3. Good([server EXCEPT !.autocommit = FALSE])
    BY <1>6 DEF Good, ServerType
  <2>. QED  BY <1>2, <1>3, <1>6, <2>1, <2>2, <2>3 DEF Effect, MySqlEffect, MySqlFamily
<1>. QED  BY <1>4, <1>5, <1>6 DEF Known, MySqlFamily

\* A refusal saves nothing, undoes all or nothing, and keeps the mode.
LEMMA RefusalsGood ==
  ASSUME Known, Good(server), NEW s \in Refusals
  PROVE  /\ Good(s)
         /\ s.saved = server.saved /\ s.autocommit = server.autocommit
         /\ s.up = server.up
         /\ s.dirty = server.dirty \/ s.dirty = {}
         /\ server.tx = "none" /\ server.autocommit => s.tx = "none"
<1>1. {} \in SUBSET Tags BY DEF Tags
<1>2. Good(Ended({})) /\ Good(Opened) BY <1>1, EndedGood, OpenedGood
<1>3. CASE engine = "postgres" /\ server.tx = "open"
  <2>1. s = [server EXCEPT !.tx = "aborted"]  BY <1>3 DEF Refusals, MySqlFamily
  <2>2. Good(s)  BY <1>3, <2>1 DEF Good, ServerType
  <2>3. /\ s.saved = server.saved /\ s.autocommit = server.autocommit
        /\ s.up = server.up /\ s.dirty = server.dirty
    BY <2>1 DEF Good, ServerType
  <2>. QED  BY <1>3, <2>2, <2>3
<1>4. CASE ~ (engine = "postgres" /\ server.tx = "open")
  <2>1. s \in {server, Ended({}), Opened}  BY <1>4 DEF Refusals
  <2>2. s = Opened => ~server.autocommit \/ s = server
    BY <1>4, <1>2
    DEF Refusals, Good, Opened, Ended, ServerType
  <2>3. Good(s) BY <1>2, <2>1
  <2>4. server.saved \cup {} = server.saved OBVIOUS
  <2>. QED  BY <2>1, <2>2, <2>3, <2>4 DEF Good, Opened, Ended, ServerType
<1>. QED BY <1>3, <1>4

\* Only a statement of its own changes the session's mode.
LEMMA EffectModes ==
  ASSUME Known, Good(server), NEW kind, NEW s \in Effect(kind)
  PROVE  /\ kind \notin {"autocommit_on", "autocommit_off"} => s.autocommit = server.autocommit
         /\ kind = "autocommit_off" => ~s.autocommit \/ engine \notin MySqlFamily
         /\ kind # "autocommit_on" /\ ~server.autocommit => ~s.autocommit
<1>1. CASE engine = "postgres"
  BY <1>1 DEF Effect, PostgresEffect, Good, ServerType, Ended, Opened, Written,
              BackToSavepoint, Tags, MySqlFamily
<1>2. CASE engine = "sqlite"
  BY <1>2 DEF Effect, SqliteEffect, Good, ServerType, Ended, Opened, Written,
              BackToSavepoint, Tags, MySqlFamily
<1>3. CASE engine \in MySqlFamily
  BY <1>3 DEF Effect, MySqlEffect, Good, ServerType, Ended, Opened, Written,
              BackToSavepoint, Tags, MySqlFamily
<1>. QED  BY <1>1, <1>2, <1>3 DEF Known, MySqlFamily

\* A question changes nothing.
LEMMA EffectAsks ==
  ASSUME Known, NEW kind \in {"show", "ping", "inspect"}, NEW s \in Effect(kind)
  PROVE  s = server
BY DEF Effect, PostgresEffect, SqliteEffect, MySqlEffect, Known, Tags, MySqlFamily

\* Only the editor's statements write what is the user's.
LEMMA EffectUser ==
  ASSUME Known, Good(server), "user" \notin server.dirty,
         NEW kind, kind \notin {"user", "write", "ddl", "unclassified"}, NEW s \in Effect(kind)
  PROVE  "user" \notin s.dirty
<1>1. \A kept : "user" \notin Ended(kept).dirty  BY DEF Ended, Good, ServerType
<1>2. "user" \notin Opened.dirty  BY DEF Opened, Good, ServerType
<1>3. \A t \in Tags : t # "user" => "user" \notin Written(t).dirty
  BY DEF Written, Good, ServerType
<1>4. \A x \in BackToSavepoint : "user" \notin x.dirty
  BY DEF BackToSavepoint, Opened, Good, ServerType
<1>5. CASE engine = "postgres"
  BY <1>1, <1>2, <1>3, <1>4, <1>5 DEF Effect, PostgresEffect
<1>6. CASE engine = "sqlite"
  BY <1>1, <1>2, <1>3, <1>4, <1>6 DEF Effect, SqliteEffect
<1>7. CASE engine \in MySqlFamily
  <2>1. "user" \notin [Ended(server.dirty) EXCEPT !.tx = "open"].dirty
    BY DEF Ended, Good, ServerType
  <2>2. "user" \notin [Ended(server.dirty) EXCEPT !.autocommit = TRUE].dirty
    BY DEF Ended, Good, ServerType
  <2>3. "user" \notin [server EXCEPT !.autocommit = FALSE].dirty
    BY DEF Good, ServerType
  <2>. QED
    BY <1>1, <1>2, <1>3, <1>4, <1>7, <2>1, <2>2, <2>3
    DEF Effect, MySqlEffect, MySqlFamily
<1>. QED  BY <1>5, <1>6, <1>7 DEF Known, MySqlFamily

\* What a round trip leaves: the statement's effect, a refusal, or a lost connection.
LEMMA AskMoves ==
  ASSUME Known, Good(server), NEW kind, NEW f, NEW a, Ask(kind, f, a)
  PROVE  /\ a = "ok" => server' \in Effect(kind) /\ server.up
         /\ \/ server' \in Effect(kind)
            \/ server' \in Refusals
            \/ /\ a = "lost" /\ engine # "sqlite"
               /\ server' = Dropped
            \/ /\ a = "lost" /\ engine # "sqlite"
               /\ \E s \in Effect(kind) : server' = [Dropped EXCEPT !.saved = s.saved]
BY DEF Ask

\* The same, as the calls use it.
LEMMA AskKeeps ==
  ASSUME Known, Good(server), engine' = engine, NEW kind, NEW f, NEW a, Ask(kind, f, a)
  PROVE  /\ Good(server)'
         /\ kind \notin {"autocommit_on", "autocommit_off"} \/ a # "ok"
            => server'.autocommit = server.autocommit
         /\ kind # "autocommit_on" /\ ~server.autocommit => ~server'.autocommit
         /\ kind \in {"show", "ping", "inspect"}
            => /\ server'.saved = server.saved
               /\ "user" \notin server.dirty => "user" \notin server'.dirty
               /\ server.tx = "none" /\ server.autocommit => server'.tx = "none"
         /\ kind \in {"show", "ping", "inspect"} /\ a = "ok" => server' = server
         /\ kind \notin {"user", "write", "ddl", "unclassified"}
            => ("user" \notin server.dirty => "user" \notin server'.dirty)
<1>1. CASE server' \in Effect(kind) /\ a = "ok"
  BY <1>1, EffectGood, EffectModes, EffectAsks, EffectUser DEF Good
<1>2. CASE server' \in Refusals /\ a # "ok"
  BY <1>2, RefusalsGood DEF Good
<1>3. CASE server' = Dropped /\ a # "ok"
  BY <1>3 DEF Dropped, Good, ServerType
<1>4. CASE a # "ok" /\ \E s \in Effect(kind) : server' = [Dropped EXCEPT !.saved = s.saved]
  <2>1. PICK s \in Effect(kind) : server' = [Dropped EXCEPT !.saved = s.saved]
    BY <1>4
  <2>2. Good(s) /\ (kind \in {"show", "ping", "inspect"} => s = server)
    BY EffectGood, EffectAsks
  <2>3. s.saved \in SUBSET Tags
    BY <2>2 DEF Good, ServerType
  <2>4. Good(server)'
    BY <2>1, <2>3 DEF Dropped, Good, ServerType
  <2>5. /\ server'.autocommit = server.autocommit /\ server'.tx = "none"
        /\ server'.saved = s.saved /\ server'.dirty = {}
    BY <2>1 DEF Dropped, Good, ServerType
  <2>. QED  BY <1>4, <2>2, <2>4, <2>5
<1>. QED  BY <1>1, <1>2, <1>3, <1>4 DEF Ask

\* What is not the user's stays so.
LEMMA AskUser ==
  ASSUME Known, Good(server), engine' = engine, "user" \notin server.dirty,
         NEW kind, kind \notin {"user", "write", "ddl", "unclassified"}, NEW f, NEW a,
         Ask(kind, f, a)
  PROVE  "user" \notin server'.dirty
BY AskKeeps

(***************************************************************************)
(* What no step changes, and what keeps its shape.                         *)
(***************************************************************************)
\* A session stays the session of its engine and of its tab.
LEMMA Lasting ==
  ASSUME Next
  PROVE  engine' = engine /\ script' = script /\ Known /\ Known'
<1>1. SharedStep => engine' = engine /\ script' = script
  BY DEF SharedStep, Acquire, PlanEnds, ClearActive, request_cancel, ControlFails,
         ControlConfirms, ExplainReports, RefuseStatement, Install, AskCommand,
         load_object_detail, browse_table, ping_if_idle, ExplainAsks,
         apply_table_mutations, StartBatch, ChangeRow, CommitBatch, LastRollback,
         rollback_mutations, CallKeeps, serverVars
<1>2. ResultStreamStep => engine' = engine /\ script' = script
  BY DEF ResultStreamStep, ReceiveRow, UnreadableRow, ResultDone, Acknowledged,
         LastResult, BatchRefused, PauseEnds, StatementRuns, StreamKeeps
<1>3. LocksConnection \/ (\E phase : Report(phase)) => engine' = engine /\ script' = script
  BY DEF LocksConnection, Report, serverVars
<1>4. MySqlStep => engine' = engine /\ script' = script
  BY <1>2, <1>3
  DEF MySqlStep, MySqlCall, M!StatementSettles, M!NextStatement,
      M!transaction_after_error, M!ReconcileStatement, M!FinishExecution,
      M!set_automatic, M!commit, M!rollback, M!InspectFirst, M!SetAutocommit,
      M!EndTransaction, M!InspectAgain, M!CallAnswers, M!serverVars
<1>5. PostgresStep => engine' = engine /\ script' = script
  BY <1>2, <1>3
  DEF PostgresStep, P!StatementSettles, P!NextStatement, P!LazyBegin, P!NoTransaction,
      P!WantsConnection, P!set_automatic, P!commit, P!rollback, P!EndTransaction,
      P!CallKeeps, P!serverVars
<1>6. SqliteStep => engine' = engine /\ script' = script
  BY <1>3
  DEF SqliteStep, S!StatementSettles, S!NextStatement, S!LazyBegin, S!RunStatement,
      S!request_cancel_flag, S!set_automatic, S!commit, S!rollback, S!EndTransaction,
      S!CallKeeps, S!serverVars
<1>. QED  BY Splits, <1>1, <1>4, <1>5, <1>6 DEF Known, MySqlFamily

\* The server moves by a round trip, or the account of what it saved starts
\* over.
LEMMA Trips ==
  ASSUME Next
  PROVE  \/ server' = server
         \/ server' = [server EXCEPT !.saved = {}]
         \/ \E kind, f, a : Ask(kind, f, a)
<1>. DEFINE Trip == \/ server' = server
                    \/ server' = [server EXCEPT !.saved = {}]
                    \/ \E kind, f, a : Ask(kind, f, a)
<1>1. SharedStep => Trip
  BY DEF SharedStep, Acquire, PlanEnds, ClearActive, request_cancel, ControlFails,
         ControlConfirms, ExplainReports, RefuseStatement, Install, AskCommand,
         load_object_detail, browse_table, ping_if_idle, ExplainAsks,
         apply_table_mutations, StartBatch, ChangeRow, CommitBatch, LastRollback,
         rollback_mutations, CallKeeps, serverVars
<1>2. ResultStreamStep => Trip
  BY DEF ResultStreamStep, ReceiveRow, UnreadableRow, ResultDone, Acknowledged,
         LastResult, BatchRefused, PauseEnds, StatementRuns, StreamKeeps
<1>3. LocksConnection \/ (\E phase : Report(phase)) => Trip
  BY DEF LocksConnection, Report, serverVars
<1>4. MySqlStep => Trip
  BY <1>2, <1>3, MySqlShares
  DEF MySqlStep, MySqlCall, M!StatementSettles, M!NextStatement,
      M!transaction_after_error, M!ReconcileStatement, M!FinishExecution,
      M!set_automatic, M!commit, M!rollback, M!InspectFirst, M!SetAutocommit,
      M!EndTransaction, M!InspectAgain, M!CallAnswers, M!serverVars
<1>5. PostgresStep => Trip
  BY <1>2, <1>3, PostgresShares
  DEF PostgresStep, P!StatementSettles, P!NextStatement, P!LazyBegin, P!NoTransaction,
      P!WantsConnection, P!set_automatic, P!commit, P!rollback, P!EndTransaction,
      P!CallKeeps, P!serverVars
<1>6. SqliteStep => Trip
  BY <1>3, SqliteShares
  DEF SqliteStep, S!StatementSettles, S!NextStatement, S!LazyBegin, S!RunStatement,
      S!request_cancel_flag, S!set_automatic, S!commit, S!rollback, S!EndTransaction,
      S!CallKeeps, S!serverVars
<1>. QED  BY Splits, <1>1, <1>4, <1>5, <1>6

\* So it stays one its engine can be in.
LEMMA ServerStays ==
  ASSUME Next, Good(server)
  PROVE  Good(server)'
<1>1. Known /\ engine' = engine  BY Lasting
<1>2. CASE server' = server  BY <1>1, <1>2 DEF Good
<1>3. CASE server' = [server EXCEPT !.saved = {}]
  BY <1>1, <1>3 DEF Good, ServerType
<1>4. CASE \E kind, f, a : Ask(kind, f, a)
  BY <1>1, <1>4, AskKeeps
<1>. QED  BY Trips, <1>2, <1>3, <1>4

(***************************************************************************)
(* The stream.                                                             *)
(***************************************************************************)
ExecInv == exec \in ExecShape /\ StreamInv

Afters == {"row", "tranche", "done", "end"}

\* A result that has not begun owes nothing.
LEMMA FreshExcused == \A e : Excused(NewResult, e)
BY BoundsAssumption DEF Excused, NewResult, ResultShape

\* Nor does the current one owe more than it says.
LEMMA CurrentExcused ==
  ASSUME ExecInv
  PROVE  Excused(Current, exec.error)
BY FreshExcused DEF ExecInv, StreamInv, Current

\* A batch that goes out.
LEMMA FlushKeeps ==
  ASSUME ExecInv, script' = script, NEW r, Excused(r, exec.error),
         NEW after \in Afters, Flush(r, after), ~exec.error \/ after = "end"
  PROVE  ExecInv'
<1>1. r \in ResultShape  BY DEF Excused
<1>. DEFINE q == [r EXCEPT !.rows = 0, !.sendColumns = FALSE]
<1>2. /\ q \in ResultShape
      /\ q.missed = r.missed /\ q.skip = r.skip /\ q.capped = r.capped
      /\ q.discarded = r.discarded /\ q.expired = r.expired
  BY <1>1 DEF ResultShape
<1>3. exec' = [exec EXCEPT !.phase = "ack", !.after = after, !.sent = r.rows, !.cur = q]
  BY DEF Flush
<1>4. r.rows \in Nat  BY <1>1 DEF ResultShape
<1>. HIDE DEF q
<1>5. (exec \in ExecShape)'
  BY <1>2, <1>3, <1>4 DEF ExecInv, ExecShape, Afters
<1>6. /\ exec'.cur = q /\ exec'.phase = "ack" /\ exec'.after = after
      /\ exec'.error = exec.error
  BY <1>3 DEF ExecInv, ExecShape
<1>7. Excused(exec.cur, exec.error)'
  BY <1>2, <1>6 DEF Excused
<1>8. exec'.error => exec'.phase = "ack" /\ exec'.after = "end"
  BY <1>6
<1>. QED  BY <1>5, <1>6, <1>7, <1>8 DEF ExecInv, StreamInv

\* A row that is kept.
LEMMA AppendKeeps ==
  ASSUME ExecInv, script' = script, NEW r, Excused(r, exec.error), ~exec.error, Append(r)
  PROVE  ExecInv'
<1>1. r \in ResultShape  BY DEF Excused
<1>. DEFINE q == [r EXCEPT !.rows = @ + 1, !.received = @ + 1]
<1>2. /\ q \in ResultShape
      /\ q.missed = r.missed /\ q.skip = r.skip /\ q.capped = r.capped
      /\ q.discarded = r.discarded /\ q.expired = r.expired
  <2>1. r.rows + 1 \in Nat /\ r.received + 1 \in Nat
    BY <1>1 DEF ResultShape
  <2>. QED  BY <1>1, <2>1 DEF ResultShape
<1>3. Excused(q, exec.error)  BY <1>2 DEF Excused
<1>4. CASE Flush(q, "tranche")
  BY <1>3, <1>4, FlushKeeps DEF Afters
<1>5. CASE exec' = [exec EXCEPT !.cur = q, !.phase = "stream", !.after = "none", !.sent = 0]
  <2>. HIDE DEF q
  <2>1. (exec \in ExecShape)'
    BY <1>2, <1>5 DEF ExecInv, ExecShape
  <2>2. exec'.cur = q /\ exec'.phase = "stream" /\ exec'.error = exec.error
    BY <1>5 DEF ExecInv, ExecShape
  <2>3. Excused(exec.cur, exec.error)'  BY <1>2, <2>2 DEF Excused
  <2>. QED  BY <2>1, <2>2, <2>3 DEF ExecInv, StreamInv
<1>. QED  BY <1>4, <1>5 DEF Append

\* The terminal of a result ends it.
LEMMA TerminalEnds ==
  ASSUME ExecInv, script' = script, NEW r, NEW delivered,
         NEW next \in {"stream", "settle"}, NEW canceled \in BOOLEAN,
         ~exec.error \/ next = "settle", SendTerminal(r, delivered, next, canceled)
  PROVE  ExecInv'
<1>1. exec' = [exec EXCEPT !.cur = NoResult, !.after = "none", !.phase = next,
                           !.sent = 0, !.cancel = @ \/ canceled]
  BY DEF SendTerminal
<1>2. (exec \in ExecShape)'
  BY <1>1 DEF ExecInv, ExecShape
<1>3. exec'.cur = NoResult /\ exec'.phase = next /\ exec'.error = exec.error
  BY <1>1 DEF ExecInv, ExecShape
<1>. QED  BY <1>2, <1>3 DEF ExecInv, StreamInv

\* And it says so truly.
LEMMA TerminalIsTrue ==
  ASSUME CompletedResultIsWhole, NEW r, Excused(r, exec.error),
         NEW delivered, NEW next, NEW canceled,
         SendTerminal(r, delivered, next, canceled)
  PROVE  CompletedResultIsWhole'
<1>. DEFINE state == IF canceled THEN "cancelled" ELSE finish_state(delivered, r)
<1>1. CASE ended' = ended
  BY <1>1 DEF CompletedResultIsWhole
<1>2. CASE ended' = [state |-> state, whole |-> ~r.missed, capped |-> r.capped,
                     failed |-> exec.error]
  <2>1. state = "completed" => ~r.expired /\ ~r.discarded
    BY DEF finish_state
  <2>2. ~r.missed \/ r.capped \/ r.discarded \/ r.expired \/ exec.error
    BY DEF Excused
  <2>. QED  BY <1>2, <2>1, <2>2 DEF CompletedResultIsWhole
<1>. QED  BY <1>1, <1>2 DEF SendTerminal

\* The end of a result: its last batch, or its terminal.
LEMMA FinishKeeps ==
  ASSUME ExecInv, CompletedResultIsWhole, script' = script, NEW r, Excused(r, exec.error),
         NEW after \in {"done", "end"}, ~exec.error \/ after = "end", finish_result(r, after)
  PROVE  ExecInv' /\ CompletedResultIsWhole'
<1>1. CASE SendTerminal(r, TRUE, IF after = "done" THEN "stream" ELSE "settle", FALSE)
  BY <1>1, TerminalEnds, TerminalIsTrue
<1>2. CASE Flush(r, after) /\ UNCHANGED ended
  BY <1>2, FlushKeeps DEF Afters, CompletedResultIsWhole
<1>. QED  BY <1>1, <1>2 DEF finish_result

\* A result that changes while its statement goes on.
LEMMA ResultKeeps ==
  ASSUME ExecInv, script' = script, ~exec.error, NEW q, Excused(q, FALSE),
         NEW phase \in {"stream", "paused", "settle"}, NEW cancel \in BOOLEAN,
         NEW asked \in BOOLEAN,
         exec' = [exec EXCEPT !.cur = q, !.phase = phase, !.after = "none", !.sent = 0,
                              !.cancel = cancel, !.asked = asked]
  PROVE  ExecInv'
<1>1. (exec \in ExecShape)'  BY DEF ExecInv, ExecShape, Excused
<1>2. exec'.cur = q /\ exec'.phase = phase /\ exec'.error = exec.error
  BY DEF ExecInv, ExecShape
<1>3. Excused(exec.cur, exec.error)'  BY <1>2 DEF Excused
<1>. QED  BY <1>1, <1>2, <1>3 DEF ExecInv, StreamInv

\* A step of the stream.
LEMMA StreamStepKeeps ==
  ASSUME ExecInv, CompletedResultIsWhole, ResultStreamStep
  PROVE  ExecInv' /\ CompletedResultIsWhole'
<1>1. script' = script
  BY DEF ResultStreamStep, ReceiveRow, UnreadableRow, ResultDone, Acknowledged,
         LastResult, BatchRefused, PauseEnds, StatementRuns, StreamKeeps
<1>2. exec.phase = "stream" => ~exec.error
  BY DEF ExecInv, StreamInv
<1>3. Excused(Current, exec.error)  BY CurrentExcused
<1>0. Current \in ResultShape  BY <1>3 DEF Excused
<1>4. CASE ReceiveRow
  <2>1. exec.phase = "stream" /\ ~exec.error /\ ended' = ended
    BY <1>2, <1>4 DEF ReceiveRow, Streaming
  <2>2. ASSUME NEW q, Excused(q, FALSE), exec' = [exec EXCEPT !.cur = q]
        PROVE  ExecInv'
    <3>1. (exec \in ExecShape)'  BY <1>1, <2>2 DEF ExecInv, ExecShape, Excused
    <3>2. exec'.cur = q /\ exec'.phase = "stream" /\ exec'.error = exec.error
      BY <2>1, <2>2 DEF ExecInv, ExecShape
    <3>3. Excused(exec.cur, exec.error)'  BY <2>2, <3>2 DEF Excused
    <3>. QED  BY <2>1, <3>1, <3>2, <3>3 DEF ExecInv, StreamInv
  <2>3. CASE Current.skip /\ exec' = [exec EXCEPT !.cur = [Current EXCEPT !.missed = TRUE]]
    <3>1. Excused([Current EXCEPT !.missed = TRUE], FALSE)
      BY <1>3, <2>1, <2>3 DEF Excused, ResultShape
    <3>. QED  BY <2>1, <2>2, <2>3, <3>1 DEF CompletedResultIsWhole
  <2>4. CASE exec' = [exec EXCEPT !.cur = [Current EXCEPT !.capped = TRUE, !.skip = TRUE,
                                                          !.missed = TRUE]]
    <3>1. Excused([Current EXCEPT !.capped = TRUE, !.skip = TRUE, !.missed = TRUE], FALSE)
      BY <1>0 DEF Excused, ResultShape
    <3>. QED  BY <2>1, <2>2, <2>4, <3>1 DEF CompletedResultIsWhole
  <2>5. CASE Append(Current)
    <3>1. ExecInv'  BY <1>1, <1>3, <2>1, <2>5, AppendKeeps
    <3>. QED  BY <2>1, <3>1 DEF CompletedResultIsWhole
  <2>6. CASE Flush(Current, "row")
    <3>1. ExecInv'  BY <1>1, <1>3, <2>1, <2>6, FlushKeeps DEF Afters
    <3>. QED  BY <2>1, <3>1 DEF CompletedResultIsWhole
  <2>. QED  BY <1>4, <2>3, <2>4, <2>5, <2>6 DEF ReceiveRow
<1>5. CASE UnreadableRow
  <2>. DEFINE q == [Current EXCEPT !.missed = TRUE]
  <2>1. Excused(q, TRUE) /\ q \in ResultShape
    BY <1>3, <1>0, <1>5 DEF UnreadableRow, Excused, ResultShape
  <2>2. exec' = [exec EXCEPT !.failed = TRUE, !.error = TRUE, !.phase = "settle", !.cur = q]
        /\ ended' = ended
    BY <1>5 DEF UnreadableRow
  <2>. HIDE DEF q
  <2>3. (exec \in ExecShape)'  BY <1>1, <2>1, <2>2 DEF ExecInv, ExecShape
  <2>4. exec'.cur = q /\ exec'.phase = "settle" /\ exec'.error = TRUE
    BY <2>2 DEF ExecInv, ExecShape
  <2>5. Excused(exec.cur, exec.error)'  BY <2>1, <2>4 DEF Excused
  <2>. QED  BY <2>2, <2>3, <2>4, <2>5 DEF ExecInv, StreamInv, CompletedResultIsWhole
<1>6. CASE ResultDone
  <2>1. Excused(exec.cur, exec.error) /\ ~exec.error /\ finish_result(exec.cur, "done")
    BY <1>2, <1>6 DEF ResultDone, Streaming, ExecInv, StreamInv
  <2>. QED  BY <1>1, <2>1, FinishKeeps
<1>7. CASE LastResult
  <2>1. Excused(exec.cur, exec.error) /\ finish_result(exec.cur, "end")
    BY <1>7 DEF LastResult, ExecInv, StreamInv
  <2>. QED  BY <1>1, <2>1, FinishKeeps
<1>8. CASE Acknowledged
  <2>. DEFINE r == [exec.cur EXCEPT !.sequence = @ + 1]
  <2>1. exec.phase = "ack" /\ Excused(exec.cur, exec.error)
        /\ (~exec.error \/ exec.after = "end")
    BY <1>8 DEF Acknowledged, ExecInv, StreamInv
  <2>2. exec.cur \in ResultShape /\ exec.cur.sequence + 1 \in Nat
    BY <2>1 DEF Excused, ResultShape
  <2>3. Excused(r, exec.error)
    BY <2>1, <2>2 DEF Excused, ResultShape
  <2>4. CASE exec.after = "row" /\ Append(r) /\ ended' = ended
    <3>1. ExecInv'  BY <1>1, <2>1, <2>3, <2>4, AppendKeeps
    <3>. QED  BY <2>4, <3>1 DEF CompletedResultIsWhole
  <2>5. CASE /\ exec.after = "tranche" /\ ended' = ended
             /\ exec' = [exec EXCEPT !.cur = r, !.phase = "paused", !.after = "none", !.sent = 0]
    <3>. HIDE DEF r
    <3>1. exec' = [exec EXCEPT !.cur = r, !.phase = "paused", !.after = "none", !.sent = 0,
                               !.cancel = exec.cancel, !.asked = exec.asked]
          /\ exec.cancel \in BOOLEAN /\ exec.asked \in BOOLEAN
      BY <2>5 DEF ExecInv, ExecShape
    <3>2. Excused(r, FALSE)  BY <2>1, <2>3, <2>5 DEF Excused
    <3>3. ~exec.error  BY <2>1, <2>5
    <3>4. ExecInv'  BY <1>1, <3>1, <3>2, <3>3, ResultKeeps
    <3>. QED  BY <2>5, <3>4 DEF CompletedResultIsWhole
  <2>6. CASE /\ exec.after \notin {"row", "tranche"}
             /\ SendTerminal(r, TRUE, IF exec.after = "done" THEN "stream" ELSE "settle", FALSE)
    <3>. HIDE DEF r
    <3>. QED  BY <1>1, <2>1, <2>3, <2>6, TerminalEnds, TerminalIsTrue
  <2>. QED  BY <1>8, <2>4, <2>5, <2>6 DEF Acknowledged
<1>9. ASSUME NEW canceled \in BOOLEAN, BatchRefused(canceled)
      PROVE  ExecInv' /\ CompletedResultIsWhole'
  <2>. DEFINE missed == exec.cur.missed \/ exec.sent > 0 \/ exec.after = "row"
              r == [exec.cur EXCEPT !.missed = missed]
              q == [r EXCEPT !.discarded = TRUE, !.skip = TRUE]
  <2>1. exec.phase = "ack" /\ Excused(exec.cur, exec.error) /\ exec.cur \in ResultShape
        /\ (~exec.error \/ exec.after = "end")
    BY <1>9 DEF BatchRefused, ExecInv, StreamInv, Excused
  <2>2. missed \in BOOLEAN  OBVIOUS
  <2>3. r \in ResultShape  BY <2>1, <2>2 DEF ResultShape
  <2>4. CASE exec.after \in {"row", "tranche"}
    <3>1. Excused(q, FALSE)  BY <2>3 DEF Excused, ResultShape
    <3>2. exec' = [exec EXCEPT !.cur = q, !.phase = "stream", !.after = "none", !.sent = 0,
                               !.cancel = canceled, !.asked = @ \/ canceled]
          /\ ended' = ended
      BY <1>9, <2>4 DEF BatchRefused
    <3>. HIDE DEF q
    <3>3. exec' = [exec EXCEPT !.cur = q, !.phase = "stream", !.after = "none", !.sent = 0,
                               !.cancel = canceled, !.asked = exec.asked \/ canceled]
          /\ (exec.asked \/ canceled) \in BOOLEAN
      BY <3>2 DEF ExecInv, ExecShape
    <3>4. ExecInv'  BY <1>1, <2>1, <2>4, <3>1, <3>3, ResultKeeps
    <3>. QED  BY <3>2, <3>4 DEF CompletedResultIsWhole
  <2>5. CASE exec.after \notin {"row", "tranche"}
    <3>1. SendTerminal(r, FALSE, "settle", canceled)
      BY <1>9, <2>5 DEF BatchRefused
    <3>2. ExecInv'  BY <1>1, <2>1, <2>5, <3>1, TerminalEnds
    <3>3. finish_state(FALSE, r) # "completed"  BY DEF finish_state
    <3>4. ended' = ended \/ ended'.state # "completed"
      BY <3>1, <3>3 DEF SendTerminal
    <3>. QED  BY <3>2, <3>4 DEF CompletedResultIsWhole
  <2>. QED  BY <2>4, <2>5
<1>10. ASSUME NEW d \in {"continue", "discard", "expire", "cancel"}, PauseEnds(d)
       PROVE  ExecInv' /\ CompletedResultIsWhole'
  <2>1. exec.phase = "paused" /\ Excused(exec.cur, exec.error) /\ exec.cur \in ResultShape
        /\ ~exec.error /\ ended' = ended
    BY <1>10 DEF PauseEnds, ExecInv, StreamInv, Excused
  <2>2. exec.cur.limit + TrancheRows \in Nat
    BY <2>1, BoundsAssumption DEF ResultShape
  <2>3. (exec \in ExecShape)'
    BY <1>1, <1>10, <2>1, <2>2 DEF PauseEnds, ExecInv, ExecShape, ResultShape
  <2>4. exec'.phase \in {"stream", "settle"} /\ exec'.error = exec.error
    BY <1>10 DEF PauseEnds, ExecInv, ExecShape
  <2>5. Excused(exec.cur, exec.error)'
    BY <1>10, <2>1, <2>2 DEF PauseEnds, Excused, ExecInv, ExecShape, ResultShape
  <2>. QED  BY <2>1, <2>3, <2>4, <2>5 DEF ExecInv, StreamInv, CompletedResultIsWhole
<1>11. ASSUME NEW answer \in Replies, StatementRuns(answer)
       PROVE  ExecInv' /\ CompletedResultIsWhole'
  <2>1. exec.phase = "stream" /\ ~exec.error /\ ended' = ended
    BY <1>2, <1>11 DEF StatementRuns, Streaming
  <2>2. (exec \in ExecShape)'
    BY <1>1, <1>11 DEF StatementRuns, ExecInv, ExecShape
  <2>3. exec'.cur = exec.cur /\ exec'.phase = "settle"
    BY <1>11 DEF StatementRuns, ExecInv, ExecShape
  <2>4. exec.cur = NoResult \/ Excused(exec.cur, exec.error)'
    BY <2>1, <2>3 DEF ExecInv, StreamInv, Excused
  <2>. QED  BY <2>1, <2>2, <2>3, <2>4 DEF ExecInv, StreamInv, CompletedResultIsWhole
<1>. QED
  BY <1>4, <1>5, <1>6, <1>7, <1>8, <1>9, <1>10, <1>11 DEF ResultStreamStep

\* A step beside the stream leaves what is being shown as it is, or drops it.
Beside ==
  /\ (exec \in ExecShape)'
  /\ \/ exec'.cur = NoResult /\ exec'.phase \notin {"ack", "paused"}
     \/ /\ exec'.cur = exec.cur
        /\ exec.error => exec'.error
        /\ exec'.phase \in {"ack", "paused"} => exec'.phase = exec.phase
  /\ exec'.error => \/ exec'.phase \in {"settle", "report"}
                    \/ exec'.phase = "ack" /\ exec'.after = "end"
  /\ ended' = ended \/ ended'.state = "none"

\* A step beside the stream keeps the account of it.
LEMMA BesideKeeps ==
  ASSUME ExecInv, CompletedResultIsWhole, Beside
  PROVE  ExecInv' /\ CompletedResultIsWhole'
BY DEF Beside, ExecInv, StreamInv, Excused, CompletedResultIsWhole

\* So does a call that keeps the execution, and the end of one.
LEMMA AtRest ==
  ASSUME ExecInv, script' = script, NEW op \in {"none", "execute", "explain"},
         NEW phase \in {"idle", "queued"},
         \/ exec' = exec
         \/ exec' = [NoExec EXCEPT !.op = op, !.phase = phase]
         \/ exec' = NoExec,
         ended' = ended \/ ended'.state = "none"
  PROVE  Beside
<1>1. CASE exec' = exec
  BY <1>1 DEF Beside, ExecInv, StreamInv, ExecShape
<1>2. CASE exec' = [NoExec EXCEPT !.op = op, !.phase = phase]
  <2>1. (exec \in ExecShape)'  BY <1>2 DEF NoExec, ExecShape
  <2>2. exec'.cur = NoResult /\ exec'.phase = phase /\ exec'.error = FALSE
    BY <1>2 DEF NoExec
  <2>. QED  BY <2>1, <2>2 DEF Beside
<1>3. CASE exec' = NoExec
  <2>1. (exec \in ExecShape)'  BY <1>3 DEF NoExec, ExecShape
  <2>2. exec'.cur = NoResult /\ exec'.phase = "idle" /\ exec'.error = FALSE
    BY <1>3 DEF NoExec
  <2>. QED  BY <2>1, <2>2 DEF Beside
<1>. QED  BY <1>1, <1>2, <1>3

\* Every shared step is such a step.
LEMMA SharedStepBeside ==
  ASSUME ExecInv, script' = script, SharedStep
  PROVE  Beside
<1>1. CASE Acquire \/ PlanEnds \/ ClearActive \/ request_cancel \/ ControlFails \/ ControlConfirms
  BY <1>1 DEF Acquire, PlanEnds, ClearActive, request_cancel, ControlFails,
         ControlConfirms, Beside, ExecInv, StreamInv, ExecShape, Runs
<1>2. CASE ExplainReports \/ \E kind \in script : RefuseStatement(kind)
  BY <1>2, AtRest DEF ExplainReports, RefuseStatement, Terminate
<1>3. CASE \E op \in {"execute", "explain"} : Install(op)
  <2>1. PICK op \in {"execute", "explain"} : Install(op)  BY <1>3
  <2>2. exec' = [NoExec EXCEPT !.op = op, !.phase = "queued"] /\ ended'.state = "none"
    BY <2>1 DEF Install, NoTerminal
  <2>. QED  BY <2>2, AtRest
<1>4. CASE \E answer \in Replies : ExplainAsks(answer)
  BY <1>4 DEF ExplainAsks, Beside, ExecInv, StreamInv, ExecShape
<1>5. CASE exec' = exec /\ ended' = ended
  BY <1>5, AtRest
<1>. QED
  BY <1>1, <1>2, <1>3, <1>4, <1>5
  DEF SharedStep, AskCommand, load_object_detail, browse_table, ping_if_idle,
         apply_table_mutations, StartBatch, ChangeRow, CommitBatch, LastRollback,
         rollback_mutations, CallKeeps, ExecKeeps

\* So is every step of an engine's own that is not of the stream.
LEMMA OwnStepsBeside ==
  ASSUME ExecInv, script' = script,
         MySqlStep \/ PostgresStep \/ SqliteStep, ~ResultStreamStep
  PROVE  Beside
<1>1. CASE LocksConnection \/ \E phase : Report(phase)
  BY <1>1, AtRest DEF LocksConnection, ExecKeeps, Report, Terminate
<1>2. CASE MySqlStep
  <2>1. CASE \E kind \in script : M!NextStatement(kind)
    BY <2>1 DEF M!NextStatement, M!Runs, Beside, ExecInv, StreamInv, ExecShape
  <2>2. CASE M!StatementSettles
    BY <2>2 DEF M!StatementSettles, M!Runs, Beside, ExecInv, StreamInv, ExecShape
  <2>3. CASE \E answer \in Replies : M!transaction_after_error(answer)
                 \/ M!ReconcileStatement(answer) \/ M!FinishExecution(answer)
    BY <2>3 DEF M!transaction_after_error, M!ReconcileStatement, M!FinishExecution,
                M!Runs, Beside, ExecInv, StreamInv, ExecShape
  <2>4. CASE \E answer \in Replies : MySqlCall(answer)
    BY <2>4, AtRest
    DEF MySqlCall, M!set_automatic, M!commit, M!rollback, M!InspectFirst,
        M!SetAutocommit, M!EndTransaction, M!InspectAgain, M!CallAnswers, M!ExecKeeps
  <2>. QED  BY <1>1, <1>2, <2>1, <2>2, <2>3, <2>4 DEF MySqlStep
<1>3. CASE PostgresStep
  <2>1. CASE \E kind \in script : P!NextStatement(kind)
    BY <2>1 DEF P!NextStatement, P!Runs, Beside, ExecInv, StreamInv, ExecShape
  <2>2. CASE P!StatementSettles
    BY <2>2 DEF P!StatementSettles, P!Runs, Beside, ExecInv, StreamInv, ExecShape
  <2>3. CASE \E answer \in Replies : P!LazyBegin(answer)
    BY <2>3 DEF P!LazyBegin, P!Runs, Beside, ExecInv, StreamInv, ExecShape
  <2>4. CASE P!NoTransaction \/ P!WantsConnection \/ P!set_automatic
             \/ \E answer \in Replies : P!commit(answer) \/ P!rollback(answer)
    BY <2>4, AtRest
    DEF P!NoTransaction, P!WantsConnection, P!set_automatic, P!commit, P!rollback,
        P!EndTransaction, P!CallKeeps, P!ExecKeeps
  <2>. QED  BY <1>1, <1>3, <2>1, <2>2, <2>3, <2>4 DEF PostgresStep
<1>4. CASE SqliteStep
  <2>1. CASE \E kind \in script : S!NextStatement(kind)
    BY <2>1 DEF S!NextStatement, S!Runs, Beside, ExecInv, StreamInv, ExecShape
  <2>2. CASE S!StatementSettles
    BY <2>2 DEF S!StatementSettles, S!Runs, Beside, ExecInv, StreamInv, ExecShape
  <2>3. CASE \E answer \in Replies : S!LazyBegin(answer) \/ S!RunStatement(answer)
    BY <2>3 DEF S!LazyBegin, S!RunStatement, S!Runs, Beside, ExecInv, StreamInv, ExecShape
  <2>4. CASE S!set_automatic \/ \E answer \in Replies : S!commit(answer) \/ S!rollback(answer)
    BY <2>4, AtRest
    DEF S!set_automatic, S!commit, S!rollback, S!EndTransaction, S!CallKeeps, S!ExecKeeps
  <2>5. CASE S!request_cancel_flag
    BY <2>5 DEF S!request_cancel_flag, Beside, ExecInv, StreamInv, ExecShape
  <2>. QED  BY <1>1, <1>4, <2>1, <2>2, <2>3, <2>4, <2>5 DEF SqliteStep
<1>. QED  BY <1>2, <1>3, <1>4

\* Whatever happens, the stream keeps its account.
LEMMA ExecKept ==
  ASSUME Next, ExecInv, CompletedResultIsWhole
  PROVE  ExecInv' /\ CompletedResultIsWhole'
<1>1. script' = script  BY Lasting
<1>2. CASE SharedStep  BY <1>1, <1>2, SharedStepBeside, BesideKeeps
<1>3. CASE ResultStreamStep  BY <1>3, StreamStepKeeps
<1>4. CASE (MySqlStep \/ PostgresStep \/ SqliteStep) /\ ~ResultStreamStep
  BY <1>1, <1>4, OwnStepsBeside, BesideKeeps
<1>. QED  BY Splits, <1>2, <1>3, <1>4

\* A result that ends as completed was shown in full, or says why not: of a
\* row passed over, a batch refused and a statement that failed, one at least
\* is on record when the terminal goes out (result.rs and the finish_result of
\* the adapters).
THEOREM CompletedIsWhole == Spec => []CompletedResultIsWhole
<1>1. Init => ExecInv /\ CompletedResultIsWhole
  BY DEF Init, ExecInv, StreamInv, ExecShape, NoExec, NoTerminal, CompletedResultIsWhole
<1>2. ExecInv /\ CompletedResultIsWhole /\ [Next]_vars => (ExecInv /\ CompletedResultIsWhole)'
  <2>1. CASE Next  BY <2>1, ExecKept
  <2>2. CASE UNCHANGED vars
    BY <2>2 DEF vars, serverVars, ExecInv, StreamInv, ExecShape, Excused, CompletedResultIsWhole
  <2>. QED  BY <2>1, <2>2
<1>. QED  BY <1>1, <1>2, PTL DEF Spec

(***************************************************************************)
(* The calls, and the lock they take.                                      *)
(***************************************************************************)
CallInv ==
  /\ session \in SessionShape /\ tail \in BOOLEAN
  /\ command = NoCommand \/ command \in Commands

\* What a call is, and where it can go.
LEMMA CallShape ==
  ASSUME CallInv, script' = script
  PROVE  /\ Commands' = Commands
         /\ \A step \in QuerySteps \cap TableSteps :
              command \in Commands => [command EXCEPT !.step = step] \in Commands
         /\ command.step # "idle" => command \in Commands
         /\ command.op # "none" => command \in Commands
         /\ command # NoCommand => command.step # "idle" /\ command.op # "none"
<1>1. Commands' = Commands  BY DEF Commands, TableTab
<1>2. ASSUME NEW step \in QuerySteps \cap TableSteps, command \in Commands
      PROVE  [command EXCEPT !.step = step] \in Commands
  BY <1>2 DEF Commands, TableCommands, QueryCommands
<1>3. command # NoCommand => command.step # "idle" /\ command.op # "none"
  BY
  DEF CallInv, Commands, TableCommands, QueryCommands, TableCalls, QueryCalls, TableSteps,
      QuerySteps
<1>4. NoCommand.step = "idle" /\ NoCommand.op = "none"  BY DEF NoCommand
<1>. QED  BY <1>1, <1>2, <1>3, <1>4 DEF CallInv

\* A call of a table tab is on a table tab.
LEMMA TableCall ==
  ASSUME CallInv, command.op \in TableCalls \/ command.step \in TableSteps \ QuerySteps
  PROVE  /\ command \in TableCommands /\ TableTab
         /\ \A step \in TableSteps : [command EXCEPT !.step = step] \in Commands
<1>1. command \in Commands
  BY DEF CallInv, NoCommand, TableSteps, TableCalls
<1>2. command \in TableCommands /\ TableTab
  BY <1>1
  DEF Commands, QueryCommands, TableCommands, TableCalls, QueryCalls, TableSteps, QuerySteps
<1>. QED  BY <1>2 DEF Commands, TableCommands

\* And a call of a query tab on a query tab.
LEMMA QueryCall ==
  ASSUME CallInv, command.op \in QueryCalls \/ command.step \in QuerySteps \ TableSteps
  PROVE  /\ command \in QueryCommands /\ ~TableTab
         /\ \A step \in QuerySteps : [command EXCEPT !.step = step] \in Commands
<1>1. command \in Commands
  <2>1. "none" \notin QueryCalls /\ "idle" \notin QuerySteps
    BY DEF QuerySteps, QueryCalls
  <2>2. NoCommand.op = "none" /\ NoCommand.step = "idle"
    BY DEF NoCommand
  <2>. QED  BY <2>1, <2>2 DEF CallInv
<1>2. command \in QueryCommands /\ ~TableTab
  BY <1>1
  DEF Commands, QueryCommands, TableCommands, TableCalls, QueryCalls, TableSteps, QuerySteps
<1>. QED  BY <1>2 DEF Commands, QueryCommands

\* The shared steps keep calls and session what they are.
LEMMA SharedStepCalls ==
  ASSUME CallInv, script' = script, SharedStep
  PROVE  CallInv'
<1>1. Commands' = Commands  BY CallShape
<1>2. CASE session' = session /\ command' = command /\ tail' \in BOOLEAN
  BY <1>1, <1>2 DEF CallInv
<1>3. ASSUME NEW op \in Operations, AskCommand(op)  PROVE CallInv'
  <2>1. [op |-> op, step |-> "waiting"] \in Commands
    BY
    DEF Operations, TableTab, Commands, TableCommands, QueryCommands, TableCalls, QueryCalls,
        TableSteps, QuerySteps
  <2>. QED  BY <1>1, <1>3, <2>1 DEF AskCommand, ExecKeeps, CallInv
<1>4. CASE \E answer \in Replies : load_object_detail(answer) \/ browse_table(answer)
  <2>1. command.op \in TableCalls \/ command.step \in TableSteps \ QuerySteps
    BY <1>4 DEF load_object_detail, browse_table, CommandIs, TableCalls, TableSteps, QuerySteps
  <2>2. [command EXCEPT !.step = "page"] \in Commands
    BY <2>1, TableCall DEF TableSteps
  <2>. QED
    BY <1>1, <1>4, <2>2 DEF load_object_detail, browse_table, CallKeeps, ExecKeeps, Go, CallInv
<1>5. CASE \E answer \in Replies : apply_table_mutations(answer) \/ rollback_mutations(answer)
  <2>1. command.op \in TableCalls
    BY <1>5 DEF apply_table_mutations, StartBatch, ChangeRow, CommitBatch, LastRollback,
      rollback_mutations, CommandIs, TableCalls
  <2>2. \A step \in TableSteps : [command EXCEPT !.step = step] \in Commands
    BY <2>1, TableCall
  <2>3. [session EXCEPT !.certainty = "unknown"] \in SessionShape
    BY DEF CallInv, SessionShape, Certainty
  <2>4. session' \in SessionShape /\ tail' = tail
    BY <1>5, <2>3 DEF apply_table_mutations, StartBatch, ChangeRow, CommitBatch, LastRollback,
       rollback_mutations, CallKeeps, ExecKeeps, Certain, CallInv
  <2>5. \/ command' = NoCommand
        \/ \E step \in TableSteps : command' = [command EXCEPT !.step = step]
    BY <1>5 DEF apply_table_mutations, StartBatch, ChangeRow, CommitBatch, LastRollback,
       rollback_mutations, Go, TableSteps
  <2>. QED  BY <1>1, <2>2, <2>4, <2>5 DEF CallInv
<1>6. CASE \E answer \in Replies : ping_if_idle(answer) \/ ExplainAsks(answer)
  BY <1>2, <1>6 DEF ping_if_idle, ExplainAsks, CallKeeps, ExecKeeps, CallInv
<1>7. CASE Acquire \/ PlanEnds \/ ClearActive \/ request_cancel \/ ControlFails
           \/ ControlConfirms \/ ExplainReports \/ (\E kind \in script : RefuseStatement(kind))
           \/ \E op \in {"execute", "explain"} : Install(op)
  BY <1>2, <1>7
  DEF Acquire, PlanEnds, ClearActive, request_cancel, ControlFails, ControlConfirms,
      ExplainReports, RefuseStatement, Terminate, Install, CallInv
<1>. QED  BY <1>3, <1>4, <1>5, <1>6, <1>7 DEF SharedStep

\* So do an engine's own.
LEMMA OwnStepsCalls ==
  ASSUME CallInv, Good(server), script' = script,
         MySqlStep \/ PostgresStep \/ SqliteStep
  PROVE  CallInv'
<1>1. Commands' = Commands  BY CallShape
<1>2. CASE session' = session /\ command' = command /\ tail' \in BOOLEAN
  BY <1>1, <1>2 DEF CallInv
<1>3. \A c \in Certainty, b \in BOOLEAN :
        /\ [session EXCEPT !.certainty = c] \in SessionShape
        /\ [session EXCEPT !.automatic = b] \in SessionShape
        /\ [session EXCEPT !.automatic = b, !.certainty = c] \in SessionShape
  BY DEF CallInv, SessionShape
<1>4. {"clean", "active", "unknown"} \subseteq Certainty /\ session.certainty \in Certainty
      /\ server.autocommit \in BOOLEAN
  BY DEF Certainty, CallInv, SessionShape, Good, ServerType
<1>5. CASE ResultStreamStep
  BY <1>2, <1>5
  DEF ResultStreamStep, ReceiveRow, UnreadableRow, ResultDone, Acknowledged, LastResult,
      BatchRefused, PauseEnds, StatementRuns, StreamKeeps, CallInv
<1>6. CASE LocksConnection
  <2>1. CASE command.op \in TableCalls
    <3>1. command' = [command EXCEPT !.step = "begin"]
          \/ command' = [command EXCEPT !.step = "describe"]
      BY <1>6, <2>1 DEF LocksConnection, Go, TableCalls
    <3>2. "begin" \in TableSteps /\ "describe" \in TableSteps  BY DEF TableSteps
    <3>. QED  BY <1>1, <1>6, <2>1, <3>1, <3>2, TableCall DEF LocksConnection, ExecKeeps, CallInv
  <2>2. CASE command.op \notin TableCalls
    <3>1. command' = [command EXCEPT !.step = "first"] /\ command.step = "waiting"
      BY <1>6, <2>2 DEF LocksConnection, Go, TableCalls
    <3>2. command.op \in QueryCalls
      BY <2>2, <3>1, CallShape
      DEF Commands, TableCommands, QueryCommands
    <3>3. "first" \in QuerySteps  BY DEF QuerySteps
    <3>. QED  BY <1>1, <1>6, <3>1, <3>2, <3>3, QueryCall DEF LocksConnection, ExecKeeps, CallInv
  <2>. QED  BY <2>1, <2>2
<1>7. CASE \E phase : Report(phase)
  BY <1>2, <1>7 DEF Report, Terminate
<1>8. CASE MySqlStep
  <2>1. CASE \E kind \in script : M!NextStatement(kind)
    BY <1>2, <2>1 DEF M!NextStatement, CallInv
  <2>2. CASE M!StatementSettles
    <3>1. M!reconcile_mysql57_statement_effect(exec.kind) \in Certainty
      BY <1>4 DEF M!reconcile_mysql57_statement_effect
    <3>. QED  BY <1>1, <1>3, <1>4, <2>2, <3>1 DEF M!StatementSettles, M!Certain, CallInv
  <2>3. M!reconcile_transaction \in Certainty
    BY <1>4 DEF M!reconcile_transaction
  <2>4. CASE \E answer \in Replies : M!transaction_after_error(answer)
                 \/ M!ReconcileStatement(answer) \/ M!FinishExecution(answer)
    BY <1>1, <1>3, <1>4, <2>3, <2>4
    DEF M!transaction_after_error, M!ReconcileStatement, M!FinishExecution, M!Certain, CallInv
  <2>5. CASE \E answer \in Replies : MySqlCall(answer)
    <3>1. command.op \in QueryCalls
      BY <2>5 DEF MySqlCall, M!set_automatic, M!commit, M!rollback, QueryCalls
    <3>2. \A step \in {"act", "inspect again"} : [command EXCEPT !.step = step] \in Commands
      BY <3>1, QueryCall DEF QuerySteps
    <3>3. session' \in SessionShape /\ tail' = tail
      BY <1>3, <1>4, <2>3, <2>5
      DEF MySqlCall, M!set_automatic, M!commit, M!rollback, M!InspectFirst, M!SetAutocommit,
          M!EndTransaction, M!InspectAgain, M!CallAnswers, M!ExecKeeps, M!Certain, CallInv
    <3>4. command' = NoCommand
          \/ \E step \in {"act", "inspect again"} : command' = [command EXCEPT !.step = step]
      BY <2>5
      DEF MySqlCall, M!set_automatic, M!commit, M!rollback, M!InspectFirst, M!SetAutocommit,
          M!EndTransaction, M!InspectAgain, M!Go, M!NoCommand, NoCommand
    <3>. QED  BY <1>1, <3>2, <3>3, <3>4 DEF CallInv
  <2>. QED  BY <1>5, <1>6, <1>7, <1>8, <2>1, <2>2, <2>4, <2>5 DEF MySqlStep
<1>9. CASE PostgresStep
  <2>1. CASE \E kind \in script : P!NextStatement(kind)
    BY <1>2, <2>1 DEF P!NextStatement, CallInv
  <2>2. CASE P!StatementSettles
    <3>1. P!reconcile_statement_effect(exec.kind) \in Certainty
      BY <1>4 DEF P!reconcile_statement_effect
    <3>. QED  BY <1>1, <1>3, <1>4, <2>2, <3>1 DEF P!StatementSettles, P!Certain, CallInv
  <2>3. CASE \E answer \in Replies : P!LazyBegin(answer)
    BY <1>1, <1>3, <1>4, <2>3 DEF P!LazyBegin, P!Certain, CallInv
  <2>4. CASE P!WantsConnection
    <3>1. [command EXCEPT !.step = "locking"] \in Commands
      BY <2>4, QueryCall DEF P!WantsConnection, QueryCalls, QuerySteps
    <3>. QED  BY <1>1, <2>4, <3>1 DEF P!WantsConnection, P!Go, P!CallKeeps, P!ExecKeeps, CallInv
  <2>5. CASE P!NoTransaction \/ P!set_automatic
             \/ \E answer \in Replies : P!commit(answer) \/ P!rollback(answer)
    BY <1>1, <1>3, <1>4, <2>5
    DEF P!NoTransaction, P!set_automatic, P!commit, P!rollback, P!NoCommand, NoCommand,
        P!EndTransaction, P!CallKeeps, P!ExecKeeps, P!Certain, CallInv
  <2>. QED  BY <1>5, <1>6, <1>7, <1>9, <2>1, <2>2, <2>3, <2>4, <2>5 DEF PostgresStep
<1>10. CASE SqliteStep
  <2>1. CASE \E kind \in script : S!NextStatement(kind)
    BY <1>2, <2>1 DEF S!NextStatement, CallInv
  <2>2. CASE S!StatementSettles
    <3>1. S!reconcile_transaction_statement(exec.kind) \in Certainty
          /\ S!mark_unknown_if_active \in Certainty
      BY <1>4 DEF S!reconcile_transaction_statement, S!mark_unknown_if_active
    <3>. QED  BY <1>1, <1>3, <1>4, <2>2, <3>1 DEF S!StatementSettles, S!Certain, CallInv
  <2>3. CASE \E answer \in Replies : S!LazyBegin(answer) \/ S!RunStatement(answer)
    BY <1>1, <1>3, <1>4, <2>3 DEF S!LazyBegin, S!RunStatement, S!Certain, CallInv
  <2>4. CASE S!set_automatic \/ \E answer \in Replies : S!commit(answer) \/ S!rollback(answer)
    BY <1>1, <1>3, <1>4, <2>4
    DEF S!set_automatic, S!commit, S!rollback, S!NoCommand, NoCommand,
        S!EndTransaction, S!CallKeeps, S!ExecKeeps, S!Certain, CallInv
  <2>5. CASE S!request_cancel_flag
    BY <1>2, <2>5 DEF S!request_cancel_flag, CallInv
  <2>. QED  BY <1>6, <1>7, <1>10, <2>1, <2>2, <2>3, <2>4, <2>5 DEF SqliteStep
<1>. QED  BY <1>8, <1>9, <1>10

\* What every proof below stands on.
Base == ExecInv /\ CallInv /\ Good(server)

\* The shape of the state is inductive, with the account of the stream.
LEMMA BaseKept ==
  ASSUME Next, Base, CompletedResultIsWhole
  PROVE  Base'
BY Splits, Lasting, ExecKept, SharedStepCalls, OwnStepsCalls, ServerStays DEF Base

\* No shared step breaks into a lock.
LEMMA SharedStepLocks ==
  ASSUME Base, LockInv, engine' = engine, script' = script, SharedStep
  PROVE  LockInv'
<1>1. CASE \E op \in Operations : AskCommand(op)
  BY <1>1 DEF AskCommand, ExecKeeps, NoCommand, LockInv, TableTab
<1>2. CASE \E answer \in Replies : load_object_detail(answer) \/ browse_table(answer)
               \/ apply_table_mutations(answer) \/ rollback_mutations(answer)
  <2>1. command.op \in TableCalls \/ command.step \in TableSteps \ QuerySteps
    BY <1>2 DEF load_object_detail, browse_table, apply_table_mutations, StartBatch, ChangeRow,
       CommitBatch, LastRollback, rollback_mutations, CommandIs, TableCalls, TableSteps, QuerySteps
  <2>2. command.step \notin {"idle", "waiting"} /\ TableTab
    BY <1>2, <2>1, TableCall
    DEF Base, load_object_detail, browse_table, apply_table_mutations, StartBatch, ChangeRow,
       CommitBatch, LastRollback, rollback_mutations, CommandIs
  <2>3. exec' = exec /\ tail' = tail
    BY <1>2 DEF load_object_detail, browse_table, apply_table_mutations, StartBatch, ChangeRow,
       CommitBatch, LastRollback, rollback_mutations, CallKeeps, ExecKeeps
  <2>. QED  BY <2>2, <2>3 DEF LockInv, TableTab
<1>3. CASE \E answer \in Replies : ping_if_idle(answer)
  BY <1>3 DEF ping_if_idle, CallKeeps, ExecKeeps, LockInv, TableTab
<1>4. CASE \E answer \in Replies : ExplainAsks(answer)
  BY <1>4 DEF ExplainAsks, LockFree, LockInv, TableTab, Base, ExecInv, ExecShape
<1>5. CASE Acquire \/ PlanEnds \/ ClearActive \/ request_cancel \/ ControlFails
           \/ ControlConfirms \/ ExplainReports
  <2>1. CASE Acquire
    BY <2>1 DEF Acquire, Runs, LockFree, LockInv, TableTab, Base, ExecInv, ExecShape
  <2>2. CASE PlanEnds
    BY <2>2 DEF PlanEnds, Runs, LockInv, TableTab, Base, ExecInv, ExecShape
  <2>3. CASE ClearActive
    BY <2>3 DEF ClearActive, LockInv, TableTab, Base, ExecInv, ExecShape
  <2>4. CASE request_cancel
    BY <2>4 DEF request_cancel, LockInv, TableTab, Base, ExecInv, ExecShape
  <2>5. CASE ControlFails \/ ControlConfirms
    BY <2>5 DEF ControlFails, ControlConfirms, LockInv, TableTab, Base, ExecInv, ExecShape
  <2>6. CASE ExplainReports
    BY <2>6 DEF ExplainReports, NoExec, LockInv, TableTab, Base, ExecInv, ExecShape
  <2>. QED  BY <1>5, <2>1, <2>2, <2>3, <2>4, <2>5, <2>6
<1>6. CASE \E kind \in script : RefuseStatement(kind)
  BY <1>6 DEF RefuseStatement, Terminate, Runs, NoExec, LockInv, TableTab
<1>7. CASE \E op \in {"execute", "explain"} : Install(op)
  BY <1>7 DEF Install, NoExec, LockInv, TableTab, Base, ExecInv, ExecShape
<1>. QED  BY <1>1, <1>2, <1>3, <1>4, <1>5, <1>6, <1>7 DEF SharedStep

\* A stream belongs to an execution that has the connection.
LEMMA StreamHolds ==
  ASSUME Base, LockInv, ResultStreamStep
  PROVE  /\ exec.op = "execute" /\ exec.phase \in {"stream", "ack", "paused", "settle"}
         /\ exec'.op = "execute" /\ exec'.phase \in {"stream", "ack", "paused", "settle"}
         /\ UNCHANGED <<session, tail, command, reply>>
<1>1. exec.phase \in {"stream", "ack", "paused", "settle"}
  BY DEF ResultStreamStep, ReceiveRow, UnreadableRow, ResultDone, Acknowledged, LastResult,
         BatchRefused, PauseEnds, StatementRuns, Streaming
<1>2. exec.op = "execute"  BY <1>1 DEF LockInv
<1>3. exec \in ExecShape  BY DEF Base, ExecInv
<1>4. UNCHANGED <<session, tail, command, reply>>
  BY DEF ResultStreamStep, ReceiveRow, UnreadableRow, ResultDone, Acknowledged, LastResult,
         BatchRefused, PauseEnds, StatementRuns, StreamKeeps
<1>. DEFINE Holds == exec'.op = exec.op /\ exec'.phase \in {"stream", "ack", "paused", "settle"}
<1>5. ASSUME NEW r, NEW after, Flush(r, after)  PROVE Holds
  BY <1>3, <1>5 DEF Flush, ExecShape
<1>6. ASSUME NEW r, Append(r)  PROVE Holds
  BY <1>3, <1>5, <1>6 DEF Append, ExecShape
<1>7. ASSUME NEW r, NEW delivered, NEW next \in {"stream", "settle"}, NEW canceled,
             SendTerminal(r, delivered, next, canceled)
      PROVE  Holds
  BY <1>3, <1>7 DEF SendTerminal, ExecShape
<1>8. ASSUME NEW r, NEW after, finish_result(r, after)  PROVE Holds
  BY <1>5, <1>7, <1>8 DEF finish_result
<1>9. (ReceiveRow) => Holds
  BY <1>3, <1>5, <1>6 DEF ReceiveRow, Streaming, ExecShape
<1>10. (UnreadableRow) => Holds
  BY <1>3 DEF UnreadableRow, ExecShape
<1>11. (ResultDone \/ LastResult) => Holds
  BY <1>8 DEF ResultDone, LastResult
<1>12. (Acknowledged) => Holds
  BY <1>3, <1>6, <1>7 DEF Acknowledged, ExecShape
<1>13. (\E canceled \in BOOLEAN : BatchRefused(canceled)) => Holds
  BY <1>3, <1>7 DEF BatchRefused, ExecShape
<1>14. (\E d \in {"continue", "discard", "expire", "cancel"} : PauseEnds(d)) => Holds
  BY <1>3 DEF PauseEnds, ExecShape
<1>15. (\E answer \in Replies : StatementRuns(answer)) => Holds
  BY <1>3 DEF StatementRuns, ExecShape
<1>16. Holds
  BY <1>9, <1>10, <1>11, <1>12, <1>13, <1>14, <1>15 DEF ResultStreamStep
<1>. QED  BY <1>1, <1>2, <1>4, <1>16

\* Nor does a step of an engine's own.
LEMMA OwnStepsLock ==
  ASSUME Base, LockInv, engine' = engine, script' = script,
         \/ engine \in MySqlFamily /\ MySqlStep
         \/ engine = "postgres" /\ PostgresStep
         \/ engine = "sqlite" /\ SqliteStep
  PROVE  LockInv'
<1>1. CASE ResultStreamStep
  BY <1>1, StreamHolds DEF LockInv, TableTab
<1>2. CASE LocksConnection /\ (engine \in MySqlFamily \/ TableTab)
  BY <1>2 DEF LocksConnection, LockFree, ExecKeeps, LockInv, TableTab, MySqlFamily
<1>3. CASE \E phase \in {"report", "finish"} : Report(phase)
  BY <1>3 DEF Report, Terminate, Runs, NoExec, LockInv, TableTab
<1>4. CASE engine \in MySqlFamily /\ MySqlStep
  <2>1. CASE \E kind \in script : M!NextStatement(kind)
    BY <2>1 DEF M!NextStatement, M!Runs, LockInv, TableTab, Base, ExecInv, ExecShape
  <2>2. CASE M!StatementSettles
    BY <2>2 DEF M!StatementSettles, M!Runs, LockInv, TableTab, Base, ExecInv, ExecShape
  <2>3. CASE \E answer \in Replies : M!transaction_after_error(answer)
                 \/ M!ReconcileStatement(answer) \/ M!FinishExecution(answer)
    BY <2>3
    DEF M!transaction_after_error, M!ReconcileStatement, M!FinishExecution,
        M!Runs, LockInv, TableTab, Base, ExecInv, ExecShape
  <2>4. CASE \E answer \in Replies : MySqlCall(answer)
    <3>1. command.step \in {"first", "act", "inspect again"} /\ exec' = exec /\ tail' = tail
      BY <2>4
      DEF MySqlCall, M!set_automatic, M!commit, M!rollback, M!InspectFirst, M!SetAutocommit,
          M!EndTransaction, M!InspectAgain, M!CallAnswers, M!ExecKeeps
    <3>2. engine # "sqlite"  BY <1>4 DEF MySqlFamily
    <3>. QED  BY <1>4, <3>1, <3>2 DEF LockInv, TableTab
  <2>. QED  BY <1>1, <1>2, <1>3, <1>4, <2>1, <2>2, <2>3, <2>4 DEF MySqlStep
<1>5. CASE engine = "postgres" /\ PostgresStep
  <2>1. engine' \notin MySqlFamily /\ engine' # "sqlite"  BY <1>5 DEF MySqlFamily
  <2>2. CASE \E kind \in script : P!NextStatement(kind)
    BY <2>1, <2>2 DEF P!NextStatement, P!Runs, LockInv, Base, ExecInv, ExecShape
  <2>3. CASE P!StatementSettles
    BY <2>1, <2>3 DEF P!StatementSettles, P!Runs, LockInv, Base, ExecInv, ExecShape
  <2>4. CASE \E answer \in Replies : P!LazyBegin(answer)
    BY <2>1, <2>4 DEF P!LazyBegin, P!Runs, LockInv, Base, ExecInv, ExecShape
  <2>5. CASE P!NoTransaction \/ P!WantsConnection \/ P!set_automatic
             \/ \E answer \in Replies : P!commit(answer) \/ P!rollback(answer)
    BY <2>1, <2>5
    DEF P!NoTransaction, P!WantsConnection, P!set_automatic, P!commit, P!rollback,
        P!EndTransaction, P!CallKeeps, P!ExecKeeps, LockInv
  <2>. QED  BY <1>1, <1>2, <1>3, <1>5, <2>2, <2>3, <2>4, <2>5 DEF PostgresStep
<1>6. CASE engine = "sqlite" /\ SqliteStep
  <2>1. engine' \notin MySqlFamily  BY <1>6 DEF MySqlFamily
  <2>2. CASE \E kind \in script : S!NextStatement(kind)
    BY <2>1, <2>2 DEF S!NextStatement, S!Runs, LockInv, TableTab, Base, ExecInv, ExecShape
  <2>3. CASE S!StatementSettles
    BY <2>1, <2>3 DEF S!StatementSettles, S!Runs, LockInv, TableTab, Base, ExecInv, ExecShape
  <2>4. CASE \E answer \in Replies : S!LazyBegin(answer) \/ S!RunStatement(answer)
    BY <2>1, <2>4
    DEF S!LazyBegin, S!RunStatement, S!Runs, LockInv, TableTab, Base, ExecInv, ExecShape
  <2>5. CASE S!set_automatic \/ \E answer \in Replies : S!commit(answer) \/ S!rollback(answer)
    <3>1. exec' = exec /\ command' = NoCommand
      BY <2>5
      DEF S!set_automatic, S!commit, S!rollback, S!NoCommand, NoCommand, S!EndTransaction,
          S!CallKeeps, S!ExecKeeps
    <3>. QED  BY <2>1, <3>1 DEF LockInv, NoCommand
  <2>6. CASE S!request_cancel_flag
    BY <2>1, <2>6 DEF S!request_cancel_flag, LockInv, TableTab, Base, ExecInv, ExecShape
  <2>. QED  BY <1>2, <1>3, <1>6, <2>2, <2>3, <2>4, <2>5, <2>6 DEF SqliteStep
<1>. QED  BY <1>4, <1>5, <1>6

\* The lock is kept.
LEMMA LockKept ==
  ASSUME Next, Base, LockInv
  PROVE  LockInv'
BY Splits, Lasting, SharedStepLocks, OwnStepsLock

(***************************************************************************)
(* Manual mode on the MySQL family.                                        *)
(***************************************************************************)
\* A write out of auto-commit joins the transaction.
LEMMA WriteWaits ==
  ASSUME engine \in MySqlFamily, Good(server), ~server.autocommit, engine' = engine,
         NEW f, NEW a, Ask("write", f, a)
  PROVE  server'.saved = server.saved
<1>. Known  BY DEF Known, MySqlFamily
<1>1. \A s \in Effect("write") : s.saved = server.saved
  BY DEF Effect, MySqlEffect, MySqlFamily, Written, Good, ServerType
<1>2. CASE server' \in Effect("write")  BY <1>1, <1>2
<1>3. CASE server' \in Refusals  BY <1>3, RefusalsGood
<1>4. CASE server' = Dropped  BY <1>4 DEF Dropped, Good, ServerType
<1>5. CASE \E s \in Effect("write") : server' = [Dropped EXCEPT !.saved = s.saved]
  BY <1>1, <1>5 DEF Dropped, Good, ServerType
<1>. QED  BY <1>2, <1>3, <1>4, <1>5, AskMoves

\* A step that leaves the mode as the adapter shows it.
LEMMA ModeKept ==
  ASSUME Base, ManualInv, Known, engine' = engine, script' = script,
         session'.automatic = session.automatic,
         \/ server' = server
         \/ server' = [server EXCEPT !.saved = {}]
         \/ \E kind, f, a : kind # "autocommit_on" /\ Ask(kind, f, a)
  PROVE  ManualInv'
<1>. Good(server)  BY DEF Base
<1>1. ~server.autocommit => ~server'.autocommit
  <2>1. CASE server' = [server EXCEPT !.saved = {}]  BY <2>1 DEF Good, ServerType
  <2>2. CASE \E kind, f, a : kind # "autocommit_on" /\ Ask(kind, f, a)  BY <2>2, AskKeeps
  <2>. QED  BY <2>1, <2>2
<1>. QED  BY <1>1 DEF ManualInv, MySqlFamily

\* The shown mode stays the server's, whichever call or statement sets it.
LEMMA ManualKept ==
  ASSUME Next, Base, ManualInv
  PROVE  ManualInv'
<1>. DEFINE Plain == \/ server' = server
                     \/ server' = [server EXCEPT !.saved = {}]
                     \/ \E kind, f, a : kind # "autocommit_on" /\ Ask(kind, f, a)
<1>1. engine' = engine /\ script' = script /\ Known /\ Good(server)
  BY Lasting DEF Base
<1>2. session \in SessionShape  BY DEF Base, CallInv
<1>3. CASE SharedStep
  <2>1. session'.automatic = session.automatic
    BY <1>2, <1>3
    DEF SharedStep, Acquire, PlanEnds, ClearActive, request_cancel, ControlFails,
        ControlConfirms, ExplainReports, RefuseStatement, Install, AskCommand,
        load_object_detail, browse_table, ping_if_idle, ExplainAsks,
        apply_table_mutations, StartBatch, ChangeRow, CommitBatch, LastRollback,
        rollback_mutations, Certain, SessionShape
  <2>2. Plain
    BY <1>3
    DEF SharedStep, Acquire, PlanEnds, ClearActive, request_cancel, ControlFails,
        ControlConfirms, ExplainReports, RefuseStatement, Install, AskCommand,
        load_object_detail, browse_table, ping_if_idle, ExplainAsks,
        apply_table_mutations, StartBatch, ChangeRow, CommitBatch, LastRollback,
        rollback_mutations, CallKeeps, serverVars
  <2>. QED  BY <1>1, <2>1, <2>2, ModeKept
<1>4. CASE ResultStreamStep
  <2>1. session' = session
    BY <1>4
    DEF ResultStreamStep, ReceiveRow, UnreadableRow, ResultDone, Acknowledged, LastResult,
        BatchRefused, PauseEnds, StatementRuns, StreamKeeps
  <2>2. "autocommit_on" \in script \/ exec.kind # "autocommit_on"
    BY DEF Base, ExecInv, ExecShape
  <2>3. CASE "autocommit_on" \in script  BY <1>1, <2>3 DEF ManualInv
  <2>4. CASE exec.kind # "autocommit_on"
    <3>1. Plain
      BY <1>4, <2>4
      DEF ResultStreamStep, ReceiveRow, UnreadableRow, ResultDone, Acknowledged, LastResult,
          BatchRefused, PauseEnds, StatementRuns
    <3>. QED  BY <1>1, <2>1, <3>1, ModeKept
  <2>. QED  BY <2>2, <2>3, <2>4
<1>5. CASE LocksConnection \/ Report("report") \/ M!StatementSettles
           \/ \E kind \in script : M!NextStatement(kind)
  <2>1. session'.automatic = session.automatic /\ server' = server
    BY <1>2, <1>5
    DEF LocksConnection, Report, M!StatementSettles, M!NextStatement, M!serverVars, serverVars,
        M!Certain, SessionShape
  <2>. QED  BY <1>1, <2>1, ModeKept
<1>6. CASE \E answer \in Replies : M!transaction_after_error(answer) \/ M!FinishExecution(answer)
  <2>1. session'.automatic = session.automatic
    BY <1>2, <1>6 DEF M!transaction_after_error, M!FinishExecution, M!Certain, SessionShape
  <2>2. \E a : Ask("inspect", FALSE, a)
    BY <1>6, MySqlShares DEF M!transaction_after_error, M!FinishExecution
  <2>. QED  BY <1>1, <2>1, <2>2, ModeKept
<1>7. ASSUME NEW answer \in Replies, M!ReconcileStatement(answer)  PROVE ManualInv'
  <2>1. Ask("inspect", FALSE, answer)  BY <1>7, MySqlShares DEF M!ReconcileStatement
  <2>2. CASE answer = "ok"
    <3>1. server' = server  BY <1>1, <2>1, <2>2, AskKeeps
    <3>2. session'.automatic = server.autocommit
      BY <1>2, <1>7, <2>2 DEF M!ReconcileStatement, SessionShape
    <3>. QED  BY <3>1, <3>2 DEF ManualInv
  <2>3. CASE answer # "ok"
    <3>1. session'.automatic = session.automatic
      BY <1>2, <1>7, <2>3 DEF M!ReconcileStatement, M!Certain, SessionShape
    <3>. QED  BY <1>1, <2>1, <3>1, ModeKept
  <2>. QED  BY <2>2, <2>3
<1>8. ASSUME NEW answer \in Replies, MySqlCall(answer)  PROVE ManualInv'
  <2>1. CASE M!InspectFirst(answer) \/ M!InspectAgain(answer)
    <3>1. session'.automatic = session.automatic
      BY <1>2, <2>1 DEF M!InspectFirst, M!InspectAgain, M!Certain, SessionShape
    <3>2. Ask("inspect", FALSE, answer)
      BY <2>1, MySqlShares DEF M!InspectFirst, M!InspectAgain
    <3>. QED  BY <1>1, <3>1, <3>2, ModeKept
  <2>2. CASE command.op \in {"commit", "rollback"} /\ M!EndTransaction(answer)
    <3>1. session'.automatic = session.automatic /\ Plain
      BY <1>2, <2>2, MySqlShares
      DEF M!EndTransaction, M!Certain, SessionShape
    <3>. QED  BY <1>1, <3>1, ModeKept
  <2>3. CASE command.op = "automatic" /\ M!SetAutocommit(answer)
    <3>1. Ask("autocommit_on", FALSE, answer)
      BY <2>3, MySqlShares DEF M!SetAutocommit
    <3>2. CASE answer = "ok"
      BY <1>2, <2>3, <3>2 DEF M!SetAutocommit, SessionShape, ManualInv
    <3>3. CASE answer # "ok"
      BY <1>1, <2>3, <3>1, <3>3, AskKeeps DEF M!SetAutocommit, ManualInv, MySqlFamily
    <3>. QED  BY <3>2, <3>3
  <2>4. CASE command.op = "manual" /\ M!SetAutocommit(answer)
    <3>1. Ask("autocommit_off", FALSE, answer)
      BY <2>4, MySqlShares DEF M!SetAutocommit
    <3>2. CASE answer = "ok"
      <4>1. server' \in Effect("autocommit_off")  BY <1>1, <3>1, <3>2, AskMoves
      <4>. QED  BY <1>1, <4>1, EffectModes DEF ManualInv, MySqlFamily
    <3>3. CASE answer # "ok"
      BY <1>1, <2>4, <3>1, <3>3, AskKeeps DEF M!SetAutocommit, ManualInv, MySqlFamily
    <3>. QED  BY <3>2, <3>3
  <2>. QED
    BY <1>8, <2>1, <2>2, <2>3, <2>4
    DEF MySqlCall, M!set_automatic, M!commit, M!rollback
<1>9. CASE engine \notin MySqlFamily  BY <1>1, <1>9 DEF ManualInv, MySqlFamily
<1>10. engine \in MySqlFamily => engine \notin {"postgres", "sqlite"}  BY DEF MySqlFamily
<1>. QED
  BY Splits, <1>3, <1>4, <1>5, <1>6, <1>7, <1>8, <1>9, <1>10 DEF MySqlStep

ModeInv == Base /\ CompletedResultIsWhole /\ LockInv /\ ManualInv

\* All of it holds throughout.
LEMMA ModeInvHolds == Spec => []ModeInv
<1>1. Init => ModeInv
  <2>. SUFFICES ASSUME Init PROVE ModeInv  OBVIOUS
  <2>1. ExecInv /\ CompletedResultIsWhole
    BY DEF Init, ExecInv, StreamInv, ExecShape, NoExec, NoTerminal, CompletedResultIsWhole
  <2>2. CallInv
    BY DEF Init, CallInv, SessionShape, Certainty
  <2>3. Good(server)
    BY DEF Init, Good, ServerType, FreshServer
  <2>4. LockInv /\ ManualInv
    BY DEF Init, LockInv, ManualInv, NoExec, NoCommand, FreshServer
  <2>. QED  BY <2>1, <2>2, <2>3, <2>4 DEF ModeInv, Base
<1>2. ModeInv /\ [Next]_vars => ModeInv'
  <2>1. CASE Next
    BY <2>1, BaseKept, ExecKept, LockKept, ManualKept DEF ModeInv, Base
  <2>2. CASE UNCHANGED vars
    BY <2>2
    DEF vars, serverVars, ModeInv, Base, ExecInv, StreamInv, ExecShape, Excused,
        CompletedResultIsWhole, CallInv, Commands, TableTab, Good, LockInv, ManualInv
  <2>. QED  BY <2>1, <2>2
<1>. QED  BY <1>1, <1>2, PTL DEF Spec

\* In manual mode a write waits for the commit: while it runs it has the
\* connection to itself, so no call can commit behind it, and the server is out
\* of auto-commit because the adapter showed the mode only once it was
\* (set_automatic and reconcile_transaction in mysql.rs).
THEOREM ManualWriteIsHeld == Spec => ManualWritesWait
<1>. DEFINE Writing == /\ engine \in MySqlFamily /\ exec.phase = "stream" /\ exec.kind = "write"
                       /\ ~session.automatic /\ "autocommit_on" \notin script
            Waits == Writing => server'.saved \subseteq server.saved
<1>1. ModeInv /\ [Next]_vars => Waits
  <2>. SUFFICES ASSUME ModeInv, [Next]_vars, Writing
                PROVE  server'.saved \subseteq server.saved
    OBVIOUS
  <2>1. Good(server) /\ ~server.autocommit
    BY DEF ModeInv, Base, ManualInv
  <2>2. exec.op = "execute" /\ command.step \in {"idle", "waiting"} /\ ~LockFree
    BY DEF ModeInv, LockInv, LockFree
  <2>3. CASE UNCHANGED vars  BY <2>3 DEF vars, serverVars
  <2>4. CASE Next /\ SharedStep
    <3>1. CASE \E op \in Operations : AskCommand(op)
      BY <2>1, <3>1 DEF AskCommand, Good, ServerType
    <3>2. server' = server \/ \E op \in Operations : AskCommand(op)
      BY <2>2, <2>4
      DEF SharedStep, Acquire, PlanEnds, ClearActive, request_cancel, ControlFails,
          ControlConfirms, ExplainReports, RefuseStatement, Install,
          load_object_detail, browse_table, ping_if_idle, ExplainAsks,
          apply_table_mutations, StartBatch, ChangeRow, CommitBatch, LastRollback,
          rollback_mutations, CommandIs, serverVars
    <3>. QED  BY <3>1, <3>2
  <2>5. CASE Next /\ ResultStreamStep
    <3>1. server' = server \/ \E answer : Ask("write", TRUE, answer)
      BY <2>5
      DEF ResultStreamStep, ReceiveRow, UnreadableRow, ResultDone, Acknowledged, LastResult,
          BatchRefused, PauseEnds, StatementRuns
    <3>. QED  BY <2>1, <2>5, <3>1, WriteWaits, Lasting
  <2>6. CASE MySqlStep /\ ~ResultStreamStep
    <3>1. server' = server
      BY <2>2, <2>6
      DEF MySqlStep, MySqlCall, LocksConnection, Report, Runs, M!StatementSettles, M!NextStatement,
          M!transaction_after_error, M!ReconcileStatement, M!FinishExecution, M!Runs,
          M!set_automatic, M!commit, M!rollback, M!InspectFirst, M!SetAutocommit,
          M!EndTransaction, M!InspectAgain, M!serverVars, serverVars
    <3>. QED  BY <3>1
  <2>7. engine \notin {"postgres", "sqlite"}  BY DEF MySqlFamily
  <2>. QED  BY Splits, <2>3, <2>4, <2>5, <2>6, <2>7
<1>. QED  BY <1>1, ModeInvHolds, PTL DEF ManualWritesWait, Spec

(***************************************************************************)
(* The calls of a table tab.                                               *)
(***************************************************************************)
\* What each of their statements does to a session in auto-commit mode.
LEMMA BatchEffects ==
  ASSUME Known, Good(server), server.autocommit, NEW s
  PROVE  /\ s \in Effect("begin") /\ server.tx = "none"
            => s.tx = "open" /\ s.dirty = {} /\ s.saved = server.saved
         /\ \A m \in {"m1", "m2"} :
              s \in Effect(m) /\ server.tx = "open"
              => s.tx = "open" /\ s.dirty = server.dirty \cup {m} /\ s.saved = server.saved
         /\ s \in Effect("commit") /\ server.tx = "open"
            => s.tx = "none" /\ s.dirty = {} /\ s.saved = server.saved \cup server.dirty
         /\ s \in Effect("rollback")
            => s.tx = "none" /\ s.dirty = {} /\ s.saved = server.saved
         /\ s \in Effect("read") => s = server
<1>1. s \in Effect("begin") /\ server.tx = "none"
      => s.tx = "open" /\ s.dirty = {} /\ s.saved = server.saved
  <2>1. s \in Effect("begin") /\ server.tx = "none"
        => s = Opened \/ s = [Ended(server.dirty) EXCEPT !.tx = "open"]
    BY DEF Known, Effect, PostgresEffect, SqliteEffect, MySqlEffect, Tags
  <2>2. server.tx = "none" => server.dirty = {}
    BY DEF Good
  <2>3. s = Opened /\ server.tx = "none"
        => s.tx = "open" /\ s.dirty = {} /\ s.saved = server.saved
    BY <2>2 DEF Opened, Good, ServerType
  <2>4. s = [Ended(server.dirty) EXCEPT !.tx = "open"] /\ server.tx = "none"
        => s.tx = "open" /\ s.dirty = {} /\ s.saved = server.saved
    BY <2>2 DEF Ended, Good, ServerType
  <2>. QED  BY <2>1, <2>3, <2>4
<1>2. ASSUME NEW m \in {"m1", "m2"}, s \in Effect(m), server.tx = "open"
      PROVE  s.tx = "open" /\ s.dirty = server.dirty \cup {m} /\ s.saved = server.saved
  <2>1. s = Written(m)
    BY <1>2 DEF Known, Effect, PostgresEffect, SqliteEffect, MySqlEffect, Tags
  <2>. QED  BY <1>2, <2>1 DEF Written, Good, ServerType
<1>3. s \in Effect("commit") /\ server.tx = "open"
      => s.tx = "none" /\ s.dirty = {} /\ s.saved = server.saved \cup server.dirty
  <2>1. s \in Effect("commit") /\ server.tx = "open" => s = Ended(server.dirty)
    BY DEF Known, Effect, PostgresEffect, SqliteEffect, MySqlEffect, Tags
  <2>. QED  BY <2>1 DEF Ended, Good, ServerType
<1>4. s \in Effect("rollback")
      => s.tx = "none" /\ s.dirty = {} /\ s.saved = server.saved
  <2>1. s \in Effect("rollback") => s = Ended({})
    BY DEF Known, Effect, PostgresEffect, SqliteEffect, MySqlEffect, Tags
  <2>2. Ended({}).saved = server.saved
    BY DEF Ended, Good, ServerType
  <2>. QED  BY <2>1, <2>2 DEF Ended, Good, ServerType
<1>5. s \in Effect("read") => s = server
  BY DEF Known, Effect, PostgresEffect, SqliteEffect, MySqlEffect, Tags
<1>. QED  BY <1>1, <1>2, <1>3, <1>4, <1>5

\* A round trip nobody can interrupt.
LEMMA QuietTrip ==
  ASSUME Known, Good(server), kills = {}, NEW kind, NEW f, NEW a, Ask(kind, f, a)
  PROVE  /\ kills' = {}
         /\ a = "ok" => server' \in Effect(kind)
         /\ a # "ok" => \/ server' \in Refusals
                        \/ /\ server'.tx = "none" /\ server'.dirty = {}
                           /\ server'.autocommit = server.autocommit
                           /\ \/ server'.saved = server.saved
                              \/ \E s \in Effect(kind) : server'.saved = s.saved
<1>1. \A s : /\ [Dropped EXCEPT !.saved = s.saved].tx = "none"
             /\ [Dropped EXCEPT !.saved = s.saved].dirty = {}
             /\ [Dropped EXCEPT !.saved = s.saved].saved = s.saved
             /\ [Dropped EXCEPT !.saved = s.saved].autocommit = server.autocommit
  BY DEF Dropped, Good, ServerType
<1>2. /\ Dropped.tx = "none" /\ Dropped.dirty = {} /\ Dropped.saved = server.saved
      /\ Dropped.autocommit = server.autocommit
  BY DEF Dropped, Good, ServerType
<1>. QED  BY <1>1, <1>2 DEF Ask

TableStep ==
  \/ \E op \in Operations : AskCommand(op)
  \/ LocksConnection
  \/ \E answer \in Replies :
       \/ load_object_detail(answer) \/ browse_table(answer) \/ ping_if_idle(answer)
       \/ StartBatch(answer) \/ CommitBatch(answer) \/ LastRollback(answer)
       \/ rollback_mutations(answer)
       \/ \E expected \in BOOLEAN : ChangeRow(answer, expected)

\* A table tab runs no script, so nothing else can happen on it.
LEMMA TableOnly ==
  ASSUME Next, Base, TableTab, TableInv
  PROVE  TableStep
<1>1. /\ exec.op = "none" /\ exec.phase = "idle" /\ script = {}
  BY DEF TableInv, NoExec, TableTab
<1>2. command.op \notin QueryCalls /\ command.step \notin QuerySteps \ TableSteps
  BY QueryCall DEF Base
<1>3. CASE SharedStep
  BY <1>1, <1>3
  DEF SharedStep, Acquire, PlanEnds, ClearActive, request_cancel, ControlFails,
      ControlConfirms, ExplainReports, Install, ExplainAsks, apply_table_mutations, Runs,
      TableInv, TableStep
<1>4. CASE ResultStreamStep
  BY <1>1, <1>4
  DEF ResultStreamStep, ReceiveRow, UnreadableRow, ResultDone, Acknowledged, LastResult,
      BatchRefused, PauseEnds, StatementRuns, Streaming
<1>5. CASE MySqlStep /\ ~ResultStreamStep
  BY <1>1, <1>2, <1>5
  DEF MySqlStep, MySqlCall, Report, Runs, M!StatementSettles, M!transaction_after_error,
      M!ReconcileStatement, M!FinishExecution, M!Runs, M!set_automatic, M!commit, M!rollback,
      QueryCalls, TableStep
<1>6. CASE PostgresStep /\ ~ResultStreamStep
  BY <1>1, <1>2, <1>6
  DEF PostgresStep, Report, Runs, P!StatementSettles, P!LazyBegin, P!Runs, P!NoTransaction,
      P!WantsConnection, P!set_automatic, P!commit, P!rollback, QueryCalls, TableStep
<1>7. CASE SqliteStep
  BY <1>1, <1>2, <1>7
  DEF SqliteStep, Report, Runs, S!StatementSettles, S!LazyBegin, S!RunStatement, S!Runs,
      S!request_cancel_flag, S!set_automatic, S!commit, S!rollback, QueryCalls, TableInv,
      TableStep
<1>. QED  BY Splits, <1>3, <1>4, <1>5, <1>6, <1>7

\* One call of a table tab after the other, step by step.
LEMMA TableKept ==
  ASSUME Next, Base, TableTab, TableInv
  PROVE  TableInv'
<1>1. engine' = engine /\ script' = script /\ Known /\ Good(server) /\ server.autocommit
      /\ kills = {} /\ session \in SessionShape /\ "user" \notin server.dirty
  BY Lasting DEF Base, TableInv, CallInv
<1>2. UNCHANGED <<exec, tail, slot>>
  BY TableOnly
  DEF TableStep, AskCommand, LocksConnection, load_object_detail, browse_table, ping_if_idle,
      StartBatch, CommitBatch, LastRollback, rollback_mutations, ChangeRow, CallKeeps, ExecKeeps
<1>3. \/ command = NoCommand
      \/ /\ command.op \in TableCalls /\ command.step \in TableSteps
         /\ command # NoCommand
  <2>1. NoCommand.op \notin TableCalls  BY DEF NoCommand, TableCalls
  <2>. QED  BY <2>1 DEF Base, CallInv, Commands, TableCommands
<1>4. ASSUME NEW op \in Operations, AskCommand(op)  PROVE TableInv'
  <2>1. /\ server'.tx = server.tx /\ server'.dirty = server.dirty /\ server'.saved = {}
        /\ server'.autocommit = server.autocommit
    BY <1>1, <1>4 DEF AskCommand, Good, ServerType
  <2>2. command' = [op |-> op, step |-> "waiting"] /\ reply' = "none" /\ kills' = kills
        /\ session' = session /\ command = NoCommand
        /\ (op = "apply" => session.certainty = "clean")
    BY <1>4 DEF AskCommand
  <2>3. command'.op = op /\ command'.step = "waiting" /\ command' # NoCommand
    BY <2>2 DEF NoCommand
  <2>. QED  BY <1>2, <2>1, <2>2, <2>3 DEF TableInv, Applying, NoCommand
<1>5. CASE LocksConnection
  <2>1. /\ command.step = "waiting" /\ UNCHANGED <<server, kills, session, reply>>
        /\ command' = [command EXCEPT !.step = IF command.op = "apply" THEN "begin" ELSE "describe"]
    BY <1>3, <1>5 DEF LocksConnection, Go, NoCommand, TableCalls, serverVars
  <2>2. command' # NoCommand /\ command'.op = command.op /\ command # NoCommand
        /\ command'.step = IF command.op = "apply" THEN "begin" ELSE "describe"
    BY <1>3, <2>1, CallShape DEF NoCommand, TableCalls, Base, CallInv, Commands, TableCommands
  <2>. QED  BY <1>2, <2>1, <2>2 DEF TableInv, Applying
<1>6. ASSUME NEW answer \in Replies,
             load_object_detail(answer) \/ browse_table(answer) \/ ping_if_idle(answer)
      PROVE  TableInv'
  <2>. DEFINE kind == IF ping_if_idle(answer) THEN "ping"
                      ELSE IF load_object_detail(answer) THEN "show" ELSE "read"
  <2>1. /\ kind \in {"ping", "show", "read"}
        /\ \E f : Ask(kind, f, answer)
    BY <1>6 DEF load_object_detail, browse_table, ping_if_idle
  <2>. HIDE DEF kind
  <2>2. kills' = {}  BY <1>1, <2>1, QuietTrip
  <2>3. \A s \in Effect(kind) : s = server  BY <1>1, <2>1, EffectAsks, BatchEffects
  <2>4. /\ server'.autocommit = server.autocommit /\ server'.saved = server.saved
        /\ server'.dirty = server.dirty \/ server'.dirty = {}
        /\ server.tx = "none" => server'.tx = "none"
    BY <1>1, <2>1, <2>3, QuietTrip, RefusalsGood
  <2>5. /\ UNCHANGED <<session, reply>>
        /\ ~Applying({"begin", "m1", "m2", "commit", "undo", "last"})
        /\ \/ command' = command
           \/ command' = NoCommand /\ command # NoCommand
           \/ /\ command' = [command EXCEPT !.step = "page"]
              /\ command.op = "browse"
    BY <1>3, <1>6
    DEF load_object_detail, browse_table, ping_if_idle, CallKeeps, CommandIs, LockFree, Go,
        Applying, NoCommand
  <2>6. CASE command' = command
    BY <1>2, <2>2, <2>4, <2>5, <2>6 DEF TableInv, Applying
  <2>7. CASE command' = NoCommand /\ command # NoCommand
    BY <1>2, <2>2, <2>4, <2>5, <2>7 DEF TableInv, Applying, NoCommand
  <2>8. CASE command' = [command EXCEPT !.step = "page"] /\ command.op = "browse"
    <3>1. command'.op = "browse" /\ command'.step = "page" /\ command' # NoCommand
          /\ command # NoCommand
      BY <1>3, <2>8, CallShape DEF NoCommand, Base, CallInv, Commands, TableCommands
    <3>. QED  BY <1>2, <2>2, <2>4, <2>5, <2>8, <3>1 DEF TableInv, Applying
  <2>. QED  BY <2>5, <2>6, <2>7, <2>8
<1>7. ASSUME NEW answer \in Replies, StartBatch(answer)  PROVE TableInv'
  <2>1. /\ Ask("begin", TRUE, answer) /\ command.op = "apply" /\ command.step = "begin"
        /\ UNCHANGED <<session, reply>>
    BY <1>7 DEF StartBatch, CommandIs, CallKeeps
  <2>0. Applying({"begin"}) /\ ~Applying({"last"}) /\ command # NoCommand
    BY <2>1 DEF Applying, NoCommand
  <2>2. /\ session.certainty = "clean" /\ server.tx = "none" /\ server.dirty = {}
        /\ server.saved = {} /\ reply = "none"
    BY <1>1, <2>0 DEF TableInv, Applying, Good
  <2>3. kills' = {}  BY <1>1, <2>1, QuietTrip
  <2>4. server'.autocommit  BY <1>1, <2>1, AskKeeps
  <2>5. CASE answer = "ok"
    <3>1. server'.tx = "open" /\ server'.dirty = {} /\ server'.saved = {}
      BY <1>1, <2>1, <2>2, <2>5, QuietTrip, BatchEffects
    <3>2. command'.op = "apply" /\ command'.step = "m1" /\ command' # NoCommand
      BY <1>7, <2>1, <2>0, <2>5, CallShape
      DEF StartBatch, Go, Applying, NoCommand, Base, CallInv, Commands, TableCommands
    <3>. QED  BY <1>2, <2>1, <2>2, <2>3, <2>4, <3>1, <3>2 DEF TableInv, Applying
  <2>6. CASE answer # "ok"
    <3>1. server'.tx = "none" /\ server'.dirty = {} /\ server'.saved = {}
      <4>1. \A s \in Effect("begin") : s.saved = {}  BY <1>1, <2>2, BatchEffects
      <4>2. CASE server' \in Refusals  BY <1>1, <2>2, <4>2, RefusalsGood
      <4>. QED  BY <1>1, <2>1, <2>2, <2>6, <4>1, <4>2, QuietTrip
    <3>2. command' = NoCommand
      BY <1>7, <2>6 DEF StartBatch
    <3>. QED  BY <1>2, <2>1, <2>2, <2>3, <2>4, <3>1, <3>2 DEF TableInv, Applying, NoCommand
  <2>. QED  BY <2>5, <2>6
<1>8. ASSUME NEW answer \in Replies, NEW expected \in BOOLEAN, ChangeRow(answer, expected)
      PROVE  TableInv'
  <2>. DEFINE m == command.step
              next == IF answer = "ok" /\ expected
                      THEN IF m = "m1" THEN "m2" ELSE "commit"
                      ELSE "undo"
  <2>1. /\ Ask(m, TRUE, answer) /\ command.op = "apply" /\ m \in {"m1", "m2"}
        /\ command' = [command EXCEPT !.step = next]
        /\ UNCHANGED <<session, reply>>
    BY <1>8 DEF ChangeRow, CallKeeps, Go
  <2>2. Applying({m}) /\ ~Applying({"last"}) /\ command # NoCommand
    BY <2>1 DEF Applying, NoCommand
  <2>3. /\ server.tx = "open" /\ server.dirty = (IF m = "m1" THEN {} ELSE {"m1"})
        /\ server.saved = {} /\ reply = "none"
    BY <2>1, <2>2 DEF TableInv, Applying
  <2>4. kills' = {}  BY <1>1, <2>1, QuietTrip
  <2>5. server'.autocommit  BY <1>1, <2>1, AskKeeps
  <2>6. \A s \in Effect(m) : /\ s.tx = "open" /\ s.saved = {}
                             /\ s.dirty = server.dirty \cup {m}
    BY <1>1, <2>1, <2>3, BatchEffects
  <2>7. command'.op = "apply" /\ command'.step = next /\ command' # NoCommand
    BY <2>1, <2>2, CallShape
    DEF NoCommand, Base, CallInv, Commands, TableCommands
  <2>8. CASE answer = "ok"
    <3>1. server'.tx = "open" /\ server'.saved = {} /\ server'.dirty = server.dirty \cup {m}
      BY <1>1, <2>1, <2>6, <2>8, QuietTrip
    <3>2. next \in {"m2", "commit", "undo"} /\ (next = "m2" => m = "m1")
          /\ (next = "commit" => m = "m2")
      BY <2>1
    <3>3. /\ "user" \notin server'.dirty
          /\ next = "m2" => server'.dirty = {"m1"}
          /\ next = "commit" => server'.dirty = {"m1", "m2"}
      BY <2>1, <2>3, <3>1, <3>2
    <3>. HIDE DEF m, next
    <3>. QED  BY <1>2, <2>1, <2>3, <2>4, <2>5, <2>7, <3>1, <3>2, <3>3 DEF TableInv, Applying
  <2>9. CASE answer # "ok"
    <3>1. server'.saved = {} /\ "user" \notin server'.dirty
      <4>1. CASE server' \in Refusals  BY <1>1, <2>3, <4>1, RefusalsGood
      <4>. QED  BY <1>1, <2>1, <2>6, <2>3, <2>9, <4>1, QuietTrip
    <3>2. next = "undo"  BY <2>9
    <3>. HIDE DEF m, next
    <3>. QED  BY <1>2, <2>1, <2>3, <2>4, <2>5, <2>7, <3>1, <3>2 DEF TableInv, Applying
  <2>. QED  BY <2>8, <2>9
<1>9. ASSUME NEW answer \in Replies, CommitBatch(answer)  PROVE TableInv'
  <2>1. /\ Ask("commit", TRUE, answer) /\ command.op = "apply" /\ command.step = "commit"
    BY <1>9 DEF CommitBatch, CommandIs
  <2>2. Applying({"commit"}) /\ ~Applying({"last"}) /\ command # NoCommand
    BY <2>1 DEF Applying, NoCommand
  <2>3. /\ server.tx = "open" /\ server.dirty = {"m1", "m2"}
        /\ server.saved = {} /\ reply = "none"
    BY <2>2 DEF TableInv, Applying
  <2>4. kills' = {}  BY <1>1, <2>1, QuietTrip
  <2>5. server'.autocommit  BY <1>1, <2>1, AskKeeps
  <2>6. \A s \in Effect("commit") : s.tx = "none" /\ s.saved = {"m1", "m2"} /\ s.dirty = {}
    BY <1>1, <2>3, BatchEffects
  <2>7. CASE answer = "ok"
    <3>1. server'.tx = "none" /\ server'.saved = {"m1", "m2"} /\ server'.dirty = {}
      BY <1>1, <2>1, <2>6, <2>7, QuietTrip
    <3>2. command' = NoCommand /\ reply' = "applied" /\ session' = session
      BY <1>9, <2>7 DEF CommitBatch
    <3>. QED  BY <1>2, <2>4, <2>5, <3>1, <3>2 DEF TableInv, Applying, NoCommand
  <2>8. CASE answer # "ok"
    <3>1. server'.saved \in {{}, {"m1", "m2"}} /\ "user" \notin server'.dirty
      <4>1. CASE server' \in Refusals  BY <1>1, <2>3, <4>1, RefusalsGood
      <4>. QED  BY <1>1, <2>1, <2>6, <2>3, <2>8, <4>1, QuietTrip
    <3>2. command' = [command EXCEPT !.step = "last"] /\ reply' = reply
          /\ session' = [session EXCEPT !.certainty = "unknown"]
      BY <1>9, <2>8 DEF CommitBatch, Go, Certain
    <3>3. /\ command'.op = "apply" /\ command'.step = "last" /\ command' # NoCommand
          /\ session'.certainty = "unknown"
      BY <1>1, <2>1, <2>2, <3>2, CallShape
      DEF NoCommand, Base, CallInv, Commands, TableCommands, SessionShape
    <3>. QED  BY <1>2, <2>3, <2>4, <2>5, <3>1, <3>2, <3>3 DEF TableInv, Applying
  <2>. QED  BY <2>7, <2>8
<1>10. ASSUME NEW answer \in Replies, LastRollback(answer)  PROVE TableInv'
  <2>1. /\ Ask("rollback", FALSE, answer) /\ command.op = "apply" /\ command.step = "last"
        /\ command' = NoCommand /\ reply' = "unconfirmed" /\ session' = session
    BY <1>10 DEF LastRollback, CommandIs
  <2>2. Applying({"last"})  BY <2>1 DEF Applying
  <2>3. session.certainty = "unknown" /\ server.saved \in {{}, {"m1", "m2"}}
    BY <2>2 DEF TableInv
  <2>4. kills' = {}  BY <1>1, <2>1, QuietTrip
  <2>0. Ask("rollback", FALSE, answer)  BY <2>1
  <2>5. server'.autocommit  BY <1>1, <2>0, AskKeeps
  <2>6. "user" \notin server'.dirty  BY <1>1, <2>0, AskUser
  <2>7. server'.saved = server.saved
    <3>1. \A s \in Effect("rollback") : s.saved = server.saved  BY <1>1, BatchEffects
    <3>2. CASE server' \in Refusals  BY <1>1, <3>2, RefusalsGood
    <3>. QED  BY <1>1, <2>1, <3>1, <3>2, QuietTrip
  <2>. QED  BY <1>2, <2>1, <2>3, <2>4, <2>5, <2>6, <2>7 DEF TableInv, Applying, NoCommand
<1>11. ASSUME NEW answer \in Replies, rollback_mutations(answer)  PROVE TableInv'
  <2>1. /\ Ask("rollback", FALSE, answer) /\ command.op = "apply" /\ command.step = "undo"
        /\ command' = NoCommand
    BY <1>11 DEF rollback_mutations, CommandIs
  <2>2. ~Applying({"last"}) /\ command # NoCommand  BY <2>1 DEF Applying, NoCommand
  <2>3. server.saved = {}  BY <2>2 DEF TableInv
  <2>4. kills' = {}  BY <1>1, <2>1, QuietTrip
  <2>0. Ask("rollback", FALSE, answer)  BY <2>1
  <2>5. server'.autocommit  BY <1>1, <2>0, AskKeeps
  <2>6. "user" \notin server'.dirty  BY <1>1, <2>0, AskUser
  <2>7. server'.saved = {}
    <3>1. \A s \in Effect("rollback") : s.saved = server.saved  BY <1>1, BatchEffects
    <3>2. CASE server' \in Refusals  BY <1>1, <2>3, <3>2, RefusalsGood
    <3>. QED  BY <1>1, <2>1, <2>3, <3>1, <3>2, QuietTrip
  <2>8. CASE answer = "ok"
    <3>1. server'.tx = "none" /\ server'.dirty = {}
      BY <1>1, <2>1, <2>8, QuietTrip, BatchEffects
    <3>2. reply' = "rolled back" /\ session' = session
      BY <1>11, <2>8 DEF rollback_mutations
    <3>. QED
      BY <1>2, <2>1, <2>4, <2>5, <2>6, <2>7, <3>1, <3>2
      DEF TableInv, Applying, NoCommand
  <2>9. CASE answer # "ok"
    <3>1. reply' = "unconfirmed" /\ session'.certainty = "unknown"
      BY <1>1, <1>11, <2>9 DEF rollback_mutations, Certain, SessionShape
    <3>. QED  BY <1>2, <2>1, <2>4, <2>5, <2>6, <2>7, <3>1 DEF TableInv, Applying, NoCommand
  <2>. QED  BY <2>8, <2>9
<1>. QED
  BY TableOnly, <1>4, <1>5, <1>6, <1>7, <1>8, <1>9, <1>10, <1>11 DEF TableStep

\* A query tab's calls answer nothing of a batch.
LEMMA QueryReplies ==
  ASSUME Next, Base, ~TableTab, reply \in {"none", "unanswered"}
  PROVE  reply' \in {"none", "unanswered"}
<1>1. command.op \notin TableCalls  BY TableCall DEF Base
<1>2. CASE SharedStep
  BY <1>1, <1>2
  DEF SharedStep, Acquire, PlanEnds, ClearActive, request_cancel, ControlFails,
      ControlConfirms, ExplainReports, RefuseStatement, Install, AskCommand,
      load_object_detail, browse_table, ping_if_idle, ExplainAsks,
      apply_table_mutations, StartBatch, ChangeRow, CommitBatch, LastRollback,
      rollback_mutations, CallKeeps, CommandIs, TableCalls
<1>3. CASE ResultStreamStep
  BY <1>3
  DEF ResultStreamStep, ReceiveRow, UnreadableRow, ResultDone, Acknowledged, LastResult,
      BatchRefused, PauseEnds, StatementRuns, StreamKeeps
<1>4. CASE MySqlStep /\ ~ResultStreamStep
  BY <1>4
  DEF MySqlStep, MySqlCall, LocksConnection, Report, M!StatementSettles, M!NextStatement,
      M!transaction_after_error, M!ReconcileStatement, M!FinishExecution, M!set_automatic,
      M!commit, M!rollback, M!InspectFirst, M!SetAutocommit, M!EndTransaction,
      M!InspectAgain, M!CallAnswers
<1>5. CASE PostgresStep /\ ~ResultStreamStep
  BY <1>5
  DEF PostgresStep, LocksConnection, Report, P!StatementSettles, P!NextStatement, P!LazyBegin,
      P!NoTransaction, P!WantsConnection, P!set_automatic, P!commit, P!rollback,
      P!EndTransaction, P!CallKeeps
<1>6. CASE SqliteStep
  BY <1>6
  DEF SqliteStep, LocksConnection, Report, S!StatementSettles, S!NextStatement, S!LazyBegin,
      S!RunStatement, S!request_cancel_flag, S!set_automatic, S!commit, S!rollback,
      S!EndTransaction, S!CallKeeps
<1>. QED  BY Splits, <1>2, <1>3, <1>4, <1>5, <1>6

\* Either kind of tab keeps what its calls answer.
LEMMA BatchKept ==
  ASSUME Next, Base, BatchInv
  PROVE  BatchInv'
<1>1. TableTab' <=> TableTab  BY Lasting DEF TableTab
<1>2. CASE TableTab  BY <1>1, <1>2, TableKept DEF BatchInv
<1>3. CASE ~TableTab  BY <1>1, <1>3, QueryReplies DEF BatchInv
<1>. QED  BY <1>2, <1>3

AtomicInv == ModeInv /\ BatchInv

\* So batches are accounted for throughout.
LEMMA AtomicInvHolds == Spec => []AtomicInv
<1>1. Init => BatchInv
  <2>. SUFFICES ASSUME Init PROVE BatchInv  OBVIOUS
  <2>1. command.op = "none" /\ command = NoCommand  BY DEF Init, NoCommand
  <2>2. /\ server.tx = "none" /\ server.dirty = {} /\ server.saved = {} /\ server.autocommit
    BY DEF Init, FreshServer
  <2>. QED  BY <2>1, <2>2 DEF Init, BatchInv, TableInv, Applying
<1>2. Base /\ BatchInv /\ [Next]_vars => BatchInv'
  <2>1. CASE UNCHANGED vars
    BY <2>1 DEF vars, serverVars, BatchInv, TableInv, Applying, TableTab
  <2>. QED  BY <2>1, BatchKept
<1>3. ModeInv => Base  BY DEF ModeInv
<1>. QED  BY <1>1, <1>2, <1>3, ModeInvHolds, PTL DEF AtomicInv, Spec

\* A staged batch is saved as a whole or not at all and is answered for what it
\* was, whatever statement of it fails and wherever the connection is lost; one
\* whose fate is unknown bars the next (apply_table_mutations in the adapters).
THEOREM BatchesAreAtomic == Spec => []BatchIsAtomic
<1>1. AtomicInv => BatchIsAtomic
  BY DEF AtomicInv, BatchInv, TableInv, BatchIsAtomic
<1>. QED  BY <1>1, AtomicInvHolds, PTL

(***************************************************************************)
(* What a query tab knows of its transaction.                              *)
(***************************************************************************)
\* A dropped connection does not come back.
LEMMA AskUp ==
  ASSUME Good(server), NEW kind, NEW f, NEW a, Ask(kind, f, a), server'.up
  PROVE  server.up
BY DEF Ask, Dropped, Good, ServerType

\* A server that says it has no open transaction holds no write of one.
LEMMA AskedIsClean ==
  ASSUME engine = "mysql", Known, Good(server), engine' = engine, NEW a,
         Ask("inspect", FALSE, a), a = "ok", M!reconcile_transaction = "clean"
  PROVE  "user" \notin server'.dirty
<1>1. server' = server  BY AskKeeps
<1>2. server.tx = "none"
  BY DEF M!reconcile_transaction, M!transaction_variable_available, Good, ServerType
<1>. QED  BY <1>1, <1>2 DEF Good

\* On a MySQL query tab, what is shared asks nothing that writes, and ends
\* nothing that was not accounted for.
LEMMA SharedStepAsks ==
  ASSUME Base, AskedInv, Known, engine' = engine, script' = script,
         engine = "mysql", ~TableTab, SharedStep
  PROVE  AskedInv'
<1>1. command.op \notin TableCalls /\ command.step \notin TableSteps \ QuerySteps
  BY TableCall DEF Base
<1>2. Good(server) /\ exec \in ExecShape  BY DEF Base, ExecInv
<1>3. TableTab' <=> TableTab  BY DEF TableTab
<1>4. CASE \E op \in Operations : AskCommand(op)
  <2>1. command' # NoCommand  BY <1>4 DEF AskCommand, NoCommand
  <2>. QED  BY <2>1 DEF AskedInv
<1>5. CASE \E answer \in Replies : ping_if_idle(answer)
  <2>1. PICK answer \in Replies : ping_if_idle(answer)  BY <1>5
  <2>2. Ask("ping", FALSE, answer) /\ UNCHANGED <<command, reply, exec, session>>
    BY <2>1 DEF ping_if_idle, CallKeeps, ExecKeeps
  <2>3. "user" \notin server.dirty => "user" \notin server'.dirty  BY <1>2, <2>2, AskKeeps
  <2>4. server'.up => server.up  BY <1>2, <2>2, AskUp
  <2>. QED  BY <1>3, <2>2, <2>3, <2>4 DEF AskedInv
<1>6. CASE \E answer \in Replies : ExplainAsks(answer)
  <2>1. PICK answer \in Replies : ExplainAsks(answer)  BY <1>6
  <2>2. /\ Ask("show", TRUE, answer) /\ UNCHANGED <<command, reply, session>>
        /\ exec.op = "explain"
    BY <2>1 DEF ExplainAsks
  <2>3. "user" \notin server.dirty => "user" \notin server'.dirty  BY <1>2, <2>2, AskKeeps
  <2>4. server'.up => server.up  BY <1>2, <2>2, AskUp
  <2>. QED  BY <1>3, <2>2, <2>3, <2>4 DEF AskedInv
<1>7. CASE PlanEnds
  <2>1. exec'.op = "execute" /\ exec'.phase = "finish"
    BY <1>2, <1>7 DEF PlanEnds, Runs, ExecShape
  <2>. QED  BY <2>1 DEF AskedInv
<1>8. CASE Acquire \/ ClearActive \/ request_cancel \/ ControlFails \/ ControlConfirms
           \/ ExplainReports \/ (\E kind \in script : RefuseStatement(kind))
           \/ \E op \in {"execute", "explain"} : Install(op)
  <2>1. UNCHANGED <<server, session, command, reply>>
    BY <1>8
    DEF Acquire, ClearActive, request_cancel, ControlFails, ControlConfirms, ExplainReports,
        RefuseStatement, Install, serverVars
  <2>2. exec.op = "execute" => \/ exec.phase \in {"queued", "statement"}
                               \/ exec'.op = exec.op /\ exec'.phase = exec.phase
    <3>1. CASE Acquire \/ \E kind \in script : RefuseStatement(kind)
      BY <3>1 DEF Acquire, RefuseStatement, Runs
    <3>2. CASE ExplainReports \/ \E op \in {"execute", "explain"} : Install(op)
      BY <3>2 DEF ExplainReports, Install, NoExec
    <3>3. CASE ClearActive \/ ControlFails
      BY <3>3 DEF ClearActive, ControlFails
    <3>4. CASE request_cancel
      BY <1>2, <3>4 DEF request_cancel, ExecShape
    <3>5. CASE ControlConfirms
      BY <1>2, <3>5 DEF ControlConfirms, ExecShape
    <3>. QED  BY <1>8, <3>1, <3>2, <3>3, <3>4, <3>5
  <2>. QED  BY <1>3, <2>1, <2>2 DEF AskedInv
<1>. QED
  BY <1>1, <1>4, <1>5, <1>6, <1>7, <1>8
  DEF SharedStep, load_object_detail, browse_table, apply_table_mutations, StartBatch,
      ChangeRow, CommitBatch, LastRollback, rollback_mutations, CommandIs, TableCalls,
      TableSteps, QuerySteps

\* The adapter's own steps leave a clean certainty only where the server said so.
LEMMA OwnStepsAsk ==
  ASSUME Base, LockInv, AskedInv, Known, engine' = engine, script' = script,
         engine = "mysql", ~TableTab, MySqlStep
  PROVE  AskedInv'
<1>1. Good(server) /\ exec \in ExecShape /\ session \in SessionShape
  BY DEF Base, ExecInv, CallInv
<1>2. TableTab' <=> TableTab  BY DEF TableTab
<1>3. CASE ResultStreamStep
  BY <1>3, StreamHolds DEF AskedInv
<1>4. \A step : /\ command.step \in {"waiting", "act"} /\ command' = [command EXCEPT !.step = step]
                /\ step # "idle"
                => command' # NoCommand
  <2>1. command.step \in {"waiting", "act"} => command \in Commands
    BY DEF Base, CallInv, NoCommand
  <2>. QED  BY <2>1 DEF Commands, TableCommands, QueryCommands, NoCommand
<1>5. CASE LocksConnection
  <2>1. \E step \in {"begin", "describe", "first"} : command' = [command EXCEPT !.step = step]
    BY <1>5 DEF LocksConnection, Go
  <2>2. command' # NoCommand  BY <1>4, <1>5, <2>1 DEF LocksConnection
  <2>. QED  BY <2>2 DEF AskedInv
<1>6. CASE Report("report")
  <2>1. UNCHANGED <<server, session, command, reply>> /\ exec.phase = "report"
    BY <1>6 DEF Report, Runs
  <2>. QED  BY <1>2, <2>1 DEF AskedInv
<1>7. CASE M!StatementSettles \/ \E kind \in script : M!NextStatement(kind)
  <2>1. exec'.op = "execute" /\ exec'.phase \in {"finish", "reconcile", "stream"}
    BY <1>1, <1>7 DEF M!StatementSettles, M!NextStatement, M!Runs, ExecShape
  <2>. QED  BY <2>1 DEF AskedInv
<1>8. ASSUME NEW answer \in Replies,
             M!transaction_after_error(answer) \/ M!ReconcileStatement(answer)
             \/ M!FinishExecution(answer)
      PROVE  AskedInv'
  <2>1. Ask("inspect", FALSE, answer)
    BY <1>8, MySqlShares
    DEF M!transaction_after_error, M!ReconcileStatement, M!FinishExecution
  <2>2. session'.certainty = IF answer = "ok" THEN M!reconcile_transaction ELSE "unknown"
    BY <1>1, <1>8
    DEF M!transaction_after_error, M!ReconcileStatement, M!FinishExecution, M!Certain,
        SessionShape
  <2>3. session'.certainty = "clean" => "user" \notin server'.dirty
    BY <1>1, <2>1, <2>2, AskedIsClean
  <2>. QED  BY <2>3 DEF AskedInv
<1>9. ASSUME NEW answer \in Replies, MySqlCall(answer)
      PROVE  AskedInv'
  <2>1. reply' = IF answer = "ok" THEN reply ELSE "unanswered"
    BY <1>9
    DEF MySqlCall, M!set_automatic, M!commit, M!rollback, M!InspectFirst, M!SetAutocommit,
        M!EndTransaction, M!InspectAgain, M!CallAnswers
  <2>2. CASE answer # "ok"  BY <2>1, <2>2 DEF AskedInv
  <2>3. CASE answer = "ok" /\ (M!InspectFirst(answer) \/ M!InspectAgain(answer))
    <3>1. Ask("inspect", FALSE, answer)
      BY <2>3, MySqlShares DEF M!InspectFirst, M!InspectAgain
    <3>2. session'.certainty = M!reconcile_transaction
      BY <1>1, <2>3 DEF M!InspectFirst, M!InspectAgain, M!Certain, SessionShape
    <3>3. session'.certainty = "clean" => "user" \notin server'.dirty
      BY <1>1, <2>3, <3>1, <3>2, AskedIsClean
    <3>. QED  BY <3>3 DEF AskedInv
  <2>4. CASE answer = "ok" /\ (M!SetAutocommit(answer) \/ M!EndTransaction(answer))
    <3>1. command' = [command EXCEPT !.step = "inspect again"] /\ command.step = "act"
      BY <2>4 DEF M!SetAutocommit, M!EndTransaction, M!Go
    <3>2. command' # NoCommand  BY <1>4, <3>1
    <3>. QED  BY <3>2 DEF AskedInv
  <2>. QED
    BY <1>9, <2>2, <2>3, <2>4 DEF MySqlCall, M!set_automatic, M!commit, M!rollback
<1>. QED  BY <1>3, <1>5, <1>6, <1>7, <1>8, <1>9 DEF MySqlStep

\* Where the server is asked, a clean session holds nothing of the user's.
LEMMA AskedKept ==
  ASSUME Next, Base, LockInv, AskedInv
  PROVE  AskedInv'
<1>1. engine' = engine /\ script' = script /\ Known  BY Lasting
<1>2. CASE engine = "mysql" /\ ~TableTab
  <2>1. SharedStep \/ MySqlStep  BY <1>2, Splits DEF MySqlFamily
  <2>. QED  BY <1>1, <1>2, <2>1, SharedStepAsks, OwnStepsAsk
<1>3. CASE ~(engine = "mysql" /\ ~TableTab)
  BY <1>1, <1>3 DEF AskedInv, TableTab
<1>. QED  BY <1>2, <1>3

\* On SQLite, what is not handwritten opens no transaction, and a commit or a
\* rollback that completes ends it.
LEMMA LedgerTrip ==
  ASSUME engine = "sqlite", Known, Good(server), NEW kind, kind \notin Handwritten,
         NEW f, NEW a, Ask(kind, f, a)
  PROVE  /\ server.tx = "none" => server'.tx = "none"
         /\ a = "ok" /\ kind \in {"commit", "rollback"} => server'.tx = "none"
<1>1. server.autocommit  BY DEF Good, MySqlFamily
<1>2. ASSUME NEW s \in Effect(kind)
      PROVE  /\ server.tx = "none" => s.tx = "none"
             /\ kind \in {"commit", "rollback"} => s.tx = "none"
  <2>1. s \in SqliteEffect(kind)  BY DEF Effect
  <2>2. \A kept : Ended(kept).tx = "none"  BY DEF Ended, Good, ServerType
  <2>3. \A tag : server.tx = "none" => Written(tag).tx = "none"
    BY <1>1 DEF Written, Good, ServerType
  <2>4. kind \in {"commit", "rollback"} => s.tx = "none"
    BY <2>1, <2>2 DEF SqliteEffect, Tags
  <2>5. kind \in Tags \cup {"write", "ddl"} => s = Written(kind) \/ s = Written("user")
    BY <2>1 DEF SqliteEffect, Tags
  <2>6. kind \notin Tags \cup {"write", "ddl", "commit", "rollback"} => s = server
    BY <2>1 DEF SqliteEffect, Tags, Handwritten
  <2>. QED  BY <2>3, <2>4, <2>5, <2>6
<1>3. CASE server' \in Effect(kind)  BY <1>2, <1>3
<1>4. CASE server' \in Refusals /\ a # "ok"  BY <1>1, <1>4, RefusalsGood
<1>. QED  BY <1>3, <1>4, AskMoves

\* A step that makes no session clean and no commit complete.
LEMMA LedgerStays ==
  ASSUME LedgerInv, engine' = engine, script' = script,
         server.tx = "none" => server'.tx = "none",
         session'.certainty = "clean" => session.certainty = "clean",
         \/ exec'.phase # "settle"
         \/ exec'.cancel
         \/ UNCHANGED <<exec.phase, exec.error, exec.cancel, exec.kind>>
  PROVE  LedgerInv'
BY DEF LedgerInv, TableTab

\* The shared steps keep the ledger.
LEMMA SharedStepLedger ==
  ASSUME Base, LedgerInv, Known, engine' = engine, script' = script,
         engine = "sqlite", ~TableTab, SharedStep
  PROVE  LedgerInv'
<1>1. command.op \notin TableCalls /\ command.step \notin TableSteps \ QuerySteps
  BY TableCall DEF Base
<1>2. Good(server) /\ exec \in ExecShape  BY DEF Base, ExecInv
<1>3. "ping" \notin Handwritten /\ "show" \notin Handwritten  BY DEF Handwritten
<1>4. CASE \E op \in Operations : AskCommand(op)
  <2>1. server'.tx = server.tx /\ session' = session /\ exec' = exec
    BY <1>2, <1>4 DEF AskCommand, ExecKeeps, Good, ServerType
  <2>. QED  BY <2>1, LedgerStays
<1>5. CASE \E answer \in Replies : ping_if_idle(answer)
  <2>1. PICK answer \in Replies : Ask("ping", FALSE, answer) /\ UNCHANGED <<session, exec>>
    BY <1>5 DEF ping_if_idle, CallKeeps, ExecKeeps
  <2>2. server.tx = "none" => server'.tx = "none"  BY <1>2, <1>3, <2>1, LedgerTrip
  <2>. QED  BY <2>1, <2>2, LedgerStays
<1>6. CASE \E answer \in Replies : ExplainAsks(answer)
  <2>1. PICK answer \in Replies : ExplainAsks(answer)  BY <1>6
  <2>2. Ask("show", TRUE, answer) /\ session' = session /\ exec'.phase = "report"
    BY <1>2, <2>1 DEF ExplainAsks, ExecShape
  <2>3. server.tx = "none" => server'.tx = "none"  BY <1>2, <1>3, <2>2, LedgerTrip
  <2>. QED  BY <2>2, <2>3, LedgerStays
<1>7. CASE Acquire \/ PlanEnds \/ ClearActive \/ request_cancel \/ ControlFails \/ ControlConfirms
           \/ ExplainReports \/ (\E kind \in script : RefuseStatement(kind))
           \/ \E op \in {"execute", "explain"} : Install(op)
  <2>1. server' = server /\ session' = session
    BY <1>7
    DEF Acquire, PlanEnds, ClearActive, request_cancel, ControlFails, ControlConfirms,
        ExplainReports, RefuseStatement, Install, serverVars
  <2>2. CASE Acquire \/ PlanEnds
    <3>1. exec'.phase \in {"statement", "finish"}
      BY <1>2, <2>2 DEF Acquire, PlanEnds, ExecShape
    <3>. QED  BY <2>1, <3>1, LedgerStays
  <2>3. CASE ExplainReports \/ (\E kind \in script : RefuseStatement(kind))
             \/ \E op \in {"execute", "explain"} : Install(op)
    <3>1. exec'.phase \in {"idle", "queued"}
      <4>1. CASE ExplainReports \/ \E kind \in script : RefuseStatement(kind)
        BY <4>1 DEF ExplainReports, RefuseStatement, Terminate, NoExec
      <4>2. CASE \E op \in {"execute", "explain"} : Install(op)
        BY <4>2 DEF Install, NoExec
      <4>. QED  BY <2>3, <4>1, <4>2
    <3>. QED  BY <2>1, <3>1, LedgerStays
  <2>4. CASE ClearActive \/ ControlFails
    <3>1. exec' = exec  BY <2>4 DEF ClearActive, ControlFails
    <3>. QED  BY <2>1, <3>1, LedgerStays
  <2>5. CASE request_cancel
    <3>1. exec'.cancel \/ exec' = exec  BY <1>2, <2>5 DEF request_cancel, ExecShape
    <3>. QED  BY <2>1, <3>1, LedgerStays
  <2>6. CASE ControlConfirms
    <3>1. UNCHANGED <<exec.phase, exec.error, exec.cancel, exec.kind>>
      BY <1>2, <2>6 DEF ControlConfirms, ExecShape
    <3>. QED  BY <2>1, <3>1, LedgerStays
  <2>. QED  BY <1>7, <2>2, <2>3, <2>4, <2>5, <2>6
<1>. QED
  BY <1>1, <1>4, <1>5, <1>6, <1>7
  DEF SharedStep, load_object_detail, browse_table, apply_table_mutations, StartBatch,
      ChangeRow, CommitBatch, LastRollback, rollback_mutations, CommandIs, TableCalls,
      TableSteps, QuerySteps

\* So do SQLite's own: each statement is entered before the next begins.
LEMMA OwnStepsLedger ==
  ASSUME Base, LedgerInv, Known, engine' = engine, script' = script,
         engine = "sqlite", ~TableTab, SqliteStep
  PROVE  LedgerInv'
<1>. SUFFICES ASSUME script \cap Handwritten = {}  PROVE LedgerInv'
  BY DEF LedgerInv
<1>1. Good(server) /\ exec \in ExecShape /\ session \in SessionShape
  BY DEF Base, ExecInv, CallInv
<1>2. exec.kind \notin Handwritten  BY <1>1 DEF ExecShape, Handwritten
<1>3. TableTab' <=> TableTab  BY DEF TableTab
<1>4. CASE LocksConnection /\ TableTab  BY <1>4
<1>5. CASE Report("report") \/ Report("finish")
  <2>1. server' = server /\ session' = session /\ exec'.phase = "idle"
    BY <1>5 DEF Report, Terminate, NoExec
  <2>. QED  BY <2>1, LedgerStays
<1>6. CASE \E kind \in script : S!NextStatement(kind)
  <2>1. server' = server /\ session' = session /\ exec'.phase \in {"begin", "stream"}
    BY <1>1, <1>6 DEF S!NextStatement, S!serverVars, ExecShape
  <2>. QED  BY <2>1, LedgerStays
<1>7. CASE S!StatementSettles
  <2>1. server' = server /\ exec'.phase # "settle" /\ exec.phase = "settle"
    BY <1>1, <1>7 DEF S!StatementSettles, S!serverVars, S!Runs, ExecShape
  <2>2. session'.certainty =
          IF exec.error THEN S!mark_unknown_if_active
          ELSE IF exec.cancel THEN session.certainty
          ELSE S!reconcile_transaction_statement(exec.kind)
    BY <1>1, <1>7 DEF S!StatementSettles, S!Certain, SessionShape
  <2>3. CASE exec.error \/ exec.cancel \/ exec.kind \notin {"commit", "rollback"}
    <3>1. session'.certainty = "clean" => session.certainty = "clean"
      BY <1>2, <2>2, <2>3
      DEF S!mark_unknown_if_active, S!reconcile_transaction_statement, Handwritten
    <3>. QED  BY <2>1, <3>1, LedgerStays
  <2>4. CASE ~exec.error /\ ~exec.cancel /\ exec.kind \in {"commit", "rollback"}
    <3>1. server.tx = "none"  BY <2>1, <2>4 DEF LedgerInv
    <3>. QED  BY <2>1, <3>1 DEF LedgerInv
  <2>. QED  BY <2>3, <2>4
<1>8. CASE S!request_cancel_flag
  <2>1. server' = server /\ session' = session /\ (exec'.cancel \/ exec' = exec)
    BY <1>1, <1>8 DEF S!request_cancel_flag, S!serverVars, ExecShape
  <2>. QED  BY <2>1, LedgerStays
<1>9. CASE S!set_automatic
  <2>1. server' = server /\ exec' = exec /\ session'.certainty = session.certainty
    BY <1>1, <1>9 DEF S!set_automatic, S!CallKeeps, S!ExecKeeps, SessionShape
  <2>. QED  BY <2>1, LedgerStays
<1>10. ASSUME NEW answer \in Replies, S!LazyBegin(answer)  PROVE LedgerInv'
  <2>1. exec'.phase \in {"stream", "report"}
    BY <1>1, <1>10 DEF S!LazyBegin, ExecShape
  <2>2. CASE answer = "ok"
    <3>1. session'.certainty = "active"
      BY <1>1, <1>10, <2>2 DEF S!LazyBegin, S!Certain, SessionShape
    <3>. QED  BY <2>1, <3>1 DEF LedgerInv
  <2>3. CASE answer # "ok"
    <3>1. session' = session  BY <1>10, <2>3 DEF S!LazyBegin
    <3>2. Ask("begin", TRUE, answer)  BY <1>10, SqliteShares DEF S!LazyBegin
    <3>3. server' \in Refusals  BY <2>3, <3>2 DEF Ask
    <3>4. server.tx = "none" => server'.tx = "none"
      BY <1>1, <3>3, RefusalsGood DEF Good, MySqlFamily
    <3>. QED  BY <2>1, <3>1, <3>4, LedgerStays
  <2>. QED  BY <2>2, <2>3
<1>11. ASSUME NEW answer \in Replies, S!RunStatement(answer)  PROVE LedgerInv'
  <2>1. Ask(exec.kind, TRUE, answer) /\ session' = session
    BY <1>11, SqliteShares DEF S!RunStatement
  <2>2. /\ server.tx = "none" => server'.tx = "none"
        /\ answer = "ok" /\ exec.kind \in {"commit", "rollback"} => server'.tx = "none"
    BY <1>1, <1>2, <2>1, LedgerTrip
  <2>3. /\ exec'.kind = exec.kind /\ exec'.cancel = exec.cancel
        /\ exec'.error = (answer # "ok" /\ ~exec.cancel)
    BY <1>1, <1>11 DEF S!RunStatement, ExecShape
  <2>. QED  BY <1>3, <2>1, <2>2, <2>3 DEF LedgerInv
<1>12. ASSUME NEW answer \in Replies, S!commit(answer) \/ S!rollback(answer)  PROVE LedgerInv'
  <2>1. exec' = exec /\ command.op \in {"commit", "rollback"}
    BY <1>12 DEF S!commit, S!rollback, S!EndTransaction, S!CallKeeps, S!ExecKeeps
  <2>2. command.op \notin Handwritten  BY <2>1 DEF Handwritten
  <2>3. CASE session.certainty = "clean"
    <3>1. server' = server /\ session' = session
      BY <1>12, <2>3 DEF S!commit, S!rollback, S!EndTransaction
    <3>. QED  BY <2>1, <3>1, LedgerStays
  <2>4. CASE session.certainty # "clean"
    <3>1. Ask(command.op, TRUE, answer)
      BY <1>12, <2>4, SqliteShares DEF S!commit, S!rollback, S!EndTransaction
    <3>2. /\ server.tx = "none" => server'.tx = "none"
          /\ answer = "ok" => server'.tx = "none"
      BY <1>1, <2>1, <2>2, <3>1, LedgerTrip
    <3>3. CASE answer = "ok"  BY <3>2, <3>3 DEF LedgerInv
    <3>4. CASE answer # "ok"
      <4>1. session' = session
        BY <1>12, <2>4, <3>4 DEF S!commit, S!rollback, S!EndTransaction
      <4>. QED  BY <2>1, <3>2, <4>1, LedgerStays
    <3>. QED  BY <3>3, <3>4
  <2>. QED  BY <2>3, <2>4
<1>. QED
  BY <1>4, <1>5, <1>6, <1>7, <1>8, <1>9, <1>10, <1>11, <1>12 DEF SqliteStep

\* On SQLite, without handwritten control, a clean session has no transaction.
LEMMA LedgerKept ==
  ASSUME Next, Base, LedgerInv
  PROVE  LedgerInv'
<1>1. engine' = engine /\ script' = script /\ Known  BY Lasting
<1>2. CASE engine = "sqlite" /\ ~TableTab
  <2>1. SharedStep \/ SqliteStep  BY <1>2, Splits DEF MySqlFamily
  <2>. QED  BY <1>1, <1>2, <2>1, SharedStepLedger, OwnStepsLedger
<1>3. CASE ~(engine = "sqlite" /\ ~TableTab)
  BY <1>1, <1>3 DEF LedgerInv, TableTab
<1>. QED  BY <1>2, <1>3

\* A session at rest that shows no open transaction hides nothing of the
\* user's: a MySQL session because the server was asked after every statement,
\* a SQLite one because its ledger follows every statement that opens or ends
\* a transaction, a table tab because its batches end what they begin
\* (reconcile_transaction in mysql.rs, reconcile_transaction_statement in
\* sqlite.rs).
THEOREM CleanSessionsHideNothing == Spec => []CleanHidesNothing
<1>1. Init => AskedInv /\ LedgerInv
  BY DEF Init, FreshServer, NoExec, AskedInv, LedgerInv
<1>2. AtomicInv /\ AskedInv /\ LedgerInv /\ [Next]_vars => AskedInv' /\ LedgerInv'
  <2>. SUFFICES ASSUME AtomicInv, AskedInv, LedgerInv, [Next]_vars
                PROVE  AskedInv' /\ LedgerInv'
    OBVIOUS
  <2>1. CASE Next
    BY <2>1, AskedKept, LedgerKept DEF AtomicInv, ModeInv
  <2>2. CASE UNCHANGED vars
    BY <2>2 DEF vars, serverVars, AskedInv, LedgerInv, TableTab
  <2>. QED  BY <2>1, <2>2
<1>3. AtomicInv /\ AskedInv /\ LedgerInv => CleanHidesNothing
  <2>. SUFFICES ASSUME AtomicInv, AskedInv, LedgerInv,
                       Quiet, server.up, session.certainty = "clean",
                       \/ engine = "mysql" /\ reply # "unanswered"
                       \/ engine = "sqlite" /\ script \cap Handwritten = {}
                PROVE  "user" \notin server.dirty
    BY DEF CleanHidesNothing
  <2>1. CASE TableTab  BY <2>1 DEF AtomicInv, BatchInv, TableInv
  <2>2. CASE ~TableTab /\ engine = "mysql"
    <3>1. exec.op = "none" /\ command = NoCommand  BY DEF Quiet, NoExec
    <3>. QED  BY <2>2, <3>1 DEF AskedInv, MySqlFamily
  <2>3. CASE ~TableTab /\ engine = "sqlite"
    <3>1. server.tx = "none"  BY <2>3 DEF LedgerInv
    <3>. QED  BY <3>1 DEF AtomicInv, ModeInv, Base, Good
  <2>. QED  BY <2>1, <2>2, <2>3
<1>. QED  BY <1>1, <1>2, <1>3, AtomicInvHolds, PTL DEF Spec
=============================================================================
