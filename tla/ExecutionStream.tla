-------------------------- MODULE ExecutionStream --------------------------
(***************************************************************************)
(* One query execution, end to end.                                        *)
(*                                                                         *)
(*   producer  SqliteSession::execute (sqlite.rs): runs the statements,    *)
(*             sends row batches and waits for the acknowledgement of each *)
(*   bridge    bridge_execution_events (phase2.rs): validates and retains  *)
(*             every event (result.rs) and emits it to the webview         *)
(*   frontend  handleExecutionEvent, cancelActiveExecution, loadMore and   *)
(*             discardRemainder (App.svelte), and the commands they invoke *)
(*             (ack_result_batch, cancel_execution, send_result_control)   *)
(*   reload    Phase2Runtime::cleanup (phase2.rs)                          *)
(*                                                                         *)
(* The module starts where start_execution has registered the execution    *)
(* and spawned the producer: the epoch of the bridge is read after that.   *)
(*                                                                         *)
(* events and controls are the two bounded mpsc channels, inbox is the     *)
(* webview's event queue.  Rows are counted, not valued.  A result set is  *)
(* named by the statement that produced it, for ResultSetId::new is called *)
(* once per statement.                                                     *)
(***************************************************************************)
EXTENDS Naturals, Sequences, FiniteSets

CONSTANTS
  Statements,     \* number of statements of the plan
  BatchRows,      \* MAX_BATCH_ROWS
  TrancheRows,    \* rows authorised by the run and by each Load more
  RetainedRows,   \* MAX_RETAINED_ROWS
  EventCapacity,  \* capacity of the event channel
  ControlCapacity, \* capacity of the control channel
  Clicks,         \* names of the Load more and Discard clicks
  Cancels,        \* does the user click Cancel?
  Reloads,        \* may the webview reload?
  EmitFaults,     \* may app.emit fail?
  NoResult,       \* no such result set in the registry or on the page
  NoCall          \* no acknowledgement in flight

ResultSet == 1 .. Statements

ResultTerminals == {"completed", "expired", "disposed", "failed", "cancelled"}

(* A result on the page, a result in the registry, and an acknowledgement  *)
(* under way.                                                              *)
ShownResult == [next : Nat, rows : Nat, paused : BOOLEAN,
                terminal : ResultTerminals \cup {"none"}]
RetainedResult == [next : Nat, rows : Nat, terminal : BOOLEAN, paused : BOOLEAN]
AckCall == [phase : {"called", "sending"}, rs : ResultSet, sequence : Nat]

ASSUME StreamAssumption ==
  /\ NoResult \notin ShownResult \cup RetainedResult
  /\ NoCall \notin AckCall
  /\ {Statements, BatchRows, TrancheRows, RetainedRows} \subseteq Nat \ {0}
  /\ {EventCapacity, ControlCapacity} \subseteq Nat \ {0}
  /\ IsFiniteSet(Clicks)
  /\ {Cancels, Reloads, EmitFaults} \subseteq BOOLEAN

VARIABLES
  pc,          \* where the producer is
  stmt,        \* statement being executed
  sequence,    \* sequence number of the next batch of its result set
  fetched,     \* result_rows of every statement so far
  unsent,      \* rows of the batch being filled
  limit,       \* tranche_limit
  flags,       \* the producer's columns, discarded, expired and failed
  exhausted,   \* history: result sets read to their end, or to a cap
  cancelled,   \* the shared flag behind active_cancel is false
  slot,        \* active_cancel holds that flag
  events, controls,
  live,        \* the executions map holds this execution and its controls
  epoch,       \* lifecycle_epoch
  bridge,      \* "spawn", "recv", "remove", "closing" or "done"
  bridge_epoch, \* the epoch the bridge was started in
  retained,    \* the result registry
  outcome,     \* terminal event of the execution, "none" before it
  history,     \* history_status
  inbox,       \* emitted events the webview has not handled
  ui,          \* [state, results] of the webview
  ack,         \* the acknowledgement the webview's event queue awaits
  cancel_cmd,  \* cancel_execution, from the button and from a rejected event
  more         \* the Load more and Discard commands, one per click

producer_vars == <<pc, stmt, sequence, fetched, unsent, limit, flags, exhausted>>
shared_vars   == <<cancelled, slot, events, controls, live, epoch>>
bridge_vars   == <<bridge, bridge_epoch, retained, outcome, history>>
ui_vars       == <<inbox, ui, ack, cancel_cmd, more>>
vars == <<producer_vars, shared_vars, bridge_vars, ui_vars>>

NoFlags == [columns |-> FALSE, discarded |-> FALSE, expired |-> FALSE, failed |-> FALSE]
Unclicked == [phase |-> "idle", kind |-> "load_more", rs |-> 1]
NoExecution == [state |-> "none", results |-> [rs \in ResultSet |-> NoResult]]

Init ==
  /\ pc = "start" /\ stmt = 1 /\ sequence = 0 /\ unsent = 0
  /\ fetched = [rs \in ResultSet |-> 0]
  /\ limit = TrancheRows /\ flags = NoFlags /\ exhausted = {}
  /\ cancelled = FALSE /\ slot = FALSE /\ events = <<>> /\ controls = <<>>
  /\ live = TRUE /\ epoch = 0
  /\ bridge = "spawn" /\ bridge_epoch = 0 /\ outcome = "none" /\ history = "none"
  /\ retained = [rs \in ResultSet |-> NoResult]
  /\ inbox = <<>> /\ ack = NoCall
  /\ ui = [NoExecution EXCEPT !.state = "queued"]
  /\ cancel_cmd = [button |-> "idle", reject |-> "idle"]
  /\ more = [click \in Clicks |-> Unclicked]

-----------------------------------------------------------------------------
(* The producer.                                                           *)

(* events.send(..).await: waits for room, fails once the bridge is gone.   *)
Receiving == bridge # "done"

Send(e) ==
  /\ Receiving => Len(events) < EventCapacity
  /\ events' = IF Receiving THEN Append(events, e) ELSE events

Goto(label) == pc' = label

Start ==
  /\ pc = "start"
  /\ slot' = TRUE
  /\ Send([type |-> "started"])
  /\ Goto("statement")
  /\ UNCHANGED <<exhausted, stmt, sequence, fetched, unsent, limit, flags, cancelled,
                 controls, live, epoch, bridge_vars, ui_vars>>

(* The head of the loop over the statements, up to opening the cursor; the *)
(* columns are known already when the prepared statement reports any.      *)
BeginStatement ==
  /\ pc = "statement"
  /\ IF stmt > Statements \/ cancelled
       THEN Goto("end") /\ UNCHANGED <<sequence, unsent, limit, flags>>
       ELSE /\ Goto("fetch")
            /\ sequence' = 0 /\ unsent' = 0 /\ limit' = TrancheRows
            /\ \E columns \in BOOLEAN : flags' = [NoFlags EXCEPT !.columns = columns]
  /\ UNCHANGED <<exhausted, stmt, fetched, shared_vars, bridge_vars, ui_vars>>

(* BEGIN DEFERRED fails in manual mode.                                    *)
BeginTransactionFails ==
  /\ pc = "statement" /\ stmt <= Statements /\ ~cancelled
  /\ flags' = [NoFlags EXCEPT !.failed = TRUE]
  /\ Send([type |-> "failed"])
  /\ Goto("end")
  /\ UNCHANGED <<exhausted, stmt, sequence, fetched, unsent, limit, cancelled, slot,
                 controls, live, epoch, bridge_vars, ui_vars>>

Batch(n) == [type |-> "batch", rs |-> stmt, sequence |-> sequence, rows |-> n]

(* Faulty: the tranche ends one row late.                                  *)
LatePushRow(filled) ==
  LET rows == fetched[stmt] + 1
  IN  /\ fetched' = [fetched EXCEPT ![stmt] = rows]
      /\ unsent' = filled + 1
      /\ flags' = [flags EXCEPT !.columns = TRUE]
      /\ exhausted' = IF rows >= RetainedRows THEN exhausted \cup {stmt} ELSE exhausted
      /\ Goto(CASE rows >= RetainedRows -> "drain"
                [] rows < RetainedRows /\ rows > limit -> "tranche"
                [] OTHER -> "fetch")

(* A row joins the batch being filled; the cursor stops at the cap and at  *)
(* the end of the tranche.                                                 *)
PushRow(filled) ==
  LET rows == fetched[stmt] + 1
  IN  /\ fetched' = [fetched EXCEPT ![stmt] = rows]
      /\ unsent' = filled + 1
      /\ flags' = [flags EXCEPT !.columns = TRUE]
      /\ exhausted' = IF rows >= RetainedRows THEN exhausted \cup {stmt} ELSE exhausted
      /\ Goto(CASE rows >= RetainedRows -> "drain"
                [] rows < RetainedRows /\ rows >= limit -> "tranche"
                [] OTHER -> "fetch")

FetchRow ==
  /\ pc = "fetch" /\ unsent < BatchRows
  /\ PushRow(unsent)
  /\ UNCHANGED <<stmt, sequence, limit, shared_vars, bridge_vars, ui_vars>>

(* send_batch_and_wait, up to the wait.  A closed channel cancels.         *)
SendBatch(n, waiting, refused) ==
  /\ Send(Batch(n))
  /\ unsent' = 0
  /\ cancelled' = (cancelled \/ ~Receiving)
  /\ flags' = [flags EXCEPT !.columns = FALSE, !.discarded = ~Receiving]
  /\ Goto(IF Receiving THEN waiting ELSE refused)
  /\ UNCHANGED <<exhausted, stmt, sequence, fetched, limit, slot, controls, live, epoch,
                 bridge_vars, ui_vars>>

(* The next row does not fit in the batch, by count or by bytes.           *)
FlushFullBatch ==
  pc = "fetch" /\ unsent > 0 /\ SendBatch(unsent, "ack_full", "drain")

FlushTranche ==
  pc = "tranche" /\ SendBatch(unsent, "ack_tranche", "drain")

(* A row larger than a batch, or than what the result may still retain.    *)
OversizedRow ==
  /\ pc = "fetch"
  /\ flags' = [flags EXCEPT !.columns = TRUE]
  /\ exhausted' = exhausted \cup {stmt}
  /\ Goto("drain")
  /\ UNCHANGED <<stmt, sequence, fetched, unsent, limit, shared_vars,
                 bridge_vars, ui_vars>>

(* The cursor is exhausted, or the progress handler interrupted it.        *)
CursorEnds ==
  /\ pc = "fetch"
  /\ \/ exhausted' = exhausted \cup {stmt}
     \/ cancelled /\ UNCHANGED exhausted
  /\ Goto("drain")
  /\ UNCHANGED <<stmt, sequence, fetched, unsent, limit, flags, shared_vars,
                 bridge_vars, ui_vars>>

(* The driver or the decoding of a row fails: rows of the batch that was   *)
(* not sent are no longer counted, and Failed is sent first.               *)
StatementFails ==
  /\ pc = "fetch"
  /\ fetched' = [fetched EXCEPT ![stmt] = @ - unsent]
  /\ unsent' = 0
  /\ flags' = [flags EXCEPT !.failed = TRUE]
  /\ Send([type |-> "failed"])
  /\ Goto("result")
  /\ UNCHANGED <<exhausted, stmt, sequence, limit, cancelled, slot, controls, live, epoch,
                 bridge_vars, ui_vars>>

SendPaused ==
  /\ pc = "pause"
  /\ Send([type |-> "paused", rs |-> stmt, sequence |-> sequence,
           rows |-> fetched[stmt]])
  /\ Goto(IF cancelled THEN "drain" ELSE "paused")
  /\ UNCHANGED <<exhausted, stmt, sequence, fetched, unsent, limit, flags, cancelled, slot,
                 controls, live, epoch, bridge_vars, ui_vars>>

(* The last, partial batch; an empty one tells the columns of no rows.     *)
DrainBatch ==
  /\ pc = "drain"
  /\ IF /\ ~cancelled /\ ~flags.discarded
        /\ unsent > 0 \/ (fetched[stmt] = 0 /\ flags.columns)
       THEN SendBatch(unsent, "ack_last", "result")
       ELSE /\ Goto("result")
            /\ UNCHANGED <<exhausted, stmt, sequence, fetched, unsent, limit, flags,
                           shared_vars, bridge_vars, ui_vars>>

-----------------------------------------------------------------------------
(* The producer's two waits on the control channel.                        *)

Acked  == [ack_full |-> "fetch", ack_tranche |-> "pause", ack_last |-> "result"]
Refused == [ack_full |-> "drain", ack_tranche |-> "drain", ack_last |-> "result"]

AwaitingAck == pc \in DOMAIN Acked

Take == controls # <<>> /\ controls' = Tail(controls)

(* A command waiting for room still holds a sender.                        *)
SenderHeld ==
  \/ live
  \/ ack # NoCall /\ ack.phase = "sending"
  \/ \E who \in DOMAIN cancel_cmd : cancel_cmd[who] = "sending"
  \/ \E click \in Clicks : more[click].phase = "sending"

ControlsClosed == controls = <<>> /\ ~SenderHeld

IsAck(c) == c = [type |-> "ack", rs |-> stmt, sequence |-> sequence]
IsDiscard(c) == c = [type |-> "discard", rs |-> stmt]
IsLoadMore(c) == c = [type |-> "load_more", rs |-> stmt]
IsCancel(c) == c = [type |-> "cancel"]

(* After the acknowledgement of a full batch the row in hand is pushed.    *)
Acknowledged ==
  /\ AwaitingAck /\ Take /\ IsAck(Head(controls))
  /\ sequence' = sequence + 1
  /\ IF pc = "ack_full" THEN PushRow(0)
                        ELSE Goto(Acked[pc]) /\ UNCHANGED <<fetched, unsent, flags, exhausted>>
  /\ UNCHANGED <<stmt, limit, cancelled, slot, events, live, epoch, bridge_vars,
                 ui_vars>>

(* Faulty: only the control channel ends the wait.                         *)
DeafAckRefused ==
  /\ AwaitingAck
  /\ \/ Take /\ IsDiscard(Head(controls)) /\ UNCHANGED cancelled
     \/ Take /\ IsCancel(Head(controls)) /\ cancelled' = TRUE
  /\ flags' = [flags EXCEPT !.discarded = TRUE]
  /\ Goto(Refused[pc])
  /\ UNCHANGED <<exhausted, stmt, sequence, fetched, unsent, limit, slot, events, live,
                 epoch, bridge_vars, ui_vars>>

(* The wait is given up: the flag was found cleared, the channel delivered *)
(* Cancel or is closed, or the remainder is discarded.                     *)
AckRefused ==
  /\ AwaitingAck
  /\ \/ cancelled /\ UNCHANGED <<cancelled, controls>>
     \/ Take /\ IsDiscard(Head(controls)) /\ UNCHANGED cancelled
     \/ Take /\ IsCancel(Head(controls)) /\ cancelled' = TRUE
     \/ ControlsClosed /\ cancelled' = TRUE /\ UNCHANGED controls
  /\ flags' = [flags EXCEPT !.discarded = TRUE]
  /\ Goto(Refused[pc])
  /\ UNCHANGED <<exhausted, stmt, sequence, fetched, unsent, limit, slot, events, live,
                 epoch, bridge_vars, ui_vars>>

(* Any other control is dropped by the wait that receives it; the flag is  *)
(* read again before the next one is awaited.                              *)
DropControl ==
  /\ Take
  /\ LET c == Head(controls)
     IN \/ /\ AwaitingAck /\ ~IsAck(c) /\ ~IsDiscard(c) /\ ~IsCancel(c)
           /\ UNCHANGED pc
        \/ /\ pc = "paused" /\ ~IsLoadMore(c) /\ ~IsDiscard(c) /\ ~IsCancel(c)
           /\ Goto(IF cancelled THEN "drain" ELSE "paused")
  /\ UNCHANGED <<exhausted, stmt, sequence, fetched, unsent, limit, flags, cancelled, slot,
                 events, live, epoch, bridge_vars, ui_vars>>

Continue ==
  /\ pc = "paused" /\ Take /\ IsLoadMore(Head(controls))
  /\ limit' = limit + TrancheRows
  /\ Goto("fetch")
  /\ UNCHANGED <<exhausted, stmt, sequence, fetched, unsent, flags, cancelled, slot, events,
                 live, epoch, bridge_vars, ui_vars>>

(* Discard, Cancel, a closed channel, and the five-minute deadline.  The   *)
(* flag alone does not wake this wait.                                     *)
LeavePause ==
  /\ pc = "paused"
  /\ \/ /\ Take /\ IsDiscard(Head(controls))
        /\ flags' = [flags EXCEPT !.discarded = TRUE] /\ UNCHANGED cancelled
     \/ /\ Take /\ IsCancel(Head(controls))
        /\ cancelled' = TRUE /\ UNCHANGED flags
     \/ /\ ControlsClosed
        /\ cancelled' = TRUE /\ UNCHANGED <<controls, flags>>
  /\ Goto("drain")
  /\ UNCHANGED <<exhausted, stmt, sequence, fetched, unsent, limit, slot, events, live,
                 epoch, bridge_vars, ui_vars>>

ExpirePause ==
  /\ pc = "paused"
  /\ flags' = [flags EXCEPT !.expired = TRUE]
  /\ Goto("drain")
  /\ UNCHANGED <<exhausted, stmt, sequence, fetched, unsent, limit, shared_vars,
                 bridge_vars, ui_vars>>

-----------------------------------------------------------------------------
(* The end of a statement and of the execution.                            *)

(* Faulty: an expired cursor counts as read to its end.                    *)
UnexpiredTerminalState ==
  CASE cancelled -> "cancelled"
    [] ~cancelled /\ flags.failed -> "failed"
    [] ~cancelled /\ ~flags.failed /\ flags.discarded -> "disposed"
    [] OTHER -> "completed"

TerminalState ==
  CASE cancelled -> "cancelled"
    [] ~cancelled /\ flags.failed -> "failed"
    [] ~cancelled /\ ~flags.failed /\ flags.expired -> "expired"
    [] ~cancelled /\ ~flags.failed /\ ~flags.expired /\ flags.discarded -> "disposed"
    [] OTHER -> "completed"

SendResultTerminal ==
  /\ pc = "result"
  /\ IF sequence > 0
       THEN Send([type |-> "result_terminal", rs |-> stmt, sequence |-> sequence,
                  rows |-> fetched[stmt], state |-> TerminalState])
       ELSE UNCHANGED events
  /\ Goto("message")
  /\ UNCHANGED <<exhausted, stmt, sequence, fetched, unsent, limit, flags, cancelled, slot,
                 controls, live, epoch, bridge_vars, ui_vars>>

EndStatement ==
  /\ pc = "message"
  /\ IF flags.failed \/ cancelled
       THEN Goto("end") /\ UNCHANGED <<stmt, events>>
       ELSE /\ Send([type |-> "statement_message", rs |-> stmt])
            /\ stmt' = stmt + 1
            /\ Goto("statement")
  /\ UNCHANGED <<exhausted, sequence, fetched, unsent, limit, flags, cancelled, slot,
                 controls, live, epoch, bridge_vars, ui_vars>>

(* Faulty: the flag is not read again before the last event.               *)
BlindEndExecution ==
  /\ pc = "end"
  /\ IF flags.failed THEN UNCHANGED events ELSE Send([type |-> "finished"])
  /\ Goto("clear")
  /\ UNCHANGED <<exhausted, stmt, sequence, fetched, unsent, limit, flags, cancelled, slot,
                 controls, live, epoch, bridge_vars, ui_vars>>

EndExecution ==
  /\ pc = "end"
  /\ IF flags.failed
       THEN UNCHANGED events
       ELSE Send([type |-> IF cancelled THEN "cancelled" ELSE "finished"])
  /\ Goto("clear")
  /\ UNCHANGED <<exhausted, stmt, sequence, fetched, unsent, limit, flags, cancelled, slot,
                 controls, live, epoch, bridge_vars, ui_vars>>

(* Faulty: the flag of a finished execution stays installed.               *)
KeepActiveCancel ==
  /\ pc = "clear"
  /\ Goto("done")
  /\ UNCHANGED <<exhausted, stmt, sequence, fetched, unsent, limit, flags, cancelled, slot,
                 events, controls, live, epoch, bridge_vars, ui_vars>>

ClearActiveCancel ==
  /\ pc = "clear"
  /\ slot' = FALSE
  /\ Goto("done")
  /\ UNCHANGED <<exhausted, stmt, sequence, fetched, unsent, limit, flags, cancelled,
                 events, controls, live, epoch, bridge_vars, ui_vars>>

Producer ==
  \/ Start \/ BeginStatement \/ BeginTransactionFails \/ FetchRow
  \/ FlushFullBatch \/ FlushTranche \/ OversizedRow \/ CursorEnds
  \/ StatementFails \/ SendPaused \/ DrainBatch \/ Acknowledged \/ AckRefused
  \/ DropControl \/ Continue \/ LeavePause \/ ExpirePause
  \/ SendResultTerminal \/ EndStatement \/ EndExecution \/ ClearActiveCancel

-----------------------------------------------------------------------------
(* The bridge.  It holds the lock of the epoch from the check of the epoch *)
(* to the emission, so a reload falls before or after the whole step.      *)

(* The sender of the retained copy of an execution's cancel flag.          *)
request_cancel == cancelled' = (cancelled \/ (live /\ slot))

SpawnBridge ==
  /\ bridge = "spawn"
  /\ bridge' = "recv" /\ bridge_epoch' = epoch
  /\ UNCHANGED <<producer_vars, shared_vars, retained, outcome, history, ui_vars>>

NewResult == [next |-> 0, rows |-> 0, terminal |-> FALSE, paused |-> FALSE]
OrNew(rs) == IF retained[rs] = NoResult THEN NewResult ELSE retained[rs]
Open(rs) == retained[rs] # NoResult /\ ~retained[rs].terminal

(* accept_batch, accept_terminal and mark_paused.                          *)
accept_batch(e) == ~OrNew(e.rs).terminal /\ e.sequence = OrNew(e.rs).next

accept_terminal(e) ==
  Open(e.rs) /\ e.sequence = retained[e.rs].next /\ e.rows = retained[e.rs].rows

Accepts(e) ==
  /\ e.type = "batch" => accept_batch(e)
  /\ e.type = "result_terminal" => accept_terminal(e)
  /\ e.type = "paused" => Open(e.rs)

Retain(e) ==
  CASE e.type = "batch" ->
         [retained EXCEPT ![e.rs] =
            [OrNew(e.rs) EXCEPT !.next = @ + 1, !.rows = @ + e.rows]]
    [] e.type = "result_terminal" ->
         [retained EXCEPT ![e.rs].terminal = TRUE, ![e.rs].paused = FALSE]
    [] e.type = "paused" -> [retained EXCEPT ![e.rs].paused = TRUE]
    [] OTHER -> retained

HistoryOf == [finished |-> "succeeded", failed |-> "failed", cancelled |-> "cancelled"]

(* Faulty: the epoch is not compared.                                      *)
AnyEpoch == bridge = "recv" /\ events # <<>>

InEpoch == bridge = "recv" /\ events # <<>> /\ epoch = bridge_epoch

(* Faulty: the bridge goes on after a failure.                             *)
ReceivePastFailure ==
  /\ InEpoch
  /\ LET e == Head(events)
     IN  /\ Accepts(e)
         /\ retained' = Retain(e)
         /\ \/ inbox' = Append(inbox, e) /\ UNCHANGED cancelled
            \/ EmitFaults /\ request_cancel /\ UNCHANGED inbox
         /\ IF e.type \in DOMAIN HistoryOf
              THEN /\ outcome' = e.type /\ history' = HistoryOf[e.type]
                   /\ bridge' = IF e.type = "failed" THEN bridge ELSE "remove"
              ELSE UNCHANGED <<outcome, history, bridge>>
  /\ events' = Tail(events)
  /\ UNCHANGED <<producer_vars, slot, controls, live, epoch, bridge_epoch, ui, ack,
                 cancel_cmd, more>>

(* The event is retained, then emitted; a failing emission cancels.        *)
Receive ==
  /\ InEpoch
  /\ LET e == Head(events)
     IN  /\ Accepts(e)
         /\ retained' = Retain(e)
         /\ \/ inbox' = Append(inbox, e) /\ UNCHANGED cancelled
            \/ EmitFaults /\ request_cancel /\ UNCHANGED inbox
         /\ IF e.type \in DOMAIN HistoryOf
              THEN outcome' = e.type /\ history' = HistoryOf[e.type] /\ bridge' = "remove"
              ELSE UNCHANGED <<outcome, history, bridge>>
  /\ events' = Tail(events)
  /\ UNCHANGED <<producer_vars, slot, controls, live, epoch, bridge_epoch, ui, ack,
                 cancel_cmd, more>>

(* A rejected event cancels the execution and is reported as an internal   *)
(* failure; no history entry is written.                                   *)
RejectEvent ==
  /\ InEpoch /\ ~Accepts(Head(events))
  /\ request_cancel
  /\ \/ inbox' = Append(inbox, [type |-> "failed"])
     \/ EmitFaults /\ UNCHANGED inbox
  /\ outcome' = "internal" /\ bridge' = "remove"
  /\ events' = Tail(events)
  /\ UNCHANGED <<producer_vars, slot, controls, live, epoch, bridge_epoch, retained,
                 history, ui, ack, cancel_cmd, more>>

LateEpoch ==
  /\ bridge = "recv" /\ events # <<>> /\ epoch # bridge_epoch
  /\ events' = Tail(events)
  /\ bridge' = "remove"
  /\ UNCHANGED <<producer_vars, cancelled, slot, controls, live, epoch, bridge_epoch,
                 retained, outcome, history, ui_vars>>

(* Faulty: the executions map keeps the execution.                         *)
LeakExecution ==
  /\ bridge = "remove"
  /\ bridge' = "closing"
  /\ UNCHANGED <<producer_vars, shared_vars, bridge_epoch, retained, outcome, history,
                 ui_vars>>

RemoveExecution ==
  /\ bridge = "remove"
  /\ live' = FALSE /\ bridge' = "closing"
  /\ UNCHANGED <<producer_vars, cancelled, slot, events, controls, epoch, bridge_epoch,
                 retained, outcome, history, ui_vars>>

(* The history entry is saved, then the end of the function drops events.  *)
CloseBridge ==
  /\ bridge = "closing"
  /\ bridge' = "done" /\ events' = <<>>
  /\ UNCHANGED <<producer_vars, cancelled, slot, controls, live, epoch, bridge_epoch,
                 retained, outcome, history, ui_vars>>

Bridge == SpawnBridge \/ Receive \/ RejectEvent \/ LateEpoch \/ RemoveExecution \/ CloseBridge

-----------------------------------------------------------------------------
(* The frontend: the serial queue of handleExecutionEvent.                 *)

(* Faulty: the first batch is not counted.                                 *)
uncountedFirstBatch(e) ==
  [next |-> 0, rows |-> e.rows, paused |-> FALSE, terminal |-> "none"]

resultFromFirstBatch(e) ==
  [next |-> 1, rows |-> e.rows, paused |-> FALSE, terminal |-> "none"]

SetState(state) == ui' = [ui EXCEPT !.state = state]
SetResult(rs, result, state) ==
  ui' = [ui EXCEPT !.state = state, !.results[rs] = result]

Fits(e) ==
  LET result == ui.results[e.rs]
  IN  IF result = NoResult THEN e.sequence = 0
                           ELSE result.terminal = "none" /\ e.sequence = result.next

HandleBatch(e) ==
  LET result == ui.results[e.rs]
  IN  /\ e.type = "batch" /\ Fits(e)
      /\ SetResult(e.rs,
           IF result = NoResult
             THEN resultFromFirstBatch(e)
             ELSE [result EXCEPT !.next = @ + 1, !.rows = @ + e.rows],
           "running")
      /\ ack' = [phase |-> "called", rs |-> e.rs, sequence |-> e.sequence]
      /\ UNCHANGED cancel_cmd

rejectExecutionEvent(e) ==
  /\ e.type = "batch" /\ ~Fits(e)
  /\ SetState("failed")
  /\ cancel_cmd' = [cancel_cmd EXCEPT !.reject = IF @ = "idle" THEN "called" ELSE @]
  /\ UNCHANGED ack

HandlePaused(e) ==
  /\ e.type = "paused"
  /\ LET result == ui.results[e.rs]
     IN IF result # NoResult /\ e.sequence = result.next /\ e.rows = result.rows
          THEN SetResult(e.rs, [result EXCEPT !.paused = TRUE], "paused")
          ELSE UNCHANGED ui
  /\ UNCHANGED <<ack, cancel_cmd>>

HandleResultTerminal(e) ==
  /\ e.type = "result_terminal"
  /\ LET result == ui.results[e.rs]
     IN IF result # NoResult /\ Fits(e) /\ e.rows = result.rows
          THEN SetResult(e.rs,
                 [result EXCEPT !.paused = FALSE, !.terminal = e.state], ui.state)
          ELSE UNCHANGED ui
  /\ UNCHANGED <<ack, cancel_cmd>>

StateOf == [started |-> "running", finished |-> "succeeded", failed |-> "failed",
            cancelled |-> "cancelled"]

HandleLifecycle(e) ==
  /\ e.type \in DOMAIN StateOf
  /\ SetState(StateOf[e.type])
  /\ UNCHANGED <<ack, cancel_cmd>>

(* A page that does not know the execution learns of it from started.      *)
Ignore(e) ==
  /\ e.type = "statement_message" \/ (ui.state = "none" /\ e.type # "started")
  /\ UNCHANGED <<ui, ack, cancel_cmd>>

handleExecutionEvent ==
  /\ inbox # <<>> /\ ack = NoCall
  /\ inbox' = Tail(inbox)
  /\ LET e == Head(inbox)
     IN \/ /\ ui.state # "none" \/ e.type = "started"
           /\ \/ HandleBatch(e) \/ rejectExecutionEvent(e) \/ HandlePaused(e)
              \/ HandleResultTerminal(e) \/ HandleLifecycle(e)
        \/ Ignore(e)
  /\ UNCHANGED <<producer_vars, shared_vars, bridge_vars, more>>

-----------------------------------------------------------------------------
(* Commands.  Each checks that the execution is live, then sends one       *)
(* control, waiting for room; a failed send is an error of the command.    *)

ControlRoom == pc # "done" /\ Len(controls) < ControlCapacity
SendControl(c) ==
  \/ ControlRoom /\ controls' = Append(controls, c)
  \/ pc = "done" /\ UNCHANGED controls

ack_result_batch ==
  /\ ack # NoCall
  /\ \/ /\ ack.phase = "called"
        /\ ack' = IF live THEN [ack EXCEPT !.phase = "sending"] ELSE NoCall
        /\ UNCHANGED controls
     \/ /\ ack.phase = "sending"
        /\ SendControl([type |-> "ack", rs |-> ack.rs, sequence |-> ack.sequence])
        /\ ack' = NoCall
  /\ UNCHANGED <<producer_vars, cancelled, slot, events, live, epoch, bridge_vars,
                 inbox, ui, cancel_cmd, more>>

ActiveStates == {"queued", "running", "paused", "cancelling"}

ClickCancel ==
  /\ Cancels /\ ui.state \in ActiveStates /\ cancel_cmd.button = "idle"
  /\ cancel_cmd' = [cancel_cmd EXCEPT !.button = "called"]
  /\ UNCHANGED <<producer_vars, shared_vars, bridge_vars, inbox, ui, ack, more>>

cancel_execution(who) ==
  /\ \/ /\ cancel_cmd[who] = "called"
        /\ request_cancel
        /\ cancel_cmd' = [cancel_cmd EXCEPT ![who] = IF live THEN "sending" ELSE "idle"]
        /\ UNCHANGED controls
     \/ /\ cancel_cmd[who] = "sending"
        /\ SendControl([type |-> "cancel"])
        /\ cancel_cmd' = [cancel_cmd EXCEPT ![who] =
                            IF who = "button" THEN "replied" ELSE "idle"]
        /\ UNCHANGED cancelled
  /\ UNCHANGED <<producer_vars, slot, events, live, epoch, bridge_vars, inbox, ui, ack,
                 more>>

(* The rest of cancelActiveExecution: no state is read again.              *)
CancelReply ==
  /\ cancel_cmd.button = "replied"
  /\ cancel_cmd' = [cancel_cmd EXCEPT !.button = "idle"]
  /\ SetState("cancelling")
  /\ UNCHANGED <<producer_vars, shared_vars, bridge_vars, inbox, ack, more>>

ClickMore(click, kind, rs) ==
  /\ more[click].phase = "idle"
  /\ ui.results[rs] # NoResult /\ ui.results[rs].paused
  /\ more' = [more EXCEPT ![click] = [phase |-> "called", kind |-> kind, rs |-> rs]]
  /\ UNCHANGED <<producer_vars, shared_vars, bridge_vars, inbox, ui, ack, cancel_cmd>>

(* acknowledge_more refuses a result that is terminal or expired.          *)
send_result_control(click) ==
  LET cmd == more[click]
      Step(phase) == more' = [more EXCEPT ![click].phase = phase]
  IN  /\ \/ /\ cmd.phase = "called"
            /\ \/ /\ live /\ retained[cmd.rs] # NoResult
                  /\ cmd.kind = "load_more" => ~retained[cmd.rs].terminal
                  /\ retained' = IF cmd.kind = "load_more"
                                   THEN [retained EXCEPT ![cmd.rs].paused = FALSE]
                                   ELSE retained
                  /\ Step("sending")
               \/ /\ \/ ~live \/ retained[cmd.rs] = NoResult
                     \/ /\ cmd.kind = "load_more"
                        /\ retained[cmd.rs].terminal \/ retained[cmd.rs].paused
                  /\ Step("refused") /\ UNCHANGED retained
            /\ UNCHANGED controls
         \/ /\ cmd.phase = "sending"
            /\ SendControl([type |-> cmd.kind, rs |-> cmd.rs])
            /\ Step(IF pc = "done" THEN "refused" ELSE "replied")
            /\ UNCHANGED retained
      /\ UNCHANGED <<producer_vars, cancelled, slot, events, live, epoch, bridge,
                     bridge_epoch, outcome, history, inbox, ui, ack, cancel_cmd>>

(* The rest of loadMore and of discardRemainder.                           *)
MoreReply(click) ==
  /\ more[click].phase = "replied"
  /\ more' = [more EXCEPT ![click].phase = "settled"]
  /\ LET rs == more[click].rs
     IN ui' = IF ui.results[rs] = NoResult THEN ui
              ELSE [ui EXCEPT !.results[rs].paused = FALSE]
  /\ UNCHANGED <<producer_vars, shared_vars, bridge_vars, inbox, ack, cancel_cmd>>

Commands ==
  \/ ack_result_batch \/ CancelReply
  \/ \E who \in {"button", "reject"} : cancel_execution(who)
  \/ \E click \in Clicks : send_result_control(click) \/ MoreReply(click)

User ==
  \/ ClickCancel
  \/ \E click \in Clicks, kind \in {"load_more", "discard"}, rs \in ResultSet :
       ClickMore(click, kind, rs)

(* A reload of the webview: cleanup cancels the job, forgets the execution *)
(* and its results, and starts the next epoch.  A full control channel     *)
(* drops the Cancel.  Commands already sending go on without a caller.     *)
Reload ==
  /\ Reloads /\ epoch = 0
  /\ epoch' = 1
  /\ request_cancel
  /\ controls' = IF live /\ ControlRoom THEN Append(controls, [type |-> "cancel"])
                                        ELSE controls
  /\ live' = FALSE
  /\ retained' = [rs \in ResultSet |-> NoResult]
  /\ inbox' = <<>> /\ ui' = NoExecution
  /\ ack' = IF ack # NoCall /\ ack.phase = "sending" THEN ack ELSE NoCall
  /\ cancel_cmd' = [button |-> "idle",
                    reject |-> IF "sending" \in {cancel_cmd.button, cancel_cmd.reject}
                                 THEN "sending" ELSE "idle"]
  /\ more' = [click \in Clicks |->
                IF more[click].phase \in {"called", "replied"}
                  THEN [more[click] EXCEPT !.phase = "settled"] ELSE more[click]]
  /\ UNCHANGED <<producer_vars, slot, events, bridge, bridge_epoch, outcome, history>>

-----------------------------------------------------------------------------
Settled == pc = "done" /\ bridge = "done" /\ inbox = <<>> /\ UNCHANGED vars

Next ==
  Producer \/ Bridge \/ handleExecutionEvent \/ Commands \/ User \/ Reload \/ Settled

(* Tasks that can run are polled and the webview drains its queue.  The    *)
(* user owes nothing, nor does a reload, and a statement may run for ever  *)
(* unless its progress handler finds the flag cleared.                     *)
Fairness ==
  /\ WF_vars(Producer /\ (pc = "fetch" => cancelled))
  /\ WF_vars(Bridge)
  /\ WF_vars(handleExecutionEvent)
  /\ WF_vars(ack_result_batch) /\ WF_vars(CancelReply)
  /\ \A who \in {"button", "reject"} : WF_vars(cancel_execution(who))
  /\ \A click \in Clicks : WF_vars(send_result_control(click) \/ MoreReply(click))

Spec == Init /\ [][Next]_vars /\ Fairness
-----------------------------------------------------------------------------
(* Properties.                                                             *)

EventTypes == {"started", "batch", "paused", "result_terminal", "statement_message",
               "finished", "failed", "cancelled"}
ControlTypes == {"ack", "load_more", "discard", "cancel"}
Phases == {"idle", "called", "sending", "replied", "refused", "settled"}

(* Both channels stay within their capacity and every copy of a result     *)
(* within MAX_RETAINED_ROWS.                                               *)
TypeOK ==
  /\ stmt \in 1 .. Statements + 1 /\ sequence \in Nat /\ unsent \in 0 .. BatchRows
  /\ fetched \in [ResultSet -> 0 .. RetainedRows] /\ limit \in Nat
  /\ flags \in [{"columns", "discarded", "expired", "failed"} -> BOOLEAN]
  /\ {cancelled, slot, live} \subseteq BOOLEAN /\ exhausted \subseteq ResultSet
  /\ Len(events) <= EventCapacity /\ Len(controls) <= ControlCapacity
  /\ \A i \in DOMAIN events : events[i].type \in EventTypes
  /\ \A i \in DOMAIN controls : controls[i].type \in ControlTypes
  /\ \A i \in DOMAIN inbox : inbox[i].type \in EventTypes
  /\ {epoch, bridge_epoch} \subseteq {0, 1}
  /\ \A rs \in ResultSet :
       /\ retained[rs] # NoResult => retained[rs].rows \in 0 .. RetainedRows
       /\ ui.results[rs] # NoResult =>
            /\ ui.results[rs].rows \in 0 .. RetainedRows
            /\ ui.results[rs].terminal \in ResultTerminals \cup {"none"}
  /\ \A click \in Clicks : more[click].phase \in Phases

Copy(result) == IF result = NoResult THEN [next |-> 0, rows |-> 0]
                ELSE [next |-> result.next, rows |-> result.rows]

(* Each batch is acknowledged before streaming continues: a producer that  *)
(* is past a wait, and that nobody cancelled, has its batches counted      *)
(* alike by itself, by the native registry and by the webview.             *)
Lockstep ==
  (/\ pc \in {"fetch", "tranche", "pause", "paused"}
   /\ ~cancelled /\ live /\ bridge = "recv" /\ epoch = 0)
     => LET sent == [next |-> sequence, rows |-> fetched[stmt] - unsent]
        IN Copy(retained[stmt]) = sent /\ Copy(ui.results[stmt]) = sent

(* One Load more authorises one more tranche: no interleaving of clicks,   *)
(* stale controls and pauses retains more rows than the user asked for.    *)
TrancheAuthorized ==
  \A rs \in ResultSet :
    LET asked == {click \in Clicks :
                    /\ more[click].kind = "load_more" /\ more[click].rs = rs
                    /\ more[click].phase \in {"sending", "replied", "settled"}}
    IN retained[rs] # NoResult =>
         retained[rs].rows <= TrancheRows * (1 + Cardinality(asked))

(* A result the webview shows as completed holds every row the cursor      *)
(* produced, and the cursor was read to its end or to a cap, however the   *)
(* stream was paused, resumed, expired or cancelled.                       *)
CompletedIsComplete ==
  \A rs \in ResultSet :
    ui.results[rs] # NoResult /\ ui.results[rs].terminal = "completed"
      => ui.results[rs].rows = fetched[rs] /\ rs \in exhausted

(* What the terminal event says is what happened: finished after the last  *)
(* statement only, cancelled only with the flag cleared, failed only for a *)
(* statement that failed, and the history entry agrees.                    *)
OutcomeIsTrue ==
  /\ outcome = "finished" => stmt = Statements + 1 /\ ~flags.failed
  /\ outcome = "cancelled" => cancelled /\ ~flags.failed
  /\ outcome = "failed" => flags.failed
  /\ history # "none" => outcome \in DOMAIN HistoryOf /\ history = HistoryOf[outcome]

(* Once the epoch of the bridge is over, neither a late event nor a late   *)
(* Load more brings a result back, and nothing more is shown.              *)
LateEventsDropped ==
  (bridge # "spawn" /\ bridge_epoch # epoch)
     => /\ \A rs \in ResultSet : retained[rs] = NoResult
        /\ inbox = <<>> /\ ui.state = "none"

(* After the terminal event nothing reaches the webview and the outcome    *)
(* does not change, whatever the producer still sends.                     *)
NothingAfterTerminal ==
  [][outcome # "none" => outcome' = outcome /\ Len(inbox') <= Len(inbox)]_vars

(* The producer never waits for ever on an acknowledgement: the webview    *)
(* answers, the emission failure cancelled, or the reload closed the       *)
(* channel.                                                                *)
AckWaitEnds == AwaitingAck ~> ~AwaitingAck

(* A cleared flag always ends the job, and the session can run again.      *)
CancelStops == cancelled ~> pc = "done" /\ ~slot

(* The bridge always ends once the producer has: the execution does not    *)
(* stay registered, so the tab is never refused its next run for ever.     *)
ExecutionReleased == pc = "done" ~> bridge = "done" /\ ~live

(* What AckWaitEnds rests on: no acknowledgement is lost.  While the stream *)
(* is up and not cancelled, the batch that the producer waits for, or its   *)
(* acknowledgement, is on its way, or the page has refused an event and its *)
(* Cancel is.                                                               *)
Awaited(e) == e.type = "batch" /\ e.rs = stmt /\ e.sequence = sequence

AckOnItsWay ==
  (AwaitingAck /\ ~cancelled /\ live /\ bridge \in {"spawn", "recv"})
    => \/ \E i \in DOMAIN events : Awaited(events[i])
       \/ \E i \in DOMAIN inbox : Awaited(inbox[i])
       \/ ack # NoCall /\ ack.rs = stmt /\ ack.sequence = sequence
       \/ \E i \in DOMAIN controls : IsAck(controls[i]) \/ IsCancel(controls[i])
       \/ cancel_cmd.reject # "idle"

(* What ExecutionReleased rests on: a bridge that still listens to a        *)
(* producer that is done has a terminal event to read, and one that has     *)
(* stopped has taken the execution, and with it the sender of its controls, *)
(* out of the map.                                                          *)
ReleaseDue ==
  /\ (pc = "done" /\ bridge \in {"spawn", "recv"})
       => \E i \in DOMAIN events : events[i].type \in DOMAIN HistoryOf
  /\ bridge \in {"closing", "done"} => ~live
=============================================================================
