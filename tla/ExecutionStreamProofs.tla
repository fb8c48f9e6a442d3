----------------------- MODULE ExecutionStreamProofs ------------------------
(* Proofs about ExecutionStream for every number of statements, every size  *)
(* of batches, tranches and channels and every number of clicks.            *)
EXTENDS ExecutionStream, SequenceTheorems, FiniteSetTheorems, TLAPS

(* A queue of events, whatever an event carries: what is proved needs no    *)
(* more of them than their type.                                            *)
IsQueue(s) == s \in Seq(Range(s))

Says(s, type) == \E e \in Range(s) : e.type = type

LEMMA QueueGrows == ASSUME NEW s, IsQueue(s), NEW e
                    PROVE  /\ IsQueue(Append(s, e)) /\ Len(Append(s, e)) = Len(s) + 1
                           /\ Range(Append(s, e)) = Range(s) \cup {e}
<1> DEFINE S == Range(s) \cup {e}
<1>1. s \in Seq(S) /\ e \in S
  BY SeqMonotonic DEF IsQueue
<1> HIDE DEF S
<1>2. /\ Append(s, e) \in Seq(S) /\ Len(Append(s, e)) = Len(s) + 1
      /\ \A i \in 1..Len(s) : Append(s, e)[i] = s[i]
      /\ Append(s, e)[Len(s) + 1] = e
  BY <1>1, AppendProperties
<1>3. Len(s) \in Nat /\ DOMAIN s = 1..Len(s) /\ DOMAIN Append(s, e) = 1..(Len(s) + 1)
  BY <1>1, <1>2, LenProperties
<1>4. Range(Append(s, e)) = S
  BY <1>2, <1>3 DEF Range, S
<1>5. QED
  BY <1>2, <1>4 DEF IsQueue, S

LEMMA QueueShrinks == ASSUME NEW s, IsQueue(s), s # <<>>
                      PROVE  /\ IsQueue(Tail(s)) /\ Len(Tail(s)) = Len(s) - 1
                             /\ Range(Tail(s)) \subseteq Range(s)
                             /\ Head(s) \in Range(s)
<1>1. /\ Head(s) \in Range(s) /\ Tail(s) \in Seq(Range(s)) /\ Len(Tail(s)) = Len(s) - 1
      /\ \A i \in 1..Len(Tail(s)) : Tail(s)[i] = s[i + 1]
  BY HeadTailProperties DEF IsQueue
<1>2. Tail(s) \in [1..Len(Tail(s)) -> Range(s)] /\ Len(Tail(s)) \in Nat
      /\ DOMAIN Tail(s) = 1..Len(Tail(s))
  BY <1>1, LenProperties
<1>3. Range(Tail(s)) \subseteq Range(s)
  BY <1>2 DEF Range
<1>4. Tail(s) \in [1..Len(Tail(s)) -> Range(Tail(s))]
  BY <1>2 DEF Range
<1>5. Tail(s) \in Seq(Range(Tail(s)))
  BY <1>2, <1>4, SeqDef
<1>6. QED
  BY <1>1, <1>3, <1>5 DEF IsQueue

LEMMA QueueEmpty == IsQueue(<<>>) /\ Range(<<>>) = {} /\ Len(<<>>) = 0
<1>1. Range(<<>>) = {}
  BY DEF Range
<1>2. QED
  BY <1>1, EmptySeq DEF IsQueue

(* What the producer has sent, whether or not the bridge could take it.     *)
LEMMA SendSays == ASSUME NEW e, IsQueue(events), Send(e)
                  PROVE  /\ IsQueue(events')
                         /\ \A type : Says(events', type) => Says(events, type) \/ e.type = type
<1>1. CASE Receiving
  BY <1>1, QueueGrows DEF Send, Says
<1>2. CASE ~Receiving
  BY <1>2 DEF Send
<1>3. QED
  BY <1>1, <1>2

-----------------------------------------------------------------------------
(* OutcomeIsTrue speaks of the producer's state when the bridge reads the   *)
(* terminal event, which may be long after it was sent.  It is inductive    *)
(* with the history of that event: where the producer stands from the       *)
(* moment it sends one, and that what the event says of stmt, flags and     *)
(* cancelled cannot change from there.                                      *)
PCs == {"start", "statement", "fetch", "tranche", "pause", "paused", "drain", "result",
        "ack_full", "ack_tranche", "ack_last", "message", "end", "clear", "done"}

FlagSet == [columns : BOOLEAN, discarded : BOOLEAN, expired : BOOLEAN, failed : BOOLEAN]

Reported(type) == Says(events, type) \/ outcome = type

ProducerTyped ==
  /\ IsQueue(events)
  /\ pc \in PCs /\ flags \in FlagSet /\ stmt \in 1..(Statements + 1)
  /\ cancelled \in BOOLEAN

StatementsRun ==
  /\ pc \notin {"start", "statement", "end", "clear", "done"} => stmt <= Statements
  /\ pc = "end" => stmt = Statements + 1 \/ cancelled \/ flags.failed
  /\ flags.failed => pc \in {"result", "message", "end", "clear", "done"}

ReportsTrue ==
  /\ Reported("finished") => /\ pc \in {"clear", "done"} /\ stmt = Statements + 1
                             /\ ~flags.failed
  /\ Reported("cancelled") => pc \in {"clear", "done"} /\ cancelled /\ ~flags.failed
  /\ Reported("failed") => flags.failed

BridgeTrue ==
  /\ outcome # "none" => bridge \in {"remove", "closing", "done"}
  /\ history # "none" => outcome \in DOMAIN HistoryOf /\ history = HistoryOf[outcome]

OutcomeInv == ProducerTyped /\ StatementsRun /\ ReportsTrue /\ BridgeTrue

LEMMA NoFlagsTyped == NoFlags \in FlagSet /\ ~NoFlags.failed
  BY DEF NoFlags, FlagSet

LEMMA OutcomeInitially == Init => OutcomeInv
<1> SUFFICES ASSUME Init PROVE OutcomeInv
  OBVIOUS
<1>1. IsQueue(events) /\ \A type : ~Says(events, type)
  BY QueueEmpty DEF Init, Says
<1>2. pc = "start" /\ flags = NoFlags /\ stmt = 1 /\ cancelled = FALSE
      /\ outcome = "none" /\ history = "none"
  BY DEF Init
<1>3. 1 \in 1..(Statements + 1)
  BY StreamAssumption
<1>4. ProducerTyped
  BY <1>1, <1>2, <1>3, NoFlagsTyped DEF ProducerTyped, PCs
<1>5. QED
  BY <1>1, <1>2, <1>4, NoFlagsTyped DEF OutcomeInv, StatementsRun, ReportsTrue, BridgeTrue, Reported

(* The producer's own steps.                                                *)
LEMMA ProducerKeeps == ASSUME OutcomeInv, Producer PROVE OutcomeInv'
<1> USE StreamAssumption DEF OutcomeInv, ProducerTyped, StatementsRun, ReportsTrue, Reported,
                             PCs, FlagSet, Goto
<1>0. UNCHANGED <<bridge, outcome, history>>
  BY DEF Producer, Start, BeginStatement, BeginTransactionFails, FetchRow, FlushFullBatch,
         FlushTranche, SendBatch, OversizedRow, CursorEnds, StatementFails, SendPaused,
         DrainBatch, Acknowledged, AckRefused, DropControl, Continue, LeavePause, ExpirePause,
         SendResultTerminal, EndStatement, EndExecution, ClearActiveCancel, bridge_vars
<1>b. BridgeTrue'
  BY <1>0 DEF BridgeTrue
<1>1. CASE Start
  BY <1>1, <1>0, <1>b, SendSays DEF Start
<1>2. CASE BeginStatement
  <2>1. UNCHANGED <<events, cancelled, stmt>>
    BY <1>2 DEF BeginStatement, shared_vars
  <2>2. CASE stmt > Statements \/ cancelled
    BY <1>2, <2>1, <2>2, <1>0, <1>b DEF BeginStatement
  <2>3. CASE ~(stmt > Statements \/ cancelled)
    <3>1. PICK columns \in BOOLEAN : flags' = [NoFlags EXCEPT !.columns = columns]
      BY <1>2, <2>3 DEF BeginStatement
    <3>2. flags' \in FlagSet /\ flags'.failed = FALSE
      BY <3>1, NoFlagsTyped
    <3>3. QED
      BY <1>2, <2>1, <2>3, <3>2, <1>0, <1>b DEF BeginStatement
  <2>4. QED
    BY <2>2, <2>3
<1>3. CASE BeginTransactionFails
  <2>1. flags' \in FlagSet /\ flags'.failed
    BY <1>3, NoFlagsTyped DEF BeginTransactionFails
  <2>2. /\ IsQueue(events')
        /\ \A type : Says(events', type) => Says(events, type) \/ type = "failed"
    BY <1>3, SendSays DEF BeginTransactionFails
  <2>3. QED
    BY <1>3, <2>1, <2>2, <1>0, <1>b DEF BeginTransactionFails
<1>4. CASE FetchRow
  BY <1>4, <1>0, <1>b DEF FetchRow, PushRow, shared_vars
<1>5. ASSUME NEW n, NEW waiting \in {"ack_full", "ack_tranche", "ack_last"},
             NEW refused \in {"drain", "result"},
             pc \in {"fetch", "tranche", "drain"}, SendBatch(n, waiting, refused)
      PROVE  OutcomeInv'
  <2>1. /\ IsQueue(events')
        /\ \A type : Says(events', type) => Says(events, type) \/ type = "batch"
    BY <1>5, SendSays DEF SendBatch, Batch
  <2>2. cancelled' \in BOOLEAN /\ (cancelled => cancelled')
    BY <1>5 DEF SendBatch
  <2>3. flags' \in FlagSet /\ flags'.failed = flags.failed
    BY <1>5 DEF SendBatch
  <2>4. QED
    BY <1>5, <2>1, <2>2, <2>3, <1>0, <1>b DEF SendBatch
<1>6. CASE FlushFullBatch \/ FlushTranche
  BY <1>5, <1>6 DEF FlushFullBatch, FlushTranche
<1>7. CASE OversizedRow \/ CursorEnds \/ ExpirePause
  BY <1>7, <1>0, <1>b DEF OversizedRow, CursorEnds, ExpirePause, shared_vars
<1>8. CASE StatementFails
  <2>1. flags' \in FlagSet /\ flags'.failed
    BY <1>8 DEF StatementFails
  <2>2. /\ IsQueue(events')
        /\ \A type : Says(events', type) => Says(events, type) \/ type = "failed"
    BY <1>8, SendSays DEF StatementFails
  <2>3. QED
    BY <1>8, <2>1, <2>2, <1>0, <1>b DEF StatementFails
<1>9. CASE SendPaused
  BY <1>9, <1>0, <1>b, SendSays DEF SendPaused
<1>10. CASE DrainBatch
  BY <1>5, <1>10, <1>0, <1>b DEF DrainBatch, shared_vars
<1>11. CASE Acknowledged
  <2>1. UNCHANGED <<stmt, cancelled, events>> /\ pc \in {"ack_full", "ack_tranche", "ack_last"}
    BY <1>11 DEF Acknowledged, AwaitingAck, Acked
  <2>2. flags' \in FlagSet /\ flags'.failed = flags.failed
    BY <1>11 DEF Acknowledged, PushRow
  <2>3. pc' \in {"fetch", "drain", "tranche", "pause", "result"}
    <3>1. CASE pc = "ack_full"
      BY <1>11, <3>1 DEF Acknowledged, PushRow
    <3>2. CASE pc # "ack_full"
      BY <1>11, <2>1, <3>2 DEF Acknowledged, Acked
    <3>3. QED
      BY <3>1, <3>2
  <2>4. QED
    BY <2>1, <2>2, <2>3, <1>0, <1>b
<1>12. CASE AckRefused
  <2>1. UNCHANGED <<stmt, events>> /\ pc \in {"ack_full", "ack_tranche", "ack_last"}
    BY <1>12 DEF AckRefused, AwaitingAck, Acked
  <2>2. cancelled' \in BOOLEAN /\ (cancelled => cancelled')
    <3>1. cancelled' = TRUE \/ cancelled' = cancelled
      BY <1>12 DEF AckRefused
    <3>2. QED
      BY <3>1
  <2>3. flags' \in FlagSet /\ flags'.failed = flags.failed
    BY <1>12 DEF AckRefused
  <2>4. pc' \in {"drain", "result"}
    BY <1>12, <2>1 DEF AckRefused, Refused
  <2>5. QED
    BY <2>1, <2>2, <2>3, <2>4, <1>0, <1>b
<1>13. CASE DropControl
  BY <1>13, <1>0, <1>b DEF DropControl, AwaitingAck, Acked
<1>14. CASE Continue \/ LeavePause
  BY <1>14, <1>0, <1>b DEF Continue, LeavePause
<1>15. CASE SendResultTerminal
  BY <1>15, <1>0, <1>b, SendSays DEF SendResultTerminal
<1>16. CASE EndStatement
  BY <1>16, <1>0, <1>b, SendSays DEF EndStatement
<1>17. CASE EndExecution
  BY <1>17, <1>0, <1>b, SendSays DEF EndExecution
<1>18. CASE ClearActiveCancel
  BY <1>18, <1>0, <1>b DEF ClearActiveCancel
<1>19. QED
  BY <1>1, <1>2, <1>3, <1>4, <1>6, <1>7, <1>8, <1>9, <1>10, <1>11, <1>12, <1>13, <1>14,
     <1>15, <1>16, <1>17, <1>18 DEF Producer

(* The bridge takes an event that was sent, or drops it.                    *)
LEMMA BridgeKeeps == ASSUME OutcomeInv, Bridge PROVE OutcomeInv'
<1> USE DEF OutcomeInv
<1>1. UNCHANGED producer_vars /\ cancelled' \in BOOLEAN /\ (cancelled => cancelled')
  <2>1. UNCHANGED cancelled \/ request_cancel
    BY DEF Bridge, SpawnBridge, Receive, RejectEvent, LateEpoch, RemoveExecution, CloseBridge,
           shared_vars
  <2>2. UNCHANGED producer_vars
    BY DEF Bridge, SpawnBridge, Receive, RejectEvent, LateEpoch, RemoveExecution, CloseBridge
  <2>3. QED
    BY <2>1, <2>2 DEF request_cancel, ProducerTyped
<1>2. ASSUME IsQueue(events'), \A type : Says(events', type) => Says(events, type),
             \A type : outcome' = type => \/ outcome = type \/ Says(events, type)
                                          \/ type = "internal",
             BridgeTrue'
      PROVE  OutcomeInv'
  BY <1>1, <1>2 DEF producer_vars, ProducerTyped, StatementsRun, ReportsTrue, Reported
<1>3. CASE SpawnBridge \/ RemoveExecution
  BY <1>2, <1>3 DEF SpawnBridge, RemoveExecution, shared_vars, BridgeTrue, ProducerTyped
<1>4. CASE CloseBridge
  <2>1. IsQueue(events') /\ \A type : ~Says(events', type)
    BY <1>4, QueueEmpty DEF CloseBridge, Says
  <2>2. QED
    BY <1>2, <1>4, <2>1 DEF CloseBridge, BridgeTrue
<1>5. CASE events # <<>> /\ events' = Tail(events)
  <2>1. /\ IsQueue(events') /\ \A type : Says(events', type) => Says(events, type)
        /\ Says(events, Head(events).type)
    BY <1>5, QueueShrinks DEF ProducerTyped, Says
  <2>2. CASE Receive
    BY <1>2, <2>1, <2>2 DEF Receive, InEpoch, BridgeTrue
  <2>3. CASE RejectEvent
    <3>1. outcome' = "internal" /\ UNCHANGED history /\ bridge = "recv"
      BY <2>3 DEF RejectEvent, InEpoch
    <3>2. history = "none"
      BY <3>1 DEF BridgeTrue, HistoryOf
    <3>3. BridgeTrue'
      BY <2>3, <3>1, <3>2 DEF RejectEvent, BridgeTrue
    <3>4. QED
      BY <1>2, <2>1, <3>1, <3>3
  <2>4. CASE LateEpoch
    BY <1>2, <2>1, <2>4 DEF LateEpoch, BridgeTrue
  <2>5. QED
    BY <1>5, <2>2, <2>3, <2>4, <1>3, <1>4 DEF Bridge
<1>6. QED
  BY <1>3, <1>4, <1>5 DEF Bridge, Receive, RejectEvent, LateEpoch, InEpoch

(* Nobody else touches what the producer says; a reload and the two         *)
(* commands that cancel only clear the flag.                                *)
LEMMA OthersKeep == ASSUME OutcomeInv, handleExecutionEvent \/ Commands \/ User \/ Reload \/ Settled
                    PROVE  OutcomeInv'
<1>1. UNCHANGED <<producer_vars, events, bridge, outcome, history>>
  BY DEF handleExecutionEvent, Commands, ack_result_batch, CancelReply, cancel_execution,
         send_result_control, MoreReply, User, ClickCancel, ClickMore, Reload, Settled,
         shared_vars, bridge_vars, vars
<1>2. UNCHANGED cancelled \/ request_cancel
  BY DEF handleExecutionEvent, Commands, ack_result_batch, CancelReply, cancel_execution,
         send_result_control, MoreReply, User, ClickCancel, ClickMore, Reload, Settled,
         shared_vars, vars
<1>3. cancelled' \in BOOLEAN /\ (cancelled => cancelled')
  BY <1>2 DEF request_cancel, OutcomeInv, ProducerTyped
<1>4. QED
  BY <1>1, <1>3 DEF OutcomeInv, producer_vars, ProducerTyped, StatementsRun, ReportsTrue,
                    BridgeTrue, Reported

LEMMA OutcomeInductive == OutcomeInv /\ [Next]_vars => OutcomeInv'
<1> SUFFICES ASSUME OutcomeInv, [Next]_vars PROVE OutcomeInv'
  OBVIOUS
<1>1. CASE UNCHANGED vars
  BY <1>1 DEF vars, producer_vars, shared_vars, bridge_vars, OutcomeInv, ProducerTyped,
              StatementsRun, ReportsTrue, BridgeTrue, Reported
<1>2. QED
  BY <1>1, ProducerKeeps, BridgeKeeps, OthersKeep DEF Next

LEMMA OutcomeInvHolds == Spec => []OutcomeInv
  BY OutcomeInitially, OutcomeInductive, PTL DEF Spec

(* The terminal event the bridge passes on, and the history entry it        *)
(* writes, say what happened to the execution, however late they are read   *)
(* and whatever was cancelled, reloaded or refused meanwhile.               *)
THEOREM TheOutcomeIsTrue == Spec => []OutcomeIsTrue
<1>1. OutcomeInv => OutcomeIsTrue
  BY DEF OutcomeInv, ReportsTrue, BridgeTrue, Reported, OutcomeIsTrue
<1>2. QED
  BY <1>1, OutcomeInvHolds, PTL

-----------------------------------------------------------------------------
(* Only the bridge adds to the webview's queue, and only while it receives. *)
LEMMA InboxSteps == ASSUME IsQueue(inbox), [Next]_vars
                    PROVE  /\ IsQueue(inbox')
                           /\ bridge # "recv" => Len(inbox') <= Len(inbox)
<1>1. CASE UNCHANGED inbox
  <2>1. Len(inbox) \in Nat
    BY LenProperties DEF IsQueue
  <2>2. QED
    BY <1>1, <2>1
<1>2. CASE handleExecutionEvent
  <2>1. inbox # <<>> /\ inbox' = Tail(inbox)
    BY <1>2 DEF handleExecutionEvent
  <2>2. Len(inbox) \in Nat
    BY LenProperties DEF IsQueue
  <2>3. QED
    BY <2>1, <2>2, QueueShrinks
<1>3. CASE Reload
  <2>1. inbox' = <<>>
    BY <1>3 DEF Reload
  <2>2. Len(inbox) \in Nat
    BY LenProperties DEF IsQueue
  <2>3. QED
    BY <2>1, <2>2, QueueEmpty
<1>4. CASE Receive \/ RejectEvent
  <2>1. PICK e : inbox' = inbox \/ inbox' = Append(inbox, e)
    BY <1>4 DEF Receive, RejectEvent
  <2>2. bridge = "recv"
    BY <1>4 DEF Receive, RejectEvent, InEpoch
  <2>3. QED
    BY <2>1, <2>2, QueueGrows
<1>5. Producer => UNCHANGED inbox
  BY DEF Producer, Start, BeginStatement, BeginTransactionFails, FetchRow, FlushFullBatch,
         FlushTranche, SendBatch, OversizedRow, CursorEnds, StatementFails, SendPaused,
         DrainBatch, Acknowledged, AckRefused, DropControl, Continue, LeavePause, ExpirePause,
         SendResultTerminal, EndStatement, EndExecution, ClearActiveCancel, ui_vars
<1>6. SpawnBridge \/ LateEpoch \/ RemoveExecution \/ CloseBridge => UNCHANGED inbox
  BY DEF SpawnBridge, LateEpoch, RemoveExecution, CloseBridge, ui_vars
<1>7. Commands \/ User \/ Settled \/ UNCHANGED vars => UNCHANGED inbox
  BY DEF Commands, ack_result_batch, CancelReply, cancel_execution, send_result_control,
         MoreReply, User, ClickCancel, ClickMore, Settled, vars, ui_vars
<1>8. QED
  BY <1>1, <1>2, <1>3, <1>4, <1>5, <1>6, <1>7 DEF Next, Bridge

LEMMA InboxIsQueue == Spec => []IsQueue(inbox)
<1>1. Init => IsQueue(inbox)
  BY QueueEmpty DEF Init
<1>2. IsQueue(inbox) /\ [Next]_vars => IsQueue(inbox)'
  BY InboxSteps
<1>3. QED
  BY <1>1, <1>2, PTL DEF Spec

(* Once the outcome is known nothing more is emitted and the outcome stays, *)
(* although the producer may still send and the webview still ask.          *)
THEOREM NothingFollowsTheTerminal == Spec => NothingAfterTerminal
<1>1. OutcomeInv /\ IsQueue(inbox) /\ [Next]_vars
        => [outcome # "none" => outcome' = outcome /\ Len(inbox') <= Len(inbox)]_vars
  <2> SUFFICES ASSUME OutcomeInv, IsQueue(inbox), Next, outcome # "none"
               PROVE  outcome' = outcome /\ Len(inbox') <= Len(inbox)
    OBVIOUS
  <2>1. bridge # "recv"
    BY DEF OutcomeInv, BridgeTrue
  <2>2. Len(inbox') <= Len(inbox)
    BY <2>1, InboxSteps
  <2>3. outcome' = outcome
    <3>1. Producer => UNCHANGED outcome
      BY DEF Producer, Start, BeginStatement, BeginTransactionFails, FetchRow, FlushFullBatch,
             FlushTranche, SendBatch, OversizedRow, CursorEnds, StatementFails, SendPaused,
             DrainBatch, Acknowledged, AckRefused, DropControl, Continue, LeavePause,
             ExpirePause, SendResultTerminal, EndStatement, EndExecution, ClearActiveCancel,
             bridge_vars
    <3>2. Bridge => UNCHANGED outcome
      BY <2>1 DEF Bridge, SpawnBridge, Receive, RejectEvent, LateEpoch, RemoveExecution,
                  CloseBridge, InEpoch
    <3>3. handleExecutionEvent \/ Commands \/ User \/ Reload \/ Settled => UNCHANGED outcome
      BY DEF handleExecutionEvent, Commands, ack_result_batch, CancelReply, cancel_execution,
             send_result_control, MoreReply, User, ClickCancel, ClickMore, Reload, Settled,
             bridge_vars, vars
    <3>4. QED
      BY <3>1, <3>2, <3>3 DEF Next
  <2>4. QED
    BY <2>2, <2>3
<1>2. QED
  BY <1>1, OutcomeInvHolds, InboxIsQueue, PTL DEF Spec, NothingAfterTerminal

-----------------------------------------------------------------------------
MoreTyped ==
  more \in [Clicks -> [phase : Phases, kind : {"load_more", "discard"}, rs : ResultSet]]

LEMMA MoreIsTyped == Spec => []MoreTyped
<1>1. Init => MoreTyped
  <2>1. 1 \in ResultSet
    BY StreamAssumption DEF ResultSet
  <2>2. QED
    BY <2>1 DEF Init, MoreTyped, Unclicked, Phases
<1>2. MoreTyped /\ [Next]_vars => MoreTyped'
  <2> SUFFICES ASSUME MoreTyped, [Next]_vars PROVE MoreTyped'
    OBVIOUS
  <2> USE DEF MoreTyped, Phases
  <2>1. ASSUME NEW click \in Clicks, send_result_control(click) PROVE MoreTyped'
    BY <2>1 DEF send_result_control
  <2>2. ASSUME NEW click \in Clicks, MoreReply(click) PROVE MoreTyped'
    BY <2>2 DEF MoreReply
  <2>3. CASE User
    BY <2>3 DEF User, ClickCancel, ClickMore
  <2>4. CASE Reload
    BY <2>4 DEF Reload
  <2>5. CASE UNCHANGED more
    BY <2>5
  <2>6. Producer => UNCHANGED more
    BY DEF Producer, Start, BeginStatement, BeginTransactionFails, FetchRow, FlushFullBatch,
           FlushTranche, SendBatch, OversizedRow, CursorEnds, StatementFails, SendPaused,
           DrainBatch, Acknowledged, AckRefused, DropControl, Continue, LeavePause, ExpirePause,
           SendResultTerminal, EndStatement, EndExecution, ClearActiveCancel, ui_vars
  <2>7. Bridge \/ handleExecutionEvent \/ Settled \/ UNCHANGED vars => UNCHANGED more
    BY DEF Bridge, SpawnBridge, Receive, RejectEvent, LateEpoch, RemoveExecution, CloseBridge,
           handleExecutionEvent, Settled, vars, ui_vars
  <2>8. ack_result_batch \/ CancelReply \/ (\E who \in {"button", "reject"} : cancel_execution(who))
          => UNCHANGED more
    BY DEF ack_result_batch, CancelReply, cancel_execution
  <2>9. QED
    BY <2>1, <2>2, <2>3, <2>4, <2>5, <2>6, <2>7, <2>8 DEF Next, Commands
<1>3. QED
  BY <1>1, <1>2, PTL DEF Spec

(* A reload leaves the results and the page empty.  That they stay so needs *)
(* to know that no reply of a cancel command is under way to the new page   *)
(* (CancelReply would give it a state) and that a Load more that was under  *)
(* way names a result set.                                                  *)
Late == bridge # "spawn" /\ bridge_epoch # epoch

LateInv ==
  /\ bridge \in {"spawn", "recv", "remove", "closing", "done"}
  /\ epoch \in {0, 1} /\ bridge_epoch \in {0, 1}
  /\ bridge = "spawn" => bridge_epoch = 0
  /\ bridge # "spawn" => bridge_epoch <= epoch
  /\ "state" \in DOMAIN ui
  /\ "button" \in DOMAIN cancel_cmd
  /\ Late => /\ \A rs \in ResultSet : retained[rs] = NoResult
             /\ inbox = <<>> /\ ui.state = "none"
             /\ cancel_cmd.button = "idle"

LEMMA LateInitially == Init => LateInv
  BY Zenon DEF Init, LateInv, Late, NoExecution

LEMMA LateInductive == MoreTyped /\ LateInv /\ [Next]_vars => LateInv'
<1> SUFFICES ASSUME MoreTyped, LateInv, [Next]_vars PROVE LateInv'
  OBVIOUS
<1> USE DEF LateInv, Late
<1>1. CASE UNCHANGED <<bridge, epoch, bridge_epoch, ui, cancel_cmd, retained, inbox>>
  BY <1>1
<1>2. CASE Producer
  <2>1. UNCHANGED <<epoch, bridge_vars, ui_vars>>
    BY <1>2 DEF Producer, Start, BeginStatement, BeginTransactionFails, FetchRow,
         FlushFullBatch, FlushTranche, SendBatch, OversizedRow, CursorEnds, StatementFails,
         SendPaused, DrainBatch, Acknowledged, AckRefused, DropControl, Continue, LeavePause,
         ExpirePause, SendResultTerminal, EndStatement, EndExecution, ClearActiveCancel,
         shared_vars
  <2>2. QED
    BY <1>1, <2>1 DEF bridge_vars, ui_vars
<1>3. CASE Bridge
  <2>1. UNCHANGED <<epoch, ui, cancel_cmd>>
    BY <1>3 DEF Bridge, SpawnBridge, Receive, RejectEvent, LateEpoch, RemoveExecution,
                CloseBridge, shared_vars, ui_vars
  <2>2. CASE SpawnBridge
    BY <2>1, <2>2 DEF SpawnBridge
  <2>3. CASE Receive \/ RejectEvent
    BY <2>1, <2>3 DEF Receive, RejectEvent, InEpoch
  <2>4. CASE LateEpoch \/ RemoveExecution \/ CloseBridge
    BY <2>1, <2>4 DEF LateEpoch, RemoveExecution, CloseBridge, ui_vars
  <2>5. QED
    BY <1>3, <2>2, <2>3, <2>4 DEF Bridge
<1>4. CASE handleExecutionEvent
  <2>1. inbox # <<>> /\ UNCHANGED <<bridge, epoch, bridge_epoch, retained>>
    BY <1>4 DEF handleExecutionEvent, shared_vars, bridge_vars
  <2>2. DOMAIN ui' = DOMAIN ui /\ DOMAIN cancel_cmd' = DOMAIN cancel_cmd
    BY <1>4 DEF handleExecutionEvent, HandleBatch, rejectExecutionEvent, HandlePaused,
                HandleResultTerminal, HandleLifecycle, Ignore, SetState, SetResult
  <2>3. QED
    BY <2>1, <2>2
<1>5. CASE ack_result_batch
  BY <1>1, <1>5 DEF ack_result_batch, bridge_vars
<1>6. CASE CancelReply
  <2>1. cancel_cmd.button = "replied" /\ UNCHANGED <<bridge, epoch, bridge_epoch, retained>>
    BY <1>6 DEF CancelReply, shared_vars, bridge_vars
  <2>2. DOMAIN ui' = DOMAIN ui /\ DOMAIN cancel_cmd' = DOMAIN cancel_cmd
    BY <1>6 DEF CancelReply, SetState
  <2>3. QED
    BY <2>1, <2>2
<1>7. ASSUME NEW who \in {"button", "reject"}, cancel_execution(who)
      PROVE  LateInv'
  <2>1. UNCHANGED <<bridge, epoch, bridge_epoch, retained, inbox, ui>>
    BY <1>7 DEF cancel_execution, bridge_vars
  <2>2. DOMAIN cancel_cmd' = DOMAIN cancel_cmd
    BY <1>7 DEF cancel_execution
  <2>3. cancel_cmd.button = "idle" => cancel_cmd'.button = "idle"
    BY <1>7 DEF cancel_execution
  <2>4. QED
    BY <2>1, <2>2, <2>3
<1>8. ASSUME NEW click \in Clicks, send_result_control(click)
      PROVE  LateInv'
  <2>1. UNCHANGED <<bridge, epoch, bridge_epoch, inbox, ui, cancel_cmd>>
    BY <1>8 DEF send_result_control
  <2>2. (\A rs \in ResultSet : retained[rs] = NoResult) => retained' = retained
    <3>1. more[click].rs \in ResultSet
      BY <1>8 DEF MoreTyped
    <3>2. UNCHANGED retained \/ retained[more[click].rs] # NoResult
      BY <1>8 DEF send_result_control
    <3>3. QED
      BY <3>1, <3>2
  <2>3. QED
    BY <2>1, <2>2
<1>9. ASSUME NEW click \in Clicks, MoreReply(click)
      PROVE  LateInv'
  <2>1. UNCHANGED <<bridge, epoch, bridge_epoch, retained, inbox, cancel_cmd>>
    BY <1>9 DEF MoreReply, bridge_vars, shared_vars
  <2>2. DOMAIN ui' = DOMAIN ui /\ ui'.state = ui.state
    BY <1>9 DEF MoreReply
  <2>3. QED
    BY <2>1, <2>2
<1>10. CASE User
  <2>1. UNCHANGED <<bridge, epoch, bridge_epoch, retained, inbox, ui>>
    BY <1>10 DEF User, ClickCancel, ClickMore, bridge_vars, shared_vars
  <2>2. CASE ClickCancel
    <3>1. ui.state # "none" /\ DOMAIN cancel_cmd' = DOMAIN cancel_cmd
      BY <2>2 DEF ClickCancel, ActiveStates
    <3>2. QED
      BY <2>1, <3>1
  <2>3. CASE UNCHANGED cancel_cmd
    BY <2>1, <2>3
  <2>4. QED
    BY <1>10, <2>2, <2>3 DEF User, ClickMore
<1>11. CASE Reload
  <2>1. epoch = 0 /\ epoch' = 1 /\ UNCHANGED <<bridge, bridge_epoch>>
    BY <1>11 DEF Reload
  <2>2. inbox' = <<>> /\ \A rs \in ResultSet : retained'[rs] = NoResult
    BY <1>11 DEF Reload
  <2>3. "state" \in DOMAIN ui' /\ ui'.state = "none"
    BY <1>11 DEF Reload, NoExecution
  <2>4. "button" \in DOMAIN cancel_cmd' /\ cancel_cmd'.button = "idle"
    BY <1>11 DEF Reload
  <2>5. QED
    BY <2>1, <2>2, <2>3, <2>4
<1>12. CASE Settled \/ UNCHANGED vars
  BY <1>1, <1>12 DEF Settled, vars, shared_vars, bridge_vars, ui_vars
<1>13. QED
  BY <1>2, <1>3, <1>4, <1>5, <1>6, <1>7, <1>8, <1>9, <1>10, <1>11, <1>12 DEF Next, Commands

(* After a reload no event and no command of the old page brings a result   *)
(* back or shows anything, for any number of Load more clicks under way.    *)
THEOREM LateEventsAreDropped == Spec => []LateEventsDropped
<1>1. LateInv => LateEventsDropped
  BY DEF LateInv, Late, LateEventsDropped
<1>2. QED
  BY <1>1, LateInitially, LateInductive, MoreIsTyped, PTL DEF Spec

-----------------------------------------------------------------------------
(* What goes through the two channels and to the page.                      *)
Event ==
  [type : {"started", "finished", "failed", "cancelled"}]
    \cup [type : {"statement_message"}, rs : ResultSet]
    \cup [type : {"batch", "paused"}, rs : ResultSet, sequence : Nat, rows : Nat]
    \cup [type : {"result_terminal"}, rs : ResultSet, sequence : Nat, rows : Nat,
          state : ResultTerminals]

Control ==
  [type : {"ack"}, rs : ResultSet, sequence : Nat]
    \cup [type : {"load_more", "discard"}, rs : ResultSet] \cup [type : {"cancel"}]

CountsTyped ==
  /\ sequence \in Nat /\ unsent \in Nat /\ limit \in Nat
  /\ fetched \in [ResultSet -> Nat] /\ exhausted \subseteq ResultSet
  /\ pc \in {"fetch", "tranche", "drain"} => unsent <= fetched[stmt]
  /\ pc \in {"ack_full", "ack_tranche", "ack_last", "pause", "paused"} => unsent = 0
  /\ slot <=> pc \notin {"start", "done"}

PipeTyped ==
  /\ Range(events) \subseteq Event
  /\ IsQueue(inbox) /\ Range(inbox) \subseteq Event
  /\ IsQueue(controls) /\ Range(controls) \subseteq Control
  /\ ack \in AckCall \cup {NoCall}

CopiesTyped ==
  /\ retained \in [ResultSet -> RetainedResult \cup {NoResult}]
  /\ DOMAIN ui = {"state", "results"}
  /\ ui.results \in [ResultSet -> ShownResult \cup {NoResult}]

StreamTyped == CountsTyped /\ PipeTyped /\ CopiesTyped

(* Where the producer works on its statement.                               *)
Running == pc \notin {"start", "statement", "end", "clear", "done"}

LEMMA RunningIsOn == ASSUME OutcomeInv, Running PROVE stmt \in ResultSet
  BY StreamAssumption DEF OutcomeInv, ProducerTyped, StatementsRun, Running, ResultSet

LEMMA SendAdds == ASSUME NEW e, IsQueue(events), Send(e)
                  PROVE  IsQueue(events') /\ Range(events') \subseteq Range(events) \cup {e}
<1>1. CASE Receiving
  BY <1>1, QueueGrows DEF Send
<1>2. CASE ~Receiving
  BY <1>2 DEF Send
<1>3. QED
  BY <1>1, <1>2

LEMMA TakeKeeps == ASSUME IsQueue(controls), Take
                   PROVE  /\ IsQueue(controls') /\ Range(controls') \subseteq Range(controls)
                          /\ Head(controls) \in Range(controls)
  BY QueueShrinks DEF Take

LEMMA ProducerFrame == Producer => UNCHANGED <<live, epoch, bridge_vars, ui_vars>>
  BY DEF Producer, Start, BeginStatement, BeginTransactionFails, FetchRow, FlushFullBatch,
         FlushTranche, SendBatch, OversizedRow, CursorEnds, StatementFails, SendPaused,
         DrainBatch, Acknowledged, AckRefused, DropControl, Continue, LeavePause, ExpirePause,
         SendResultTerminal, EndStatement, EndExecution, ClearActiveCancel, shared_vars

(* What the producer counts.                                                *)
LEMMA PushCounts == ASSUME OutcomeInv, CountsTyped, Running, NEW filled \in Nat, PushRow(filled),
                           filled <= fetched[stmt], UNCHANGED <<stmt, slot>>,
                           sequence' \in Nat, limit' = limit
                    PROVE  CountsTyped'
<1>1. stmt \in ResultSet
  BY RunningIsOn
<1>2. /\ fetched' \in [ResultSet -> Nat] /\ unsent' \in Nat /\ unsent' <= fetched'[stmt]
      /\ exhausted' \subseteq ResultSet
  BY <1>1 DEF PushRow, CountsTyped
<1>3. pc' \in {"fetch", "tranche", "drain"}
  BY DEF PushRow, Goto
<1>4. QED
  BY <1>2, <1>3 DEF CountsTyped, Running

LEMMA ProducerCounts == ASSUME OutcomeInv, StreamTyped, Producer PROVE CountsTyped'
<1> USE StreamAssumption DEF StreamTyped, OutcomeInv
<1>0. Running => stmt \in ResultSet
  BY RunningIsOn
<1>t. CountsTyped /\ pc \in PCs /\ flags \in FlagSet
  BY DEF ProducerTyped
<1>1. CASE Start \/ EndExecution \/ ClearActiveCancel
  BY <1>1, <1>t DEF Start, EndExecution, ClearActiveCancel, CountsTyped, Goto, PCs
<1>2. CASE BeginStatement
  <2>1. stmt \in ResultSet \/ pc' = "end"
    BY <1>2 DEF BeginStatement, Goto, ResultSet, ProducerTyped
  <2>2. QED
    BY <1>2, <1>t, <2>1 DEF BeginStatement, Goto, CountsTyped, shared_vars
<1>3. CASE BeginTransactionFails
  BY <1>3, <1>t DEF BeginTransactionFails, CountsTyped, Goto
<1>4. CASE FetchRow
  <2>1. pc = "fetch" /\ PushRow(unsent) /\ UNCHANGED <<stmt, slot, sequence, limit>>
    BY <1>4 DEF FetchRow, shared_vars
  <2>2. QED
    BY <2>1, PushCounts DEF CountsTyped, Running
<1>5. ASSUME NEW n, NEW waiting \in {"ack_full", "ack_tranche", "ack_last"},
             NEW refused \in {"drain", "result"},
             pc \in {"fetch", "tranche", "drain"}, SendBatch(n, waiting, refused)
      PROVE  CountsTyped'
  BY <1>0, <1>5, <1>t DEF SendBatch, CountsTyped, Running, Goto
<1>6. CASE FlushFullBatch \/ FlushTranche
  BY <1>5, <1>6 DEF FlushFullBatch, FlushTranche
<1>7. CASE OversizedRow \/ CursorEnds
  BY <1>0, <1>7, <1>t DEF OversizedRow, CursorEnds, CountsTyped, shared_vars, Running, Goto
<1>8. CASE StatementFails
  <2>1. fetched[stmt] - unsent \in Nat /\ fetched \in [ResultSet -> Nat]
    BY <1>0, <1>8, <1>t DEF StatementFails, CountsTyped, Running
  <2>2. fetched' \in [ResultSet -> Nat]
    BY <1>8, <2>1 DEF StatementFails
  <2>3. QED
    BY <1>8, <1>t, <2>2 DEF StatementFails, CountsTyped, Goto
<1>9. CASE SendPaused \/ Continue \/ LeavePause \/ ExpirePause
  <2>1. stmt \in ResultSet
    BY <1>0, <1>9 DEF SendPaused, Continue, LeavePause, ExpirePause, Running
  <2>2. UNCHANGED <<sequence, unsent, fetched, exhausted, stmt, slot>>
    BY <1>9 DEF SendPaused, Continue, LeavePause, ExpirePause, shared_vars
  <2>3. pc \in {"pause", "paused"} /\ pc' \in {"drain", "paused", "fetch"} /\ limit' \in Nat
    BY <1>9, <1>t DEF SendPaused, Continue, LeavePause, ExpirePause, Goto, CountsTyped
  <2>4. QED
    BY <1>t, <2>1, <2>2, <2>3 DEF CountsTyped
<1>10. CASE DrainBatch
  BY <1>5, <1>10, <1>t DEF DrainBatch, CountsTyped, Goto, shared_vars
<1>11. CASE Acknowledged
  <2>1. /\ pc \in {"ack_full", "ack_tranche", "ack_last"} /\ sequence' \in Nat
        /\ UNCHANGED <<stmt, slot, limit>>
    BY <1>11, <1>t DEF Acknowledged, AwaitingAck, Acked, CountsTyped
  <2>2. CASE pc = "ack_full"
    <3>1. PushRow(0)
      BY <1>11, <2>2 DEF Acknowledged
    <3>2. 0 <= fetched[stmt]
      BY <1>0, <2>2, <1>t DEF CountsTyped, Running
    <3>3. QED
      BY <2>1, <2>2, <3>1, <3>2, PushCounts DEF Running
  <2>3. CASE pc # "ack_full"
    BY <1>11, <1>t, <2>1, <2>3 DEF Acknowledged, Acked, CountsTyped, Goto
  <2>4. QED
    BY <2>2, <2>3
<1>12. CASE AckRefused
  <2>1. /\ pc \in {"ack_full", "ack_tranche", "ack_last"} /\ pc' \in {"drain", "result"}
        /\ UNCHANGED <<stmt, slot, limit, sequence, unsent, fetched, exhausted>>
    BY <1>12 DEF AckRefused, AwaitingAck, Acked, Refused, Goto
  <2>2. QED
    BY <1>0, <1>t, <2>1 DEF CountsTyped, Running
<1>13. CASE DropControl
  <2>1. /\ \/ pc' = pc /\ pc \in {"ack_full", "ack_tranche", "ack_last"}
           \/ pc = "paused" /\ pc' \in {"drain", "paused"}
        /\ UNCHANGED <<stmt, slot, limit, sequence, unsent, fetched, exhausted>>
    BY <1>13 DEF DropControl, AwaitingAck, Acked, Goto
  <2>2. QED
    BY <1>0, <1>t, <2>1 DEF CountsTyped, Running
<1>14. CASE SendResultTerminal \/ EndStatement
  BY <1>14, <1>t DEF SendResultTerminal, EndStatement, CountsTyped, Goto
<1>15. QED
  BY <1>1, <1>2, <1>3, <1>4, <1>6, <1>7, <1>8, <1>9, <1>10, <1>11, <1>12, <1>13, <1>14
     DEF Producer

(* What the producer sends: at most one event, a batch of what it has not   *)
(* sent yet, or the end of a result as it stands.                           *)
Sends(e) ==
  /\ e \in Event
  /\ e.type = "batch" =>
       /\ e.rs = stmt /\ e.sequence = sequence /\ e.rows = unsent
       /\ pc \in {"fetch", "tranche", "drain"}
       /\ pc = "drain" <=> pc' \in {"ack_last", "result"}
       /\ pc = "drain" => ~cancelled /\ ~flags.discarded
       /\ UNCHANGED <<stmt, sequence, fetched>>
       /\ unsent' = 0 /\ pc' \in {"ack_full", "ack_tranche", "ack_last", "drain", "result"}
  /\ e.type = "result_terminal" =>
       /\ pc = "result" /\ pc' = "message"
       /\ e.rs = stmt /\ e.rows = fetched[stmt] /\ e.state = TerminalState
       /\ UNCHANGED <<stmt, fetched, exhausted>>

LEMMA ProducerSends ==
  ASSUME OutcomeInv, StreamTyped, Producer
  PROVE  /\ IsQueue(events')
         /\ Range(events') = Range(events) \/ \E e \in Event :
              Sends(e) /\ Range(events') \subseteq Range(events) \cup {e}
<1> DEFINE Sent(e) == IsQueue(events') /\ Range(events') \subseteq Range(events) \cup {e}
<1>0. IsQueue(events) /\ (Running => stmt \in ResultSet) /\ pc \in PCs /\ flags \in FlagSet
  BY RunningIsOn DEF OutcomeInv, ProducerTyped
<1>1. ASSUME NEW e, Send(e) PROVE Sent(e)
  BY <1>0, <1>1, SendAdds
<1>l. ASSUME NEW type \in {"started", "finished", "failed", "cancelled"}, Send([type |-> type])
      PROVE  \E e \in Event : Sends(e) /\ Sent(e)
  <2> DEFINE e == [type |-> type]
  <2>1. e \in Event /\ Sends(e)
    BY DEF Sends, Event
  <2>2. Sent(e)
    BY <1>1, <1>l
  <2>3. QED
    BY <2>1, <2>2
<1>b. ASSUME NEW n, n = unsent, NEW waiting \in {"ack_full", "ack_tranche", "ack_last"},
             NEW refused \in {"drain", "result"},
             pc \in {"fetch", "tranche", "drain"},
             pc = "drain" <=> waiting = "ack_last", pc = "drain" <=> refused = "result",
             pc = "drain" => ~cancelled /\ ~flags.discarded,
             SendBatch(n, waiting, refused)
      PROVE  Sends(Batch(n)) /\ Sent(Batch(n))
  <2>1. Batch(n) \in Event
    BY <1>0, <1>b DEF Batch, Event, StreamTyped, CountsTyped, Running
  <2>2. Send(Batch(n)) /\ UNCHANGED <<stmt, sequence, fetched>> /\ unsent' = 0
        /\ pc' \in {waiting, refused}
    BY <1>b DEF SendBatch, Goto
  <2>3. /\ Batch(n).type = "batch" /\ Batch(n).rs = stmt /\ Batch(n).sequence = sequence
        /\ Batch(n).rows = unsent
    BY <1>b DEF Batch
  <2>4. Sends(Batch(n))
    BY <1>b, <2>1, <2>2, <2>3 DEF Sends
  <2>5. QED
    BY <1>1, <2>2, <2>4
<1>2. CASE Start \/ BeginTransactionFails \/ StatementFails
  <2>1. Send([type |-> "started"]) \/ Send([type |-> "failed"])
    BY <1>2 DEF Start, BeginTransactionFails, StatementFails
  <2>2. QED
    BY <1>l, <2>1
<1>3. CASE EndExecution
  <2>1. UNCHANGED events \/ Send([type |-> "finished"]) \/ Send([type |-> "cancelled"])
    BY <1>3 DEF EndExecution
  <2>2. QED
    BY <1>0, <1>l, <2>1
<1>4. CASE FlushFullBatch \/ FlushTranche
  <2>1. Sends(Batch(unsent)) /\ Sent(Batch(unsent))
    BY <1>b, <1>4 DEF FlushFullBatch, FlushTranche
  <2>2. QED
    BY <2>1 DEF Sends
<1>5. CASE DrainBatch
  <2>1. CASE UNCHANGED events
    BY <1>0, <2>1
  <2>2. CASE ~ UNCHANGED events
    <3>1. Sends(Batch(unsent)) /\ Sent(Batch(unsent))
      BY <1>b, <1>5, <2>2 DEF DrainBatch, shared_vars
    <3>2. QED
      BY <3>1 DEF Sends
  <2>3. QED
    BY <2>1, <2>2
<1>6. CASE SendPaused
  <2> DEFINE e == [type |-> "paused", rs |-> stmt, sequence |-> sequence, rows |-> fetched[stmt]]
  <2>1. e \in Event
    BY <1>0, <1>6 DEF SendPaused, Event, StreamTyped, CountsTyped, Running
  <2>2. Send(e) /\ Sends(e)
    BY <1>6, <2>1 DEF SendPaused, Sends
  <2>3. QED
    BY <1>1, <2>1, <2>2
<1>7. CASE SendResultTerminal
  <2> DEFINE e == [type |-> "result_terminal", rs |-> stmt, sequence |-> sequence,
                   rows |-> fetched[stmt], state |-> TerminalState]
  <2>1. CASE UNCHANGED events
    BY <1>0, <2>1
  <2>2. CASE Send(e)
    <3>1. e \in Event
      BY <1>0, <1>7 DEF SendResultTerminal, Event, StreamTyped, CountsTyped, Running,
                        TerminalState, ResultTerminals
    <3>2. Sends(e)
      BY <1>7, <3>1 DEF SendResultTerminal, Sends, Goto
    <3>3. QED
      BY <1>1, <2>2, <3>1, <3>2
  <2>3. QED
    BY <1>7, <2>1, <2>2 DEF SendResultTerminal
<1>8. CASE EndStatement
  <2> DEFINE e == [type |-> "statement_message", rs |-> stmt]
  <2>1. CASE UNCHANGED events
    BY <1>0, <2>1
  <2>2. CASE Send(e)
    <3>1. e \in Event
      BY <1>0, <1>8 DEF EndStatement, Event, Running
    <3>2. Sends(e)
      BY <3>1 DEF Sends
    <3>3. QED
      BY <1>1, <2>2, <3>1, <3>2
  <2>3. QED
    BY <1>8, <2>1, <2>2 DEF EndStatement
<1>9. CASE BeginStatement \/ FetchRow \/ OversizedRow \/ CursorEnds \/ Acknowledged \/ AckRefused
           \/ DropControl \/ Continue \/ LeavePause \/ ExpirePause \/ ClearActiveCancel
  BY <1>0, <1>9 DEF BeginStatement, FetchRow, OversizedRow, CursorEnds, Acknowledged, AckRefused,
                    DropControl, Continue, LeavePause, ExpirePause, ClearActiveCancel, shared_vars
<1>10. QED
  BY <1>2, <1>3, <1>4, <1>5, <1>6, <1>7, <1>8, <1>9 DEF Producer

LEMMA ProducerTakes == ASSUME StreamTyped, Producer
                       PROVE  IsQueue(controls') /\ Range(controls') \subseteq Range(controls)
<1>1. UNCHANGED controls \/ Take
  BY DEF Producer, Start, BeginStatement, BeginTransactionFails, FetchRow, FlushFullBatch,
         FlushTranche, SendBatch, OversizedRow, CursorEnds, StatementFails, SendPaused,
         DrainBatch, Acknowledged, AckRefused, DropControl, Continue, LeavePause, ExpirePause,
         SendResultTerminal, EndStatement, EndExecution, ClearActiveCancel, shared_vars
<1>2. QED
  BY <1>1, TakeKeeps DEF StreamTyped, PipeTyped

LEMMA ProducerTypes == ASSUME OutcomeInv, StreamTyped, Producer PROVE StreamTyped'
<1>1. UNCHANGED <<bridge_vars, ui_vars>>
  BY ProducerFrame
<1>2. Range(events') \subseteq Event
  <2>1. CASE Range(events') = Range(events)
    BY <2>1 DEF StreamTyped, PipeTyped
  <2>2. CASE \E e \in Event : Range(events') \subseteq Range(events) \cup {e}
    BY <2>2 DEF StreamTyped, PipeTyped
  <2>3. QED
    BY <2>1, <2>2, ProducerSends
<1>3. PipeTyped'
  BY <1>1, <1>2, ProducerTakes DEF StreamTyped, PipeTyped, ui_vars
<1>4. CopiesTyped'
  BY <1>1 DEF StreamTyped, CopiesTyped, bridge_vars, ui_vars
<1>5. QED
  BY <1>3, <1>4, ProducerCounts DEF StreamTyped

(* What a copy of a result has counted: its batches and its rows.           *)
Taken(x) == IF x = NoResult THEN 0 ELSE x.next
Rows(x) == IF x = NoResult THEN 0 ELSE x.rows

LEMMA CopyCounts ==
  ASSUME NEW x \in RetainedResult \cup ShownResult \cup {NoResult}
  PROVE  Taken(x) \in Nat /\ Rows(x) \in Nat /\ Copy(x) = [next |-> Taken(x), rows |-> Rows(x)]
  BY DEF Taken, Rows, Copy, RetainedResult, ShownResult

SameCounts(x, y) == Taken(x) = Taken(y) /\ Rows(x) = Rows(y) /\ (x = NoResult <=> y = NoResult)

OneMore(x, y, e) ==
  e.sequence = Taken(x) /\ y # NoResult /\ Taken(y) = Taken(x) + 1 /\ Rows(y) = Rows(x) + e.rows

(* What the registry makes of an event it accepts.                          *)
LEMMA Retains ==
  ASSUME CopiesTyped, NEW e \in Event, Accepts(e)
  PROVE  /\ Retain(e) \in [ResultSet -> RetainedResult \cup {NoResult}]
         /\ \A rs \in ResultSet :
              IF e.type = "batch" /\ rs = e.rs THEN OneMore(retained[rs], Retain(e)[rs], e)
                                               ELSE SameCounts(retained[rs], Retain(e)[rs])
<1>0. retained \in [ResultSet -> RetainedResult \cup {NoResult}] /\ NoResult \notin RetainedResult
  BY StreamAssumption DEF CopiesTyped
<1>1. CASE e.type = "batch"
  <2>1. e.rs \in ResultSet /\ e.sequence \in Nat /\ e.rows \in Nat
    BY <1>1 DEF Event
  <2>2. OrNew(e.rs) \in RetainedResult /\ OrNew(e.rs).next = Taken(retained[e.rs])
        /\ OrNew(e.rs).rows = Rows(retained[e.rs])
    BY <1>0, <2>1 DEF OrNew, NewResult, RetainedResult, Taken, Rows
  <2>3. e.sequence = Taken(retained[e.rs])
    BY <1>1, <2>2 DEF Accepts, accept_batch
  <2> DEFINE new == [OrNew(e.rs) EXCEPT !.next = @ + 1, !.rows = @ + e.rows]
  <2>4. new \in RetainedResult /\ new.next = OrNew(e.rs).next + 1
        /\ new.rows = OrNew(e.rs).rows + e.rows
    <3> DEFINE n == OrNew(e.rs).next + 1
               r == OrNew(e.rs).rows + e.rows
    <3>1. n \in Nat /\ r \in Nat
      BY <2>1, <2>2 DEF RetainedResult
    <3> HIDE DEF n, r
    <3>2. /\ [OrNew(e.rs) EXCEPT !.next = n, !.rows = r] \in RetainedResult
          /\ [OrNew(e.rs) EXCEPT !.next = n, !.rows = r].next = n
          /\ [OrNew(e.rs) EXCEPT !.next = n, !.rows = r].rows = r
      BY <2>2, <3>1 DEF RetainedResult
    <3>3. QED
      BY <3>2 DEF n, r
  <2>5. Retain(e) = [retained EXCEPT ![e.rs] = new]
    BY <1>1 DEF Retain
  <2>6. OneMore(retained[e.rs], new, e)
    BY <1>0, <2>2, <2>3, <2>4 DEF OneMore, Taken, Rows
  <2> HIDE DEF new
  <2>7. QED
    BY <1>0, <1>1, <2>1, <2>4, <2>5, <2>6 DEF SameCounts
<1>2. CASE e.type \in {"result_terminal", "paused"}
  <2>1. e.rs \in ResultSet
    BY <1>2 DEF Event
  <2>2. retained[e.rs] \in RetainedResult
    BY <1>0, <1>2, <2>1 DEF Accepts, accept_terminal, Open
  <2>3. \E new \in RetainedResult :
          /\ Retain(e) = [retained EXCEPT ![e.rs] = new]
          /\ new.next = retained[e.rs].next /\ new.rows = retained[e.rs].rows
    <3>1. CASE e.type = "result_terminal"
      <4> DEFINE new == [retained[e.rs] EXCEPT !.terminal = TRUE, !.paused = FALSE]
      <4>1. new \in RetainedResult /\ new.next = retained[e.rs].next
            /\ new.rows = retained[e.rs].rows
        BY <2>2 DEF RetainedResult
      <4>2. Retain(e) = [retained EXCEPT ![e.rs] = new]
        BY <1>0, <2>1, <3>1, Zenon DEF Retain
      <4>3. QED
        BY <4>1, <4>2
    <3>2. CASE e.type = "paused"
      <4> DEFINE new == [retained[e.rs] EXCEPT !.paused = TRUE]
      <4>1. new \in RetainedResult /\ new.next = retained[e.rs].next
            /\ new.rows = retained[e.rs].rows
        BY <2>2 DEF RetainedResult
      <4>2. Retain(e) = [retained EXCEPT ![e.rs] = new]
        BY <1>0, <2>1, <3>2 DEF Retain
      <4>3. QED
        BY <4>1, <4>2
    <3>3. QED
      BY <1>2, <3>1, <3>2
  <2>4. PICK new \in RetainedResult :
          /\ Retain(e) = [retained EXCEPT ![e.rs] = new]
          /\ new.next = retained[e.rs].next /\ new.rows = retained[e.rs].rows
    BY <2>3
  <2>5. QED
    BY <1>0, <1>2, <2>1, <2>2, <2>4 DEF SameCounts, Taken, Rows
<1>3. CASE e.type \notin {"batch", "result_terminal", "paused"}
  <2>1. Retain(e) = retained
    BY <1>3 DEF Retain
  <2>2. QED
    BY <1>0, <1>3, <2>1 DEF SameCounts
<1>4. QED
  BY <1>1, <1>2, <1>3

(* What the page makes of the next event.                                   *)
LEMMA Shows ==
  ASSUME StreamTyped, handleExecutionEvent
  PROVE  LET e == Head(inbox) IN
         /\ e \in Range(inbox) /\ IsQueue(inbox') /\ Range(inbox') \subseteq Range(inbox)
         /\ DOMAIN ui' = {"state", "results"}
         /\ ui'.results \in [ResultSet -> ShownResult \cup {NoResult}]
         /\ \/ /\ e.type = "batch" /\ ack = NoCall
               /\ ack' = [phase |-> "called", rs |-> e.rs, sequence |-> e.sequence]
               /\ OneMore(ui.results[e.rs], ui'.results[e.rs], e)
               /\ ui'.results[e.rs].terminal = "none"
               /\ \A rs \in ResultSet \ {e.rs} : ui'.results[rs] = ui.results[rs]
            \/ /\ ack' = ack
               /\ \A rs \in ResultSet :
                    /\ SameCounts(ui.results[rs], ui'.results[rs])
                    /\ ui.results[rs] # NoResult =>
                         \/ ui'.results[rs].terminal = ui.results[rs].terminal
                         \/ /\ e.type = "result_terminal" /\ rs = e.rs
                            /\ e.rows = ui.results[rs].rows
                            /\ ui'.results[rs].terminal = e.state
<1> DEFINE e == Head(inbox)
<1>1. e \in Range(inbox) /\ IsQueue(inbox') /\ Range(inbox') \subseteq Range(inbox)
      /\ ack = NoCall /\ e \in Event
  BY QueueShrinks DEF handleExecutionEvent, StreamTyped, PipeTyped
<1>2. /\ DOMAIN ui = {"state", "results"} /\ NoResult \notin ShownResult
      /\ ui.results \in [ResultSet -> ShownResult \cup {NoResult}]
  BY StreamAssumption DEF StreamTyped, CopiesTyped
<1>s. ASSUME ui'.results = ui.results, DOMAIN ui' = DOMAIN ui, ack' = ack
      PROVE  /\ DOMAIN ui' = {"state", "results"} /\ ack' = ack
             /\ ui'.results \in [ResultSet -> ShownResult \cup {NoResult}]
             /\ \A rs \in ResultSet : /\ SameCounts(ui.results[rs], ui'.results[rs])
                                      /\ ui'.results[rs].terminal = ui.results[rs].terminal
  BY <1>2, <1>s DEF SameCounts
<1>3. CASE HandleBatch(e)
  <2>1. e.rs \in ResultSet /\ e.sequence \in Nat /\ e.rows \in Nat /\ e.type = "batch"
    BY <1>1, <1>3 DEF HandleBatch, Event
  <2> DEFINE old == ui.results[e.rs]
             new == IF old = NoResult THEN resultFromFirstBatch(e)
                    ELSE [old EXCEPT !.next = @ + 1, !.rows = @ + e.rows]
  <2>2. ui' = [ui EXCEPT !.state = "running", !.results[e.rs] = new] /\ Fits(e)
        /\ ack' = [phase |-> "called", rs |-> e.rs, sequence |-> e.sequence]
    BY <1>3 DEF HandleBatch, SetResult
  <2>3. new \in ShownResult /\ new.terminal = "none" /\ OneMore(old, new, e)
    <3>1. CASE old = NoResult
      <4>1. new = [next |-> 1, rows |-> e.rows, paused |-> FALSE, terminal |-> "none"]
        BY <3>1 DEF resultFromFirstBatch
      <4> HIDE DEF new
      <4>2. new \in ShownResult
        BY <2>1, <4>1 DEF ShownResult
      <4>3. e.sequence = 0 /\ Taken(old) = 0 /\ Rows(old) = 0
        BY <2>2, <3>1 DEF Fits, Taken, Rows
      <4>4. Taken(new) = 1 /\ Rows(new) = e.rows
        BY <1>2, <4>1, <4>2 DEF Taken, Rows
      <4>5. QED
        <5>1. new # NoResult /\ new.terminal = "none"
          BY <1>2, <4>1, <4>2
        <5>2. Taken(new) = Taken(old) + 1 /\ Rows(new) = Rows(old) + e.rows
          BY <2>1, <4>3, <4>4
        <5>3. QED
          BY <4>2, <4>3, <5>1, <5>2 DEF OneMore
    <3>2. CASE old # NoResult
      <4>1. old \in ShownResult /\ old.terminal = "none" /\ e.sequence = old.next
        BY <1>2, <2>1, <2>2, <3>2 DEF Fits
      <4>2. new = [old EXCEPT !.next = @ + 1, !.rows = @ + e.rows]
        BY <3>2
      <4>3. new \in ShownResult /\ new.terminal = "none" /\ new.next = old.next + 1
            /\ new.rows = old.rows + e.rows
        <5> DEFINE n == old.next + 1
                   r == old.rows + e.rows
        <5>1. n \in Nat /\ r \in Nat
          BY <2>1, <4>1 DEF ShownResult
        <5> HIDE DEF n, r
        <5>2. /\ [old EXCEPT !.next = n, !.rows = r] \in ShownResult
              /\ [old EXCEPT !.next = n, !.rows = r].next = n
              /\ [old EXCEPT !.next = n, !.rows = r].rows = r
              /\ [old EXCEPT !.next = n, !.rows = r].terminal = old.terminal
          BY <4>1 , <5>1 DEF ShownResult
        <5>3. QED
          BY <4>1, <4>2, <5>2 DEF n, r
      <4>4. QED
        BY <1>2, <3>2, <4>1, <4>3 DEF OneMore, Taken, Rows
    <3>3. QED
      BY <3>1, <3>2
  <2> HIDE DEF new
  <2>4. ui'.results = [ui.results EXCEPT ![e.rs] = new] /\ DOMAIN ui' = {"state", "results"}
    BY <1>2, <2>2
  <2>5. QED
    BY <1>1, <1>2, <2>1, <2>2, <2>3, <2>4
<1>4. CASE HandlePaused(e) \/ HandleResultTerminal(e)
  <2>1. e.rs \in ResultSet /\ ack' = ack
    BY <1>1, <1>4 DEF HandlePaused, HandleResultTerminal, Event
  <2>2. CASE ui' = ui
    BY <1>1, <1>s, <2>1, <2>2
  <2>3. CASE ui' # ui
    <3> DEFINE old == ui.results[e.rs]
    <3>1. old \in ShownResult
      BY <1>2, <1>4, <2>1, <2>3 DEF HandlePaused, HandleResultTerminal
    <3>2. \E new \in ShownResult :
            /\ ui' = [ui EXCEPT !.state = ui'.state, !.results[e.rs] = new]
            /\ new.next = old.next /\ new.rows = old.rows
            /\ \/ new.terminal = old.terminal
               \/ e.type = "result_terminal" /\ e.rows = old.rows /\ new.terminal = e.state
      <4>1. CASE HandlePaused(e)
        <5> DEFINE new == [old EXCEPT !.paused = TRUE]
        <5>1. new \in ShownResult /\ new.next = old.next /\ new.rows = old.rows
              /\ new.terminal = old.terminal
          BY <3>1 DEF ShownResult
        <5>2. ui' = [ui EXCEPT !.state = "paused", !.results[e.rs] = new]
          BY <2>3, <4>1 DEF HandlePaused, SetResult
        <5>3. QED
          BY <5>1, <5>2
      <4>2. CASE HandleResultTerminal(e)
        <5> DEFINE new == [old EXCEPT !.paused = FALSE, !.terminal = e.state]
        <5>1. e.type = "result_terminal" /\ e.state \in ResultTerminals
          BY <1>1, <4>2 DEF HandleResultTerminal, Event
        <5>2. new \in ShownResult /\ new.next = old.next /\ new.rows = old.rows
              /\ new.terminal = e.state
          BY <3>1, <5>1 DEF ShownResult
        <5>3. ui' = [ui EXCEPT !.state = ui.state, !.results[e.rs] = new] /\ e.rows = old.rows
          BY <2>3, <4>2 DEF HandleResultTerminal, SetResult
        <5>4. QED
          BY <5>1, <5>2, <5>3
      <4>3. QED
        BY <1>4, <4>1, <4>2
    <3>3. PICK new \in ShownResult :
            /\ ui' = [ui EXCEPT !.state = ui'.state, !.results[e.rs] = new]
            /\ new.next = old.next /\ new.rows = old.rows
            /\ \/ new.terminal = old.terminal
               \/ e.type = "result_terminal" /\ e.rows = old.rows /\ new.terminal = e.state
      BY <3>2
    <3>4. ui'.results = [ui.results EXCEPT ![e.rs] = new] /\ DOMAIN ui' = {"state", "results"}
      BY <1>2, <3>3
    <3>5. SameCounts(old, new)
      BY <1>2, <3>1, <3>3 DEF SameCounts, Taken, Rows
    <3>6. QED
      BY <1>1, <1>2, <2>1, <3>1, <3>3, <3>4, <3>5 DEF SameCounts
  <2>4. QED
    BY <2>2, <2>3
<1>5. CASE rejectExecutionEvent(e) \/ HandleLifecycle(e) \/ Ignore(e)
  <2>1. ui'.results = ui.results /\ DOMAIN ui' = DOMAIN ui /\ ack' = ack
    BY <1>2, <1>5 DEF rejectExecutionEvent, HandleLifecycle, Ignore, SetState
  <2>2. QED
    BY <1>1, <1>s, <2>1
<1>6. QED
  BY <1>3, <1>4, <1>5 DEF handleExecutionEvent

(* An acknowledgement on its way to the producer.                           *)
AckDue(rs, n) ==
  \/ \E c \in Range(controls) : c.type = "ack" /\ c.rs = rs /\ c.sequence = n
  \/ ack # NoCall /\ ack.rs = rs /\ ack.sequence = n

(* A result may lose or get its mark of a pause.                            *)
OnlyMarks ==
  \A rs \in ResultSet :
    /\ SameCounts(retained[rs], retained'[rs])
    /\ SameCounts(ui.results[rs], ui'.results[rs])
    /\ ui.results[rs] # NoResult => ui'.results[rs].terminal = ui.results[rs].terminal

LEMMA Adds == ASSUME StreamTyped, NEW c \in Control, SendControl(c)
              PROVE  /\ IsQueue(controls') /\ Range(controls') \subseteq Control
                     /\ Range(controls') \subseteq Range(controls) \cup {c}
<1>1. IsQueue(controls) /\ Range(controls) \subseteq Control
  BY DEF StreamTyped, PipeTyped
<1>2. CASE UNCHANGED controls
  BY <1>1, <1>2
<1>3. CASE controls' = Append(controls, c)
  BY <1>1, <1>3, QueueGrows
<1>4. QED
  BY <1>2, <1>3 DEF SendControl

LEMMA CommandSteps ==
  ASSUME StreamTyped, MoreTyped, Commands \/ User
  PROVE  /\ UNCHANGED <<producer_vars, slot, events, live, epoch, bridge, bridge_epoch, inbox>>
         /\ IsQueue(controls') /\ Range(controls') \subseteq Control
         /\ ack' \in AckCall \cup {NoCall}
         /\ CopiesTyped' /\ OnlyMarks
         /\ \A rs, n : AckDue(rs, n)' => AckDue(rs, n)
<1> USE StreamAssumption DEF StreamTyped
<1>1. UNCHANGED <<producer_vars, slot, events, live, epoch, bridge, bridge_epoch, inbox>>
  BY DEF Commands, ack_result_batch, CancelReply, cancel_execution, send_result_control,
         MoreReply, User, ClickCancel, ClickMore, bridge_vars, shared_vars
<1>s. ASSUME ui'.results = ui.results, DOMAIN ui' = DOMAIN ui, UNCHANGED retained
      PROVE  CopiesTyped' /\ OnlyMarks
  BY <1>s DEF CopiesTyped, OnlyMarks, SameCounts
<1>a. ASSUME UNCHANGED ack,
             UNCHANGED controls \/ \E c \in Control : c.type # "ack" /\ SendControl(c)
      PROVE  /\ IsQueue(controls') /\ Range(controls') \subseteq Control
             /\ ack' \in AckCall \cup {NoCall}
             /\ \A rs, n : AckDue(rs, n)' => AckDue(rs, n)
  <2>1. CASE UNCHANGED controls
    BY <1>a, <2>1 DEF PipeTyped, AckDue
  <2>2. CASE \E c \in Control : c.type # "ack" /\ SendControl(c)
    <3>1. PICK c \in Control : c.type # "ack" /\ SendControl(c)
      BY <2>2
    <3>2. /\ IsQueue(controls') /\ Range(controls') \subseteq Control
          /\ Range(controls') \subseteq Range(controls) \cup {c}
      BY <3>1, Adds
    <3>3. QED
      BY <1>a, <3>1, <3>2 DEF PipeTyped, AckDue
  <2>3. QED
    BY <1>a, <2>1, <2>2
<1>2. CASE ack_result_batch
  <2>1. CopiesTyped' /\ OnlyMarks
    BY <1>2, <1>s DEF ack_result_batch, bridge_vars
  <2>2. ack \in AckCall
    BY <1>2 DEF ack_result_batch, PipeTyped
  <2>3. CASE ack.phase = "called"
    <3>1. UNCHANGED controls /\ (ack' = [ack EXCEPT !.phase = "sending"] \/ ack' = NoCall)
      BY <1>2, <2>2, <2>3 DEF ack_result_batch, AckCall
    <3>2. [ack EXCEPT !.phase = "sending"] \in AckCall
          /\ [ack EXCEPT !.phase = "sending"].rs = ack.rs
          /\ [ack EXCEPT !.phase = "sending"].sequence = ack.sequence
      BY <2>2 DEF AckCall
    <3>3. QED
      BY <1>1, <2>1, <2>2, <3>1, <3>2 DEF PipeTyped, AckDue
  <2>4. CASE ack.phase # "called"
    <3> DEFINE c == [type |-> "ack", rs |-> ack.rs, sequence |-> ack.sequence]
    <3>1. SendControl(c) /\ ack' = NoCall
      BY <1>2, <2>4 DEF ack_result_batch
    <3>2. c \in Control
      BY <2>2 DEF AckCall, Control
    <3>3. /\ IsQueue(controls') /\ Range(controls') \subseteq Control
          /\ Range(controls') \subseteq Range(controls) \cup {c}
      BY <3>1, <3>2, Adds
    <3>4. QED
      BY <1>1, <2>1, <2>2, <3>1, <3>3 DEF AckDue
  <2>5. QED
    BY <2>3, <2>4
<1>3. CASE CancelReply \/ User
  <2>1. UNCHANGED <<retained, ack, controls>>
    BY <1>3 DEF CancelReply, User, ClickCancel, ClickMore, shared_vars, bridge_vars
  <2>2. ui'.results = ui.results /\ DOMAIN ui' = DOMAIN ui
    BY <1>3 DEF CancelReply, User, ClickCancel, ClickMore, SetState, CopiesTyped
  <2>3. QED
    BY <1>1, <1>a, <1>s, <2>1, <2>2
<1>4. ASSUME NEW who \in {"button", "reject"}, cancel_execution(who)
      PROVE  /\ IsQueue(controls') /\ Range(controls') \subseteq Control
             /\ ack' \in AckCall \cup {NoCall} /\ CopiesTyped' /\ OnlyMarks
             /\ \A rs, n : AckDue(rs, n)' => AckDue(rs, n)
  <2>1. UNCHANGED <<retained, ack, ui>>
    BY <1>4 DEF cancel_execution, bridge_vars
  <2>2. UNCHANGED controls \/ SendControl([type |-> "cancel"])
    BY <1>4 DEF cancel_execution
  <2>3. [type |-> "cancel"] \in Control
    BY DEF Control
  <2>4. QED
    BY <1>a, <1>s, <2>1, <2>2, <2>3
<1>5. ASSUME NEW click \in Clicks, send_result_control(click)
      PROVE  /\ IsQueue(controls') /\ Range(controls') \subseteq Control
             /\ ack' \in AckCall \cup {NoCall} /\ CopiesTyped' /\ OnlyMarks
             /\ \A rs, n : AckDue(rs, n)' => AckDue(rs, n)
  <2> DEFINE rs == more[click].rs
  <2>1. rs \in ResultSet /\ more[click].kind \in {"load_more", "discard"} /\ UNCHANGED <<ack, ui>>
    BY <1>5 DEF send_result_control, MoreTyped
  <2>2. UNCHANGED controls \/ SendControl([type |-> more[click].kind, rs |-> rs])
    BY <1>5 DEF send_result_control
  <2>3. [type |-> more[click].kind, rs |-> rs] \in Control
    BY <2>1 DEF Control
  <2>4. /\ UNCHANGED retained
        \/ /\ retained[rs] # NoResult
           /\ retained' = [retained EXCEPT ![rs].paused = FALSE]
    BY <1>5 DEF send_result_control
  <2>5. CopiesTyped' /\ OnlyMarks
    <3>1. CASE UNCHANGED retained
      BY <1>s, <2>1, <3>1
    <3>2. CASE /\ retained[rs] # NoResult
               /\ retained' = [retained EXCEPT ![rs].paused = FALSE]
      <4> DEFINE new == [retained[rs] EXCEPT !.paused = FALSE]
      <4>1. retained[rs] \in RetainedResult
        BY <2>1, <3>2 DEF CopiesTyped
      <4>2. new \in RetainedResult /\ SameCounts(retained[rs], new)
        BY <4>1, <3>2 DEF RetainedResult, SameCounts, Taken, Rows
      <4>3. retained' = [retained EXCEPT ![rs] = new]
        BY <3>2
      <4> HIDE DEF new
      <4>4. QED
        BY <2>1, <4>1, <4>2, <4>3 DEF CopiesTyped, OnlyMarks, SameCounts
    <3>3. QED
      BY <2>4, <3>1, <3>2
  <2>6. QED
    BY <1>a, <2>1, <2>2, <2>3, <2>5
<1>6. ASSUME NEW click \in Clicks, MoreReply(click)
      PROVE  /\ IsQueue(controls') /\ Range(controls') \subseteq Control
             /\ ack' \in AckCall \cup {NoCall} /\ CopiesTyped' /\ OnlyMarks
             /\ \A rs, n : AckDue(rs, n)' => AckDue(rs, n)
  <2> DEFINE rs == more[click].rs
  <2>1. rs \in ResultSet /\ UNCHANGED <<ack, retained, controls>>
    BY <1>6 DEF MoreReply, MoreTyped, shared_vars, bridge_vars
  <2>2. CASE ui' = ui
    BY <1>a, <1>s, <2>1, <2>2
  <2>3. CASE ui' # ui
    <3> DEFINE new == [ui.results[rs] EXCEPT !.paused = FALSE]
    <3>1. ui.results[rs] \in ShownResult /\ ui.results[rs] # NoResult
      BY <1>6, <2>1, <2>3 DEF MoreReply, CopiesTyped
    <3>2. new \in ShownResult /\ SameCounts(ui.results[rs], new)
          /\ new.terminal = ui.results[rs].terminal
      BY <3>1 DEF ShownResult, SameCounts, Taken, Rows
    <3>3. ui' = [ui EXCEPT !.results[rs] = new]
      BY <1>6, <2>3 DEF MoreReply
    <3> HIDE DEF new
    <3>4. ui'.results = [ui.results EXCEPT ![rs] = new] /\ DOMAIN ui' = {"state", "results"}
      BY <3>3 DEF CopiesTyped
    <3>5. CopiesTyped' /\ OnlyMarks
      BY <2>1, <3>1, <3>2, <3>4 DEF CopiesTyped, OnlyMarks, SameCounts
    <3>6. QED
      BY <1>a, <2>1, <3>5
  <2>4. QED
    BY <2>2, <2>3
<1>7. QED
  BY <1>1, <1>2, <1>3, <1>4, <1>5, <1>6 DEF Commands

LEMMA BridgeSteps ==
  ASSUME OutcomeInv, StreamTyped, Bridge
  PROVE  /\ UNCHANGED <<producer_vars, slot, controls, epoch, ui, ack, cancel_cmd, more>>
         /\ Range(events') \subseteq Range(events)
         /\ IsQueue(inbox') /\ Range(inbox') \subseteq Event
         /\ CopiesTyped'
         /\ \/ /\ UNCHANGED <<retained, inbox>>
               /\ bridge = "spawn" => bridge' = "recv" /\ bridge_epoch' = epoch
               /\ bridge # "spawn" => UNCHANGED bridge_epoch /\ bridge' \notin {"spawn", "recv"}
            \/ /\ InEpoch /\ RejectEvent
               /\ UNCHANGED <<retained, bridge_epoch>> /\ bridge' = "remove"
               /\ \A e \in Range(inbox') : e \in Range(inbox) \/ e.type = "failed"
            \/ /\ InEpoch /\ Receive /\ Head(events) \in Range(events)
               /\ UNCHANGED bridge_epoch /\ bridge' # "spawn"
               /\ Range(inbox') \subseteq Range(inbox) \cup {Head(events)}
               /\ \/ Range(inbox') = Range(inbox) \cup {Head(events)}
                  \/ cancelled' = (cancelled \/ (live /\ slot))
               /\ Accepts(Head(events)) /\ retained' = Retain(Head(events))
<1> USE DEF StreamTyped
<1>1. UNCHANGED <<producer_vars, slot, controls, epoch, ui, ack, cancel_cmd, more>>
  BY DEF Bridge, SpawnBridge, Receive, RejectEvent, LateEpoch, RemoveExecution, CloseBridge,
         shared_vars, ui_vars
<1>2. /\ IsQueue(events) /\ Range(events) \subseteq Event
      /\ IsQueue(inbox) /\ Range(inbox) \subseteq Event
  BY DEF OutcomeInv, ProducerTyped, PipeTyped
<1>3. CASE SpawnBridge \/ RemoveExecution
  BY <1>1, <1>2, <1>3 DEF SpawnBridge, RemoveExecution, shared_vars, ui_vars, CopiesTyped
<1>4. CASE CloseBridge
  <2>1. Range(events') = {} /\ UNCHANGED <<retained, inbox, bridge_epoch>> /\ bridge = "closing"
        /\ bridge' = "done"
    BY <1>4, QueueEmpty DEF CloseBridge, ui_vars
  <2>2. QED
    BY <1>1, <1>2, <2>1 DEF CopiesTyped
<1>5. ASSUME events # <<>>, events' = Tail(events)
      PROVE  Range(events') \subseteq Range(events) /\ Head(events) \in Range(events)
  BY <1>2, <1>5, QueueShrinks
<1>6. CASE LateEpoch
  BY <1>1, <1>2, <1>5, <1>6 DEF LateEpoch, CopiesTyped, ui_vars
<1>7. CASE RejectEvent
  <2>1. events # <<>> /\ events' = Tail(events) /\ UNCHANGED <<retained, bridge_epoch>>
        /\ bridge' = "remove" /\ InEpoch
    BY <1>7 DEF RejectEvent, InEpoch
  <2>2. [type |-> "failed"] \in Event
    BY DEF Event
  <2>3. inbox' = Append(inbox, [type |-> "failed"]) \/ UNCHANGED inbox
    BY <1>7 DEF RejectEvent
  <2>4. /\ IsQueue(inbox') /\ Range(inbox') \subseteq Event
        /\ Range(inbox') \subseteq Range(inbox) \cup {[type |-> "failed"]}
    <3>1. CASE UNCHANGED inbox
      BY <1>2, <3>1
    <3>2. CASE inbox' = Append(inbox, [type |-> "failed"])
      BY <1>2, <2>2, <3>2, QueueGrows
    <3>3. QED
      BY <2>3, <3>1, <3>2
  <2>5. \A e \in Range(inbox') : e \in Range(inbox) \/ e.type = "failed"
    BY <2>4
  <2>6. CopiesTyped'
    BY <1>1, <2>1 DEF CopiesTyped
  <2>7. QED
    BY <1>1, <1>5, <1>7, <2>1, <2>4, <2>5, <2>6
<1>8. CASE Receive
  <2> DEFINE e == Head(events)
  <2>1. events # <<>> /\ events' = Tail(events) /\ UNCHANGED bridge_epoch /\ bridge = "recv"
        /\ InEpoch /\ Accepts(e) /\ retained' = Retain(e)
    BY <1>8 DEF Receive, InEpoch
  <2>2. bridge' # "spawn"
    BY <1>8, <2>1 DEF Receive
  <2>3. e \in Event /\ e \in Range(events)
    BY <1>2, <1>5, <2>1
  <2>4. \/ inbox' = Append(inbox, e)
        \/ UNCHANGED inbox /\ cancelled' = (cancelled \/ (live /\ slot))
    BY <1>8 DEF Receive, request_cancel
  <2>5. /\ IsQueue(inbox') /\ Range(inbox') \subseteq Event
        /\ Range(inbox') \subseteq Range(inbox) \cup {e}
        /\ \/ Range(inbox') = Range(inbox) \cup {e}
           \/ cancelled' = (cancelled \/ (live /\ slot))
    <3>1. CASE UNCHANGED inbox
      BY <1>2, <2>4, <3>1, QueueGrows, <2>3
    <3>2. CASE inbox' = Append(inbox, e)
      BY <1>2, <2>3, <3>2, QueueGrows
    <3>3. QED
      BY <2>4, <3>1, <3>2
  <2>6. CopiesTyped'
    <3>1. Retain(e) \in [ResultSet -> RetainedResult \cup {NoResult}]
      BY <2>1, <2>3, Retains
    <3>2. QED
      BY <1>1, <2>1, <3>1 DEF CopiesTyped
  <2>7. QED
    BY <1>1, <1>5, <1>8, <2>1, <2>2, <2>3, <2>5, <2>6
<1>9. QED
  BY <1>3, <1>4, <1>6, <1>7, <1>8 DEF Bridge

LEMMA ReloadSteps ==
  ASSUME StreamTyped, Reload
  PROVE  /\ UNCHANGED <<producer_vars, slot, events, bridge, bridge_epoch>>
         /\ epoch = 0 /\ epoch' = 1 /\ ~live'
         /\ IsQueue(controls') /\ Range(controls') \subseteq Control
         /\ ack' \in AckCall \cup {NoCall} /\ IsQueue(inbox') /\ Range(inbox') = {}
         /\ CopiesTyped'
         /\ \A rs \in ResultSet : retained'[rs] = NoResult /\ ui'.results[rs] = NoResult
         /\ \A rs, n : AckDue(rs, n)' => AckDue(rs, n)
<1> USE DEF StreamTyped
<1>1. /\ UNCHANGED <<producer_vars, slot, events, bridge, bridge_epoch>>
      /\ epoch = 0 /\ epoch' = 1 /\ ~live'
      /\ IsQueue(inbox') /\ Range(inbox') = {}
  BY QueueEmpty DEF Reload
<1>2. [type |-> "cancel"] \in Control
  BY DEF Control
<1>3. /\ IsQueue(controls') /\ Range(controls') \subseteq Control
      /\ Range(controls') \subseteq Range(controls) \cup {[type |-> "cancel"]}
  <2>1. CASE UNCHANGED controls
    BY <2>1 DEF PipeTyped
  <2>2. CASE controls' = Append(controls, [type |-> "cancel"])
    BY <1>2, <2>2, QueueGrows DEF PipeTyped
  <2>3. QED
    BY <2>1, <2>2 DEF Reload
<1>4. ack' = ack \/ ack' = NoCall
  BY DEF Reload
<1>5. ui' = NoExecution /\ retained' = [rs \in ResultSet |-> NoResult]
  BY DEF Reload
<1>6. CopiesTyped' /\ \A rs \in ResultSet : retained'[rs] = NoResult /\ ui'.results[rs] = NoResult
  BY <1>5 DEF CopiesTyped, NoExecution
<1>7. \A rs, n : AckDue(rs, n)' => AckDue(rs, n)
  BY <1>3, <1>4 DEF AckDue
<1>8. QED
  BY <1>1, <1>3, <1>4, <1>6, <1>7 DEF PipeTyped

LEMMA TypedInitially == Init => StreamTyped
<1> SUFFICES ASSUME Init PROVE StreamTyped
  OBVIOUS
<1>1. CountsTyped
  BY StreamAssumption DEF Init, CountsTyped
<1>2. PipeTyped
  BY QueueEmpty DEF Init, PipeTyped
<1>3. CopiesTyped
  <2>1. ui.results = [rs \in ResultSet |-> NoResult] /\ DOMAIN ui = {"state", "results"}
        /\ retained = [rs \in ResultSet |-> NoResult]
    BY DEF Init, NoExecution
  <2>2. QED
    BY <2>1 DEF CopiesTyped
<1>4. QED
  BY <1>1, <1>2, <1>3 DEF StreamTyped

LEMMA TypedInductive == OutcomeInv /\ MoreTyped /\ StreamTyped /\ [Next]_vars => StreamTyped'
<1> SUFFICES ASSUME OutcomeInv, MoreTyped, StreamTyped, [Next]_vars PROVE StreamTyped'
  OBVIOUS
<1>1. CASE Producer
  BY <1>1, ProducerTypes
<1>2. ASSUME UNCHANGED <<producer_vars, slot>> PROVE CountsTyped'
  BY <1>2 DEF StreamTyped, CountsTyped, producer_vars
<1>3. CASE Bridge
  BY <1>2, <1>3, BridgeSteps DEF StreamTyped, PipeTyped
<1>4. CASE handleExecutionEvent
  <2>1. UNCHANGED <<producer_vars, shared_vars, bridge_vars>>
    BY <1>4 DEF handleExecutionEvent
  <2>2. ack' \in AckCall \cup {NoCall}
    <3>1. Head(inbox) \in Event
      BY <1>4, Shows DEF StreamTyped, PipeTyped
    <3>2. CASE ack' = ack
      BY <3>2 DEF StreamTyped, PipeTyped
    <3>3. CASE /\ Head(inbox).type = "batch"
               /\ ack' = [phase |-> "called", rs |-> Head(inbox).rs,
                           sequence |-> Head(inbox).sequence]
      BY <3>1, <3>3 DEF Event, AckCall
    <3>4. QED
      BY <1>4, <3>2, <3>3, Shows
  <2>3. PipeTyped'
    BY <1>4, <2>1, <2>2, Shows DEF StreamTyped, PipeTyped, shared_vars
  <2>4. CopiesTyped'
    BY <1>4, <2>1, Shows DEF StreamTyped, CopiesTyped, bridge_vars
  <2>5. QED
    BY <1>2, <2>1, <2>3, <2>4 DEF StreamTyped, shared_vars
<1>5. CASE Commands \/ User
  BY <1>2, <1>5, CommandSteps DEF StreamTyped, PipeTyped
<1>6. CASE Reload
  BY <1>2, <1>6, ReloadSteps DEF StreamTyped, PipeTyped
<1>7. CASE Settled \/ UNCHANGED vars
  BY <1>7 DEF Settled, vars, producer_vars, shared_vars, bridge_vars, ui_vars,
              StreamTyped, CountsTyped, PipeTyped, CopiesTyped
<1>8. QED
  BY <1>1, <1>3, <1>4, <1>5, <1>6, <1>7 DEF Next

(* What every step below may rely on.                                       *)
Known == OutcomeInv /\ MoreTyped /\ LateInv /\ StreamTyped

LEMMA KnownHolds == Spec => []Known
  BY OutcomeInvHolds, MoreIsTyped, LateInitially, LateInductive, TypedInitially, TypedInductive,
     PTL DEF Spec, Known

-----------------------------------------------------------------------------
(* CompletedIsComplete speaks of the page, which learns of the end of a     *)
(* result long after the producer has gone on to other statements.  What    *)
(* it was told cannot change any more (Over), and what is left of a cursor  *)
(* that was not read to its end is owed to one of the flags.                *)
Over(rs) == rs < stmt \/ (rs = stmt /\ pc \in {"message", "end", "clear", "done"})

Whole(rs, rows) == Over(rs) /\ rows = fetched[rs] /\ rs \in exhausted

CompleteInv ==
  /\ \A e \in Range(events) \cup Range(inbox) :
       e.type = "result_terminal" /\ e.state = "completed" => Whole(e.rs, e.rows)
  /\ \A rs \in ResultSet :
       ui.results[rs] # NoResult /\ ui.results[rs].terminal = "completed"
         => Whole(rs, ui.results[rs].rows)
  /\ pc \in {"drain", "ack_last", "result"} =>
       stmt \in exhausted \/ cancelled \/ flags.discarded \/ flags.expired \/ flags.failed

(* What is over stays as it is.                                             *)
LEMMA OverStays ==
  ASSUME OutcomeInv, StreamTyped, Producer
  PROVE  /\ \A rs \in ResultSet : Over(rs) => Over(rs)' /\ fetched'[rs] = fetched[rs]
         /\ exhausted \subseteq exhausted'
<1> USE DEF Over
<1>0. stmt \in Nat /\ fetched \in [ResultSet -> Nat]
  BY StreamAssumption DEF OutcomeInv, ProducerTyped, StreamTyped, CountsTyped
<1>1. CASE UNCHANGED fetched
  <2>1. /\ \/ pc \in {"message", "end", "clear", "done"} /\ stmt' = stmt
               /\ pc' \in {"message", "end", "clear", "done"}
           \/ stmt' = stmt /\ pc \notin {"message", "end", "clear", "done"}
           \/ stmt' = stmt + 1
        /\ exhausted \subseteq exhausted'
    BY DEF Producer, Start, BeginStatement, BeginTransactionFails, FetchRow, FlushFullBatch,
           FlushTranche, SendBatch, OversizedRow, CursorEnds, StatementFails, SendPaused,
           DrainBatch, Acknowledged, AckRefused, DropControl, Continue, LeavePause, ExpirePause,
           SendResultTerminal, EndStatement, EndExecution, ClearActiveCancel, shared_vars,
           Goto, PushRow, AwaitingAck, Acked
  <2>2. QED
    BY <1>0, <1>1, <2>1, StreamAssumption DEF ResultSet
<1>2. CASE ~ UNCHANGED fetched
  <2>1. /\ pc \in {"fetch", "ack_full"} /\ stmt' = stmt
        /\ \E rows : fetched' = [fetched EXCEPT ![stmt] = rows]
        /\ exhausted \subseteq exhausted'
    <3>1. FetchRow \/ StatementFails \/ Acknowledged
      BY <1>2 DEF Producer, Start, BeginStatement, BeginTransactionFails, FlushFullBatch,
           FlushTranche, SendBatch, OversizedRow, CursorEnds, SendPaused,
           DrainBatch, AckRefused, DropControl, Continue, LeavePause, ExpirePause,
           SendResultTerminal, EndStatement, EndExecution, ClearActiveCancel
    <3>2. QED
      BY <1>2, <3>1 DEF FetchRow, StatementFails, Acknowledged, PushRow
  <2>2. QED
    BY <1>0, <2>1 DEF ResultSet
<1>3. QED
  BY <1>1, <1>2

(* Why the producer stopped reading.                                        *)
Reason == stmt \in exhausted \/ cancelled \/ flags.discarded \/ flags.expired \/ flags.failed

LEMMA ReasonKept ==
  ASSUME OutcomeInv, StreamTyped, Producer,
         pc \in {"drain", "ack_last", "result"} => Reason
  PROVE  pc' \in {"drain", "ack_last", "result"} => Reason'
<1> USE DEF Reason, Goto
<1>0. flags \in FlagSet
  BY DEF OutcomeInv, ProducerTyped
<1>1. CASE FetchRow
  BY <1>1 DEF FetchRow, PushRow
<1>2. ASSUME NEW n, NEW waiting \in {"ack_full", "ack_tranche", "ack_last"},
             NEW refused \in {"drain", "result"},
             SendBatch(n, waiting, refused),
             waiting = "ack_last" => ~flags.discarded /\ pc = "drain"
      PROVE  pc' \in {"drain", "ack_last", "result"} => Reason'
  <2>1. UNCHANGED <<stmt, exhausted>> /\ (cancelled => cancelled')
    BY <1>2 DEF SendBatch
  <2>2. CASE Receiving
    <3>1. pc' = waiting /\ flags'.discarded = FALSE /\ flags'.expired = flags.expired
          /\ flags'.failed = flags.failed
      BY <1>0, <1>2, <2>2 DEF SendBatch, FlagSet
    <3>2. QED
      BY <1>2, <2>1, <3>1
  <2>3. CASE ~Receiving
    <3>1. flags'.discarded = TRUE
      BY <1>0, <1>2, <2>3 DEF SendBatch, FlagSet
    <3>2. QED
      BY <3>1
  <2>4. QED
    BY <2>2, <2>3
<1>3. CASE FlushFullBatch \/ FlushTranche
  BY <1>2, <1>3 DEF FlushFullBatch, FlushTranche
<1>4. CASE DrainBatch
  <2>1. CASE SendBatch(unsent, "ack_last", "result") /\ ~flags.discarded
    BY <1>2, <1>4, <2>1 DEF DrainBatch
  <2>2. CASE UNCHANGED <<exhausted, stmt, flags, shared_vars>>
    BY <1>4, <2>2 DEF DrainBatch, shared_vars
  <2>3. QED
    BY <1>4, <2>1, <2>2 DEF DrainBatch
<1>5. CASE OversizedRow \/ CursorEnds
  BY <1>5 DEF OversizedRow, CursorEnds, shared_vars
<1>6. CASE StatementFails
  BY <1>0, <1>6 DEF StatementFails, FlagSet
<1>7. CASE SendPaused
  BY <1>7 DEF SendPaused
<1>8. CASE Acknowledged
  <2>1. CASE pc = "ack_full"
    BY <1>8, <2>1 DEF Acknowledged, PushRow
  <2>2. CASE pc # "ack_full"
    BY <1>8, <2>2 DEF Acknowledged, AwaitingAck, Acked
  <2>3. QED
    BY <2>1, <2>2
<1>9. CASE AckRefused
  BY <1>0, <1>9 DEF AckRefused, FlagSet
<1>10. CASE DropControl
  BY <1>10 DEF DropControl, AwaitingAck, Acked
<1>11. CASE LeavePause
  BY <1>0, <1>11 DEF LeavePause, FlagSet
<1>12. CASE ExpirePause
  BY <1>0, <1>12 DEF ExpirePause, FlagSet
<1>13. CASE Start \/ BeginStatement \/ BeginTransactionFails \/ Continue \/ SendResultTerminal
            \/ EndStatement \/ EndExecution \/ ClearActiveCancel
  BY <1>13 DEF Start, BeginStatement, BeginTransactionFails, Continue, SendResultTerminal,
               EndStatement, EndExecution, ClearActiveCancel
<1>14. QED
  BY <1>1, <1>3, <1>4, <1>5, <1>6, <1>7, <1>8, <1>9, <1>10, <1>11, <1>12, <1>13 DEF Producer

LEMMA CompleteInductive == Known /\ CompleteInv /\ [Next]_vars => CompleteInv'
<1> SUFFICES ASSUME Known, CompleteInv, [Next]_vars PROVE CompleteInv'
  OBVIOUS
<1> USE DEF Known
<1>0. \A e \in Range(events) \cup Range(inbox) : e.type = "result_terminal" => e.rs \in ResultSet
  BY DEF StreamTyped, PipeTyped, Event
<1>1. CASE Producer
  <2>1. UNCHANGED <<bridge_vars, ui_vars>>
    BY <1>1, ProducerFrame
  <2>2. \A rs \in ResultSet : \A rows : Whole(rs, rows) => Whole(rs, rows)'
    BY <1>1, OverStays DEF Whole
  <2>3. pc' \in {"drain", "ack_last", "result"} => Reason'
    BY <1>1, ReasonKept DEF CompleteInv, Reason
  <2>4. ASSUME NEW e \in Event, Sends(e), e.type = "result_terminal", e.state = "completed"
        PROVE  Whole(e.rs, e.rows)'
    <3>1. /\ pc = "result" /\ pc' = "message" /\ UNCHANGED <<stmt, fetched, exhausted>>
          /\ e.rs = stmt /\ e.rows = fetched[stmt] /\ TerminalState = "completed"
      BY <2>4 DEF Sends
    <3>2. ~cancelled /\ ~flags.failed /\ ~flags.expired /\ ~flags.discarded
      BY <3>1 DEF TerminalState
    <3>3. stmt \in exhausted
      BY <3>1, <3>2 DEF CompleteInv
    <3>4. QED
      BY <3>1, <3>3 DEF Whole, Over
  <2>5. \A e \in Range(events') \cup Range(inbox') :
          e.type = "result_terminal" /\ e.state = "completed" => Whole(e.rs, e.rows)'
    <3>1. \A e \in Range(events) \cup Range(inbox) :
            e.type = "result_terminal" /\ e.state = "completed" => Whole(e.rs, e.rows)'
      BY <1>0, <2>2 DEF CompleteInv
    <3>2. inbox' = inbox
      BY <2>1 DEF ui_vars
    <3>3. CASE Range(events') = Range(events)
      BY <3>1, <3>2, <3>3
    <3>4. CASE \E e \in Event : Sends(e) /\ Range(events') \subseteq Range(events) \cup {e}
      BY <2>4, <3>1, <3>2, <3>4
    <3>5. QED
      BY <1>1, <3>3, <3>4, ProducerSends
  <2>6. ui' = ui
    BY <2>1 DEF ui_vars
  <2>7. \A rs \in ResultSet :
          ui'.results[rs] # NoResult /\ ui'.results[rs].terminal = "completed"
            => Whole(rs, ui.results[rs].rows)'
    BY <2>2, <2>6 DEF CompleteInv
  <2>8. QED
    BY <2>3, <2>5, <2>7 DEF CompleteInv, Reason
<1>2. ASSUME UNCHANGED producer_vars, cancelled => cancelled',
             \A e \in Range(events') \cup Range(inbox') :
               e.type = "result_terminal" => e \in Range(events) \cup Range(inbox),
             \A rs \in ResultSet :
               ui'.results[rs] # NoResult /\ ui'.results[rs].terminal = "completed"
                 => Whole(rs, ui'.results[rs].rows)
      PROVE  CompleteInv'
  <2>1. \A rs, rows : Whole(rs, rows)' <=> Whole(rs, rows)
    BY <1>2 DEF producer_vars, Whole, Over
  <2>2. \A e \in Range(events') \cup Range(inbox') :
          e.type = "result_terminal" /\ e.state = "completed" => Whole(e.rs, e.rows)'
    BY <1>2, <2>1 DEF CompleteInv
  <2>3. \A rs \in ResultSet :
          ui'.results[rs] # NoResult /\ ui'.results[rs].terminal = "completed"
            => Whole(rs, ui.results[rs].rows)'
    BY <1>2, <2>1
  <2>4. QED
    BY <1>2, <2>2, <2>3 DEF CompleteInv, producer_vars
<1>3. CASE Bridge
  <2>1. cancelled => cancelled'
    BY <1>3 DEF Bridge, SpawnBridge, Receive, RejectEvent, LateEpoch, RemoveExecution,
                CloseBridge, shared_vars, request_cancel
  <2>2. UNCHANGED <<producer_vars, ui>> /\ Range(events') \subseteq Range(events)
    BY <1>3, BridgeSteps
  <2>3. \A e \in Range(inbox') : e \in Range(inbox) \cup Range(events) \/ e.type = "failed"
    BY <1>3, BridgeSteps
  <2>4. QED
    BY <1>2, <2>1, <2>2, <2>3 DEF CompleteInv
<1>4. CASE handleExecutionEvent
  <2>1. UNCHANGED <<producer_vars, cancelled, events>>
    BY <1>4 DEF handleExecutionEvent, shared_vars
  <2> DEFINE e == Head(inbox)
  <2>2. e \in Range(inbox) /\ Range(inbox') \subseteq Range(inbox)
    BY <1>4, Shows
  <2>3. ASSUME NEW rs \in ResultSet, ui'.results[rs] # NoResult,
               ui'.results[rs].terminal = "completed"
        PROVE  Whole(rs, ui'.results[rs].rows)
    <3>1. CASE ui'.results[rs] = ui.results[rs]
      BY <2>3, <3>1 DEF CompleteInv
    <3>2. CASE /\ SameCounts(ui.results[rs], ui'.results[rs])
               /\ ui.results[rs] # NoResult =>
                    \/ ui'.results[rs].terminal = ui.results[rs].terminal
                    \/ /\ e.type = "result_terminal" /\ rs = e.rs
                       /\ e.rows = ui.results[rs].rows
                       /\ ui'.results[rs].terminal = e.state
      <4>1. ui.results[rs] # NoResult /\ ui'.results[rs].rows = ui.results[rs].rows
        BY <2>3, <3>2 DEF SameCounts, Rows
      <4>2. CASE ui'.results[rs].terminal = ui.results[rs].terminal
        BY <2>3, <4>1, <4>2 DEF CompleteInv
      <4>3. CASE /\ e.type = "result_terminal" /\ rs = e.rs
                 /\ e.rows = ui.results[rs].rows
                 /\ ui'.results[rs].terminal = e.state
        <5>1. Whole(e.rs, e.rows)
          BY <2>2, <2>3, <4>3 DEF CompleteInv
        <5>2. QED
          BY <4>1, <4>3, <5>1
      <4>4. QED
        BY <3>2, <4>1, <4>2, <4>3
    <3>3. CASE rs = e.rs /\ ui'.results[e.rs].terminal = "none"
      BY <2>3, <3>3
    <3>4. QED
      BY <1>4, <3>1, <3>2, <3>3, Shows
  <2>4. QED
    BY <1>2, <2>1, <2>2, <2>3
<1>5. CASE Commands \/ User
  <2>1. UNCHANGED <<producer_vars, events, inbox>> /\ OnlyMarks
    BY <1>5, CommandSteps
  <2>2. cancelled => cancelled'
    BY <1>5 DEF Commands, ack_result_batch, CancelReply, cancel_execution, send_result_control,
         MoreReply, User, ClickCancel, ClickMore, request_cancel, shared_vars
  <2>3. ASSUME NEW rs \in ResultSet, ui'.results[rs] # NoResult,
               ui'.results[rs].terminal = "completed"
        PROVE  Whole(rs, ui'.results[rs].rows)
    <3>1. /\ ui.results[rs] # NoResult /\ ui'.results[rs].rows = ui.results[rs].rows
          /\ ui'.results[rs].terminal = ui.results[rs].terminal
      BY <2>1, <2>3 DEF OnlyMarks, SameCounts, Rows
    <3>2. QED
      BY <2>3, <3>1 DEF CompleteInv
  <2>4. QED
    BY <1>2, <2>1, <2>2, <2>3
<1>6. CASE Reload
  <2>1. cancelled => cancelled'
    BY <1>6 DEF Reload, request_cancel
  <2>2. QED
    BY <1>2, <1>6, <2>1, ReloadSteps
<1>7. CASE Settled \/ UNCHANGED vars
  BY <1>2, <1>7 DEF Settled, vars, shared_vars, ui_vars, CompleteInv
<1>8. QED
  BY <1>1, <1>3, <1>4, <1>5, <1>6, <1>7 DEF Next

(* However the stream was paused, resumed, expired, cancelled or reloaded,  *)
(* a result the page shows as completed holds every row the cursor          *)
(* produced, and the cursor was read to its end or to a cap.                *)
THEOREM CompletedResultsAreComplete == Spec => []CompletedIsComplete
<1>1. Init => CompleteInv
  <2> SUFFICES ASSUME Init PROVE CompleteInv
    OBVIOUS
  <2>1. Range(events) = {} /\ Range(inbox) = {} /\ pc = "start"
    BY QueueEmpty DEF Init
  <2>2. \A rs \in ResultSet : ui.results[rs] = NoResult
    BY DEF Init, NoExecution
  <2>3. QED
    BY <2>1, <2>2 DEF CompleteInv
<1>2. CompleteInv => CompletedIsComplete
  BY DEF CompleteInv, Whole, CompletedIsComplete
<1>3. QED
  BY <1>1, <1>2, CompleteInductive, KnownHolds, PTL DEF Spec

-----------------------------------------------------------------------------
(* The pipe from the producer to the page and back.  First: a statement     *)
(* that has not begun has left no trace in it.                              *)
Begun(rs) == rs < stmt \/ (rs = stmt /\ pc \notin {"start", "statement"})

FreshInv ==
  /\ \A rs \in ResultSet : ~Begun(rs) =>
       retained[rs] = NoResult /\ ui.results[rs] = NoResult /\ fetched[rs] = 0
  /\ \A e \in Range(events) \cup Range(inbox) : e.type = "batch" => Begun(e.rs)

LEMMA BegunStays ==
  ASSUME OutcomeInv, StreamTyped, Producer
  PROVE  /\ \A rs \in ResultSet : Begun(rs) => Begun(rs)'
         /\ \A rs \in ResultSet : ~Begun(rs) => fetched'[rs] = fetched[rs]
<1> USE DEF Begun
<1>0. stmt \in Nat /\ fetched \in [ResultSet -> Nat] /\ pc \in PCs
  BY StreamAssumption DEF OutcomeInv, ProducerTyped, StreamTyped, CountsTyped
<1>1. \/ stmt' = stmt /\ (pc \in {"start", "statement"} \/ pc' \notin {"start", "statement"})
      \/ stmt' = stmt + 1 /\ pc' = "statement"
  BY <1>0
     DEF Producer, Start, BeginStatement, BeginTransactionFails, FetchRow, FlushFullBatch,
         FlushTranche, SendBatch, OversizedRow, CursorEnds, StatementFails, SendPaused,
         DrainBatch, Acknowledged, AckRefused, DropControl, Continue, LeavePause, ExpirePause,
         SendResultTerminal, EndStatement, EndExecution, ClearActiveCancel, shared_vars,
         Goto, PushRow, AwaitingAck, Acked, Refused, PCs
<1>2. UNCHANGED fetched \/ /\ pc \in {"fetch", "ack_full"} /\ stmt' = stmt
                           /\ \E rows : fetched' = [fetched EXCEPT ![stmt] = rows]
  BY DEF Producer, Start, BeginStatement, BeginTransactionFails, FetchRow, FlushFullBatch,
         FlushTranche, SendBatch, OversizedRow, CursorEnds, StatementFails, SendPaused,
         DrainBatch, Acknowledged, AckRefused, DropControl, Continue, LeavePause, ExpirePause,
         SendResultTerminal, EndStatement, EndExecution, ClearActiveCancel, PushRow
<1>3. ASSUME NEW rs \in ResultSet, Begun(rs) PROVE Begun(rs)'
  <2>1. rs \in Nat
    BY StreamAssumption DEF ResultSet
  <2>2. CASE stmt' = stmt
    BY <1>1, <1>3, <2>2, <1>0
  <2>3. CASE stmt' = stmt + 1
    BY <1>0, <1>3, <2>1, <2>3
  <2>4. QED
    BY <1>1, <2>2, <2>3
<1>4. ASSUME NEW rs \in ResultSet, ~Begun(rs) PROVE fetched'[rs] = fetched[rs]
  BY <1>0, <1>2, <1>4
<1>5. QED
  BY <1>3, <1>4

LEMMA FreshInductive == Known /\ FreshInv /\ [Next]_vars => FreshInv'
<1> SUFFICES ASSUME Known, FreshInv, [Next]_vars PROVE FreshInv'
  OBVIOUS
<1> USE DEF Known
<1>0. \A e \in Range(events) \cup Range(inbox) : e.type = "batch" => e.rs \in ResultSet
  BY DEF StreamTyped, PipeTyped, Event
<1>1. CASE Producer
  <2>1. UNCHANGED <<retained, ui, inbox>>
    BY <1>1, ProducerFrame DEF bridge_vars, ui_vars
  <2>2. ASSUME NEW e \in Event, Sends(e), e.type = "batch" PROVE Begun(e.rs)'
    <3>1. Running /\ e.rs = stmt
      BY <2>2 DEF Sends, Running
    <3>2. stmt \in ResultSet /\ Begun(stmt)
      BY <3>1, RunningIsOn DEF Begun, Running
    <3>3. QED
      BY <1>1, <3>1, <3>2, BegunStays
  <2>3. \A e \in Range(events) \cup Range(inbox) : e.type = "batch" => Begun(e.rs)'
    BY <1>0, <1>1, BegunStays DEF FreshInv
  <2>4. \A e \in Range(events') \cup Range(inbox') : e.type = "batch" => Begun(e.rs)'
    <3>1. CASE Range(events') = Range(events)
      BY <2>1, <2>3, <3>1
    <3>2. CASE \E e \in Event : Sends(e) /\ Range(events') \subseteq Range(events) \cup {e}
      BY <2>1, <2>2, <2>3, <3>2
    <3>3. QED
      BY <1>1, <3>1, <3>2, ProducerSends
  <2>5. \A rs \in ResultSet : ~Begun(rs)' =>
          retained'[rs] = NoResult /\ ui'.results[rs] = NoResult /\ fetched'[rs] = 0
    BY <1>1, <2>1, BegunStays DEF FreshInv
  <2>6. QED
    BY <2>4, <2>5 DEF FreshInv
<1>2. ASSUME UNCHANGED producer_vars,
             \A e \in Range(events') \cup Range(inbox') :
               e.type = "batch" => e \in Range(events) \cup Range(inbox),
             \A rs \in ResultSet : ~Begun(rs) =>
               retained'[rs] = NoResult /\ ui'.results[rs] = NoResult
      PROVE  FreshInv'
  BY <1>2 DEF producer_vars, FreshInv, Begun
<1>3. CASE Bridge
  <2>1. UNCHANGED <<producer_vars, ui>> /\ Range(events') \subseteq Range(events)
    BY <1>3, BridgeSteps
  <2>2. \A e \in Range(inbox') : e \in Range(inbox) \cup Range(events) \/ e.type = "failed"
    BY <1>3, BridgeSteps
  <2>3. ASSUME NEW rs \in ResultSet, ~Begun(rs) PROVE retained'[rs] = NoResult
    <3>1. retained[rs] = NoResult
      BY <2>3 DEF FreshInv
    <3>2. CASE UNCHANGED retained
      BY <3>1, <3>2
    <3>3. CASE /\ Head(events) \in Range(events)
               /\ Accepts(Head(events)) /\ retained' = Retain(Head(events))
      <4>1. Head(events) \in Event /\ CopiesTyped
        BY <3>3 DEF StreamTyped, PipeTyped
      <4>2. ~(Head(events).type = "batch" /\ rs = Head(events).rs)
        BY <2>3, <3>3 DEF FreshInv
      <4>3. SameCounts(retained[rs], Retain(Head(events))[rs])
        BY <3>3, <4>1, <4>2, Retains
      <4>4. QED
        BY <3>1, <3>3, <4>3 DEF SameCounts
    <3>4. QED
      BY <1>3, <3>2, <3>3, BridgeSteps
  <2>4. QED
    BY <1>2, <2>1, <2>2, <2>3 DEF FreshInv
<1>4. CASE handleExecutionEvent
  <2>1. UNCHANGED <<producer_vars, events, retained>>
    BY <1>4 DEF handleExecutionEvent, shared_vars, bridge_vars
  <2>2. Head(inbox) \in Range(inbox) /\ Range(inbox') \subseteq Range(inbox)
    BY <1>4, Shows
  <2>3. ASSUME NEW rs \in ResultSet, ~Begun(rs) PROVE ui'.results[rs] = NoResult
    <3>1. ui.results[rs] = NoResult
      BY <2>3 DEF FreshInv
    <3>2. Head(inbox).type = "batch" => rs # Head(inbox).rs
      BY <2>2, <2>3 DEF FreshInv
    <3>3. QED
      BY <1>4, <3>1, <3>2, Shows DEF SameCounts
  <2>4. QED
    BY <1>2, <2>1, <2>2, <2>3 DEF FreshInv
<1>5. CASE Commands \/ User
  <2>1. UNCHANGED <<producer_vars, events, inbox>> /\ OnlyMarks
    BY <1>5, CommandSteps
  <2>2. QED
    BY <1>2, <2>1 DEF OnlyMarks, SameCounts, FreshInv
<1>6. CASE Reload
  BY <1>2, <1>6, ReloadSteps
<1>7. CASE Settled \/ UNCHANGED vars
  BY <1>2, <1>7 DEF Settled, vars, shared_vars, bridge_vars, ui_vars, FreshInv
<1>8. QED
  BY <1>1, <1>3, <1>4, <1>5, <1>6, <1>7 DEF Next

LEMMA FreshInitially == Init => FreshInv
<1> SUFFICES ASSUME Init PROVE FreshInv
  OBVIOUS
<1>1. Range(events) = {} /\ Range(inbox) = {} /\ \A rs \in ResultSet : fetched[rs] = 0
  BY QueueEmpty DEF Init
<1>2. \A rs \in ResultSet : retained[rs] = NoResult /\ ui.results[rs] = NoResult
  BY DEF Init, NoExecution
<1>3. QED
  BY <1>1, <1>2 DEF FreshInv

(* Second: the copies run one behind the other.  The page is never ahead of *)
(* the registry, nor an acknowledgement of the page, nor the producer of    *)
(* what the registry has taken; and no event or acknowledgement that        *)
(* follows a reload is from before it.                                      *)
Busy == {"fetch", "tranche", "pause", "paused", "drain", "ack_full", "ack_tranche", "ack_last"}

Ordered ==
  /\ bridge = "spawn" => \A rs \in ResultSet : retained[rs] = NoResult
  /\ \A rs \in ResultSet : Taken(ui.results[rs]) <= Taken(retained[rs])
  /\ \A rs \in ResultSet, n \in Nat : AckDue(rs, n) => n < Taken(ui.results[rs])
  /\ \A e \in Range(inbox) : e.type = "batch" => e.sequence < Taken(retained[e.rs])
  /\ \A e \in Range(events) : e.type = "batch" => e.sequence <= Taken(retained[e.rs])
  /\ pc \in Busy => sequence <= Taken(retained[stmt])

OrderInv == ~Late => Ordered

LEMMA Counted ==
  ASSUME CopiesTyped, NEW rs \in ResultSet
  PROVE  /\ Taken(retained[rs]) \in Nat /\ Rows(retained[rs]) \in Nat
         /\ Taken(ui.results[rs]) \in Nat /\ Rows(ui.results[rs]) \in Nat
  BY CopyCounts DEF CopiesTyped

LEMMA BatchTyped ==
  ASSUME PipeTyped, NEW e \in Range(events) \cup Range(inbox), e.type = "batch"
  PROVE  e \in Event /\ e.rs \in ResultSet /\ e.sequence \in Nat /\ e.rows \in Nat
  BY DEF PipeTyped, Event

(* The number the producer gives to its next batch.                         *)
LEMMA SequenceMoves ==
  ASSUME OutcomeInv, StreamTyped, Producer, pc' \in Busy
  PROVE  \/ stmt' \in ResultSet /\ sequence' = 0
         \/ pc \in Busy /\ UNCHANGED <<stmt, sequence>>
         \/ /\ pc \in {"ack_full", "ack_tranche", "ack_last"} /\ stmt' = stmt
            /\ sequence' = sequence + 1 /\ AckDue(stmt, sequence)
<1>1. CASE BeginStatement
  BY <1>1, StreamAssumption DEF BeginStatement, Goto, Busy, OutcomeInv, ProducerTyped, ResultSet
<1>2. CASE Acknowledged
  <2>1. Head(controls) \in Range(controls) /\ IsAck(Head(controls))
    BY <1>2, TakeKeeps DEF Acknowledged, StreamTyped, PipeTyped
  <2>2. AckDue(stmt, sequence)
    BY <2>1 DEF IsAck, AckDue
  <2>3. QED
    BY <1>2, <2>2 DEF Acknowledged, AwaitingAck, Acked
<1>3. CASE FetchRow \/ FlushFullBatch \/ FlushTranche \/ OversizedRow \/ CursorEnds \/ SendPaused
           \/ DrainBatch \/ AckRefused \/ DropControl \/ Continue \/ LeavePause \/ ExpirePause
  BY <1>3
     DEF FetchRow, FlushFullBatch, FlushTranche, SendBatch, OversizedRow, CursorEnds, SendPaused,
         DrainBatch, AckRefused, DropControl, Continue, LeavePause, ExpirePause, AwaitingAck,
         Acked, Busy
<1>4. CASE Start \/ BeginTransactionFails \/ StatementFails \/ SendResultTerminal \/ EndStatement
           \/ EndExecution \/ ClearActiveCancel
  BY <1>4 DEF Start, BeginTransactionFails, StatementFails, SendResultTerminal, EndStatement,
              EndExecution, ClearActiveCancel, Goto, Busy
<1>5. QED
  BY <1>1, <1>2, <1>3, <1>4 DEF Producer

LEMMA OrderInductive == Known /\ OrderInv /\ [Next]_vars => OrderInv'
<1> SUFFICES ASSUME Known, OrderInv, [Next]_vars, ~Late' PROVE Ordered'
  BY DEF OrderInv
<1> USE DEF Known, StreamTyped
<1>e. bridge # "spawn" => bridge_epoch \in {0, 1} /\ epoch \in {0, 1} /\ bridge_epoch <= epoch
  BY DEF LateInv
<1>1. CASE Producer
  <2>1. UNCHANGED <<retained, ui, inbox, ack, epoch, bridge, bridge_epoch>>
    BY <1>1, ProducerFrame DEF bridge_vars, ui_vars
  <2>2. Ordered
    BY <2>1 DEF Late, OrderInv
  <2>3. \A rs, n : AckDue(rs, n)' => AckDue(rs, n)
    BY <1>1, <2>1, ProducerTakes DEF AckDue
  <2>4. ASSUME NEW e \in Event, Sends(e), e.type = "batch"
        PROVE  e.sequence <= Taken(retained[e.rs])
    BY <2>2, <2>4 DEF Sends, Ordered, Busy
  <2>5. \A e \in Range(events') : e.type = "batch" => e.sequence <= Taken(retained[e.rs])
    <3>1. CASE Range(events') = Range(events)
      BY <2>2, <3>1 DEF Ordered
    <3>2. CASE \E e \in Event : Sends(e) /\ Range(events') \subseteq Range(events) \cup {e}
      BY <2>2, <2>4, <3>2 DEF Ordered
    <3>3. QED
      BY <1>1, <3>1, <3>2, ProducerSends
  <2>6. pc' \in Busy => sequence' <= Taken(retained[stmt'])
    <3> SUFFICES ASSUME pc' \in Busy PROVE sequence' <= Taken(retained[stmt'])
      OBVIOUS
    <3>1. CASE stmt' \in ResultSet /\ sequence' = 0
      BY <3>1, Counted
    <3>2. CASE pc \in Busy /\ UNCHANGED <<stmt, sequence>>
      BY <2>2, <3>2 DEF Ordered
    <3>3. CASE /\ pc \in {"ack_full", "ack_tranche", "ack_last"} /\ stmt' = stmt
               /\ sequence' = sequence + 1 /\ AckDue(stmt, sequence)
      <4>1. stmt \in ResultSet /\ sequence \in Nat
        BY <3>3, RunningIsOn DEF Running, CountsTyped
      <4>2. sequence < Taken(ui.results[stmt]) /\ Taken(ui.results[stmt]) <= Taken(retained[stmt])
        BY <2>2, <3>3, <4>1 DEF Ordered
      <4>3. QED
        BY <3>3, <4>1, <4>2, Counted
    <3>4. QED
      BY <1>1, <3>1, <3>2, <3>3, SequenceMoves
  <2>7. QED
    BY <2>1, <2>2, <2>3, <2>5, <2>6 DEF Ordered
<1>2. CASE Bridge
  <2>1. /\ UNCHANGED <<producer_vars, controls, epoch, ui, ack>>
        /\ Range(events') \subseteq Range(events)
    BY <1>2, BridgeSteps
  <2>2. \A rs, n : AckDue(rs, n)' <=> AckDue(rs, n)
    BY <2>1 DEF AckDue
  <2>3. CASE /\ UNCHANGED <<retained, inbox>>
             /\ bridge = "spawn" => bridge' = "recv" /\ bridge_epoch' = epoch
             /\ bridge # "spawn" => UNCHANGED bridge_epoch /\ bridge' \notin {"spawn", "recv"}
    <3>1. Ordered /\ bridge' # "spawn"
      BY <2>1, <2>3 DEF Late, OrderInv
    <3>2. QED
      BY <2>1, <2>2, <2>3, <3>1 DEF Ordered, producer_vars
  <2>4. CASE /\ InEpoch /\ UNCHANGED <<retained, bridge_epoch>> /\ bridge' = "remove"
             /\ \A e \in Range(inbox') : e \in Range(inbox) \/ e.type = "failed"
    <3>1. Ordered
      BY <2>4 DEF InEpoch, Late, OrderInv
    <3>2. QED
      BY <2>1, <2>2, <2>4, <3>1 DEF Ordered, producer_vars
  <2>5. CASE /\ InEpoch /\ Head(events) \in Range(events)
             /\ UNCHANGED bridge_epoch /\ bridge' # "spawn"
             /\ Range(inbox') \subseteq Range(inbox) \cup {Head(events)}
             /\ Accepts(Head(events)) /\ retained' = Retain(Head(events))
    <3> DEFINE e == Head(events)
    <3>1. Ordered
      BY <2>5 DEF InEpoch, Late, OrderInv
    <3>2. e \in Event
      BY <2>5 DEF PipeTyped
    <3>3. \A rs \in ResultSet :
            IF e.type = "batch" /\ rs = e.rs THEN OneMore(retained[rs], retained'[rs], e)
                                             ELSE SameCounts(retained[rs], retained'[rs])
      BY <2>5, <3>2, Retains
    <3>4. \A rs \in ResultSet : Taken(retained[rs]) <= Taken(retained'[rs])
      BY <3>3, Counted DEF OneMore, SameCounts
    <3>5. e.type = "batch" => e.rs \in ResultSet /\ e.sequence < Taken(retained'[e.rs])
      BY <2>5, <3>3, BatchTyped DEF OneMore
    <3>6. \A f \in Range(inbox') : f.type = "batch" => f.sequence < Taken(retained'[f.rs])
      <4>1. \A f \in Range(inbox) : f.type = "batch" => f.sequence < Taken(retained'[f.rs])
        <5> SUFFICES ASSUME NEW f \in Range(inbox), f.type = "batch"
                     PROVE  f.sequence < Taken(retained'[f.rs])
          OBVIOUS
        <5>1. f.rs \in ResultSet /\ f.sequence \in Nat /\ f.sequence < Taken(retained[f.rs])
          BY <3>1, BatchTyped DEF Ordered
        <5>2. Taken(retained[f.rs]) \in Nat /\ Taken(retained'[f.rs]) \in Nat
          BY <5>1, <1>2, Counted, BridgeSteps, CopyCounts DEF CopiesTyped
        <5>3. QED
          BY <3>4, <5>1, <5>2
      <4>2. QED
        BY <2>5, <3>5, <4>1
    <3>7. \A f \in Range(events) : f.type = "batch" => f.sequence <= Taken(retained'[f.rs])
      <4> SUFFICES ASSUME NEW f \in Range(events), f.type = "batch"
                   PROVE  f.sequence <= Taken(retained'[f.rs])
        OBVIOUS
      <4>1. f.rs \in ResultSet /\ f.sequence \in Nat /\ f.sequence <= Taken(retained[f.rs])
        BY <3>1, BatchTyped DEF Ordered
      <4>2. Taken(retained[f.rs]) \in Nat /\ Taken(retained'[f.rs]) \in Nat
        BY <4>1, <1>2, Counted, BridgeSteps, CopyCounts DEF CopiesTyped
      <4>3. QED
        BY <3>4, <4>1, <4>2
    <3>8. \A rs \in ResultSet : Taken(ui.results[rs]) <= Taken(retained'[rs])
      <4> SUFFICES ASSUME NEW rs \in ResultSet PROVE Taken(ui.results[rs]) <= Taken(retained'[rs])
        OBVIOUS
      <4>1. {Taken(ui.results[rs]), Taken(retained[rs]), Taken(retained'[rs])} \subseteq Nat
        BY <1>2, Counted, BridgeSteps, CopyCounts DEF CopiesTyped
      <4>2. QED
        BY <3>1, <3>4, <4>1 DEF Ordered
    <3>9. pc \in Busy => sequence <= Taken(retained'[stmt])
      <4> SUFFICES ASSUME pc \in Busy PROVE sequence <= Taken(retained'[stmt])
        OBVIOUS
      <4>1. stmt \in ResultSet /\ sequence \in Nat
        BY RunningIsOn DEF Busy, Running, CountsTyped
      <4>2. Taken(retained[stmt]) \in Nat /\ Taken(retained'[stmt]) \in Nat
        BY <4>1, <1>2, Counted, BridgeSteps, CopyCounts DEF CopiesTyped
      <4>3. QED
        BY <3>1, <3>4, <4>1, <4>2 DEF Ordered
    <3>10. QED
      BY <2>1, <2>2, <2>5, <3>1, <3>6, <3>7, <3>8, <3>9 DEF Ordered, producer_vars
  <2>6. QED
    BY <1>2, <2>3, <2>4, <2>5, BridgeSteps
<1>3. CASE handleExecutionEvent
  <2>1. UNCHANGED <<producer_vars, shared_vars, bridge_vars>>
    BY <1>3 DEF handleExecutionEvent
  <2>2. Ordered
    BY <2>1 DEF Late, OrderInv, bridge_vars, shared_vars
  <2> DEFINE e == Head(inbox)
  <2>3. e \in Range(inbox) /\ Range(inbox') \subseteq Range(inbox)
    BY <1>3, Shows
  <2>4. CASE ack' = ack /\ \A rs \in ResultSet : SameCounts(ui.results[rs], ui'.results[rs])
    <3>1. \A rs, n : AckDue(rs, n)' <=> AckDue(rs, n)
      BY <2>1, <2>4 DEF AckDue, shared_vars
    <3>2. QED
      BY <2>1, <2>2, <2>3, <2>4, <3>1
         DEF Ordered, SameCounts, producer_vars, shared_vars, bridge_vars
  <2>5. CASE /\ e.type = "batch" /\ ack = NoCall
             /\ ack' = [phase |-> "called", rs |-> e.rs, sequence |-> e.sequence]
             /\ OneMore(ui.results[e.rs], ui'.results[e.rs], e)
             /\ \A rs \in ResultSet \ {e.rs} : ui'.results[rs] = ui.results[rs]
    <3>1. e.rs \in ResultSet /\ e.sequence \in Nat /\ e.sequence < Taken(retained[e.rs])
          /\ e.sequence = Taken(ui.results[e.rs]) /\ Taken(ui'.results[e.rs]) = e.sequence + 1
      BY <2>2, <2>3, <2>5, BatchTyped DEF Ordered, OneMore
    <3>2. \A rs \in ResultSet : Taken(ui'.results[rs]) <= Taken(retained[rs])
      BY <2>2, <2>5, <3>1, Counted DEF Ordered
    <3>3. \A rs, n : AckDue(rs, n)' => AckDue(rs, n) \/ (rs = e.rs /\ n = e.sequence)
      BY <2>1, <2>5 DEF AckDue, shared_vars
    <3>4. \A rs \in ResultSet, n \in Nat : AckDue(rs, n)' => n < Taken(ui'.results[rs])
      BY <2>2, <2>5, <3>1, <3>3 DEF Ordered
    <3>5. QED
      BY <2>1, <2>2, <2>3, <3>2, <3>4 DEF Ordered, producer_vars, shared_vars, bridge_vars
  <2>6. QED
    BY <1>3, <2>4, <2>5, Shows
<1>4. CASE Commands \/ User
  <2>1. /\ UNCHANGED <<producer_vars, events, epoch, bridge, bridge_epoch, inbox>> /\ OnlyMarks
        /\ \A rs, n : AckDue(rs, n)' => AckDue(rs, n)
    BY <1>4, CommandSteps
  <2>2. Ordered
    BY <2>1 DEF Late, OrderInv
  <2>3. /\ \A e \in Range(events) \cup Range(inbox) : e.type = "batch" => e.rs \in ResultSet
        /\ pc \in Busy => stmt \in ResultSet
    BY BatchTyped, RunningIsOn DEF Busy, Running
  <2>4. QED
    BY <2>1, <2>2, <2>3 DEF Ordered, OnlyMarks, SameCounts, producer_vars
<1>5. CASE Reload
  <2>1. /\ UNCHANGED <<producer_vars, events, bridge, bridge_epoch>> /\ epoch = 0 /\ epoch' = 1
        /\ Range(inbox') = {} /\ \A rs, n : AckDue(rs, n)' => AckDue(rs, n)
        /\ \A rs \in ResultSet : retained'[rs] = NoResult /\ ui'.results[rs] = NoResult
    BY <1>5, ReloadSteps
  <2>2. bridge = "spawn"
    BY <1>e, <2>1 DEF Late
  <2>3. Ordered /\ \A rs \in ResultSet : Taken(retained[rs]) = 0 /\ Taken(retained'[rs]) = 0
                                         /\ Taken(ui'.results[rs]) = 0
    BY <2>1, <2>2 DEF Late, OrderInv, Ordered, Taken
  <2>4. \A rs \in ResultSet, n \in Nat : ~AckDue(rs, n)
    BY <2>3, Counted DEF Ordered
  <2>5. /\ \A e \in Range(events) : e.type = "batch" => e.rs \in ResultSet
        /\ pc \in Busy => stmt \in ResultSet
    BY BatchTyped, RunningIsOn DEF Busy, Running
  <2>6. QED
    BY <2>1, <2>3, <2>4, <2>5 DEF Ordered, producer_vars
<1>6. CASE Settled \/ UNCHANGED vars
  <2>1. UNCHANGED <<producer_vars, shared_vars, bridge_vars, ui_vars>>
    BY <1>6 DEF Settled, vars
  <2>2. Ordered
    BY <2>1 DEF Late, OrderInv, shared_vars, bridge_vars
  <2>3. QED
    BY <2>1, <2>2 DEF Ordered, AckDue, producer_vars, shared_vars, bridge_vars, ui_vars
<1>7. QED
  BY <1>1, <1>2, <1>3, <1>4, <1>5, <1>6 DEF Next

(* Third: while nothing disturbs the stream, the copies are level with the  *)
(* producer whenever it is past a wait, and at most the batch it waits for  *)
(* is between them.                                                         *)
Reading == {"fetch", "tranche", "pause", "paused"}
Waiting == {"ack_full", "ack_tranche"}

Streaming == ~cancelled /\ live /\ bridge \in {"spawn", "recv"} /\ epoch = 0

Level(x) == Taken(x) = sequence /\ Rows(x) + unsent = fetched[stmt]

Awaits(x, e) == e.type = "batch" /\ e.rs = stmt /\ e.sequence = sequence /\ Taken(x) = sequence

OneBehind(x, S) ==
  /\ Taken(x) \in {sequence, sequence + 1}
  /\ Taken(x) = sequence + 1 => Rows(x) = fetched[stmt]
  /\ \A e \in S : Awaits(x, e) => Rows(x) + e.rows = fetched[stmt]

FlowInv == Streaming =>
  /\ pc \in Reading =>
       /\ Level(retained[stmt]) /\ Level(ui.results[stmt])
       /\ \A e \in Range(events) : e.type = "batch" /\ e.rs = stmt => e.sequence < sequence
  /\ pc \in Waiting =>
       /\ \A e \in Range(events) : e.type = "batch" /\ e.rs = stmt => e.sequence <= sequence
       /\ OneBehind(retained[stmt], Range(events))
       /\ OneBehind(ui.results[stmt], Range(events) \cup Range(inbox))

(* A stream that was disturbed stays so.                                    *)
LEMMA StreamingBack == ASSUME Known, [Next]_vars, Streaming' PROVE Streaming
<1>c. cancelled \in BOOLEAN
  BY DEF Known, OutcomeInv, ProducerTyped
<1>s. ASSUME cancelled => cancelled', live' => live,
             bridge' \in {"spawn", "recv"} => bridge \in {"spawn", "recv"},
             epoch' = epoch \/ epoch' = 1
      PROVE  Streaming
  BY <1>s DEF Streaming
<1>1. CASE Producer
  <2>1. \/ cancelled' = cancelled
        \/ cancelled' = TRUE
        \/ cancelled' = (cancelled \/ ~Receiving)
    BY <1>1
     DEF Producer, Start, BeginStatement, BeginTransactionFails, FetchRow, FlushFullBatch,
         FlushTranche, SendBatch, OversizedRow, CursorEnds, StatementFails, SendPaused,
         DrainBatch, Acknowledged, AckRefused, DropControl, Continue, LeavePause, ExpirePause,
         SendResultTerminal, EndStatement, EndExecution, ClearActiveCancel, shared_vars
  <2>2. cancelled => cancelled'
    BY <1>c, <2>1
  <2>3. live' = live /\ epoch' = epoch /\ bridge' = bridge
    BY <1>1, ProducerFrame DEF bridge_vars
  <2>4. QED
    BY <1>s, <2>2, <2>3
<1>2. CASE Bridge
  <2>1. cancelled => cancelled'
    BY <1>2 DEF Bridge, SpawnBridge, Receive, RejectEvent, LateEpoch, RemoveExecution,
                CloseBridge, shared_vars, request_cancel
  <2>2. (live' => live) /\ epoch' = epoch /\ bridge \in {"spawn", "recv", "remove", "closing"}
        /\ (bridge \in {"remove", "closing"} => bridge' \in {"closing", "done"})
    BY <1>2 DEF Bridge, SpawnBridge, Receive, RejectEvent, LateEpoch, RemoveExecution,
                CloseBridge, shared_vars, InEpoch
  <2>3. QED
    BY <1>s, <2>1, <2>2
<1>3. CASE handleExecutionEvent \/ Settled \/ UNCHANGED vars
  <2>1. cancelled' = cancelled /\ live' = live /\ bridge' = bridge /\ epoch' = epoch
    BY <1>3 DEF handleExecutionEvent, Settled, vars, shared_vars, bridge_vars
  <2>2. QED
    BY <1>s, <2>1
<1>4. CASE Commands \/ User
  <2>1. cancelled' = cancelled \/ request_cancel
    BY <1>4
     DEF Commands, ack_result_batch, CancelReply, cancel_execution, send_result_control,
         MoreReply, User, ClickCancel, ClickMore, shared_vars
  <2>2. cancelled => cancelled'
    BY <2>1 DEF request_cancel
  <2>3. live' = live /\ bridge' = bridge /\ epoch' = epoch
    BY <1>4, CommandSteps DEF Known
  <2>4. QED
    BY <1>s, <2>2, <2>3
<1>5. CASE Reload
  <2>1. epoch' = 1
    BY <1>5 DEF Reload
  <2>2. QED
    BY <2>1 DEF Streaming
<1>6. QED
  BY <1>1, <1>2, <1>3, <1>4, <1>5 DEF Next

(* What the producer does while it reads and waits.                         *)
LEMMA ProducerReads ==
  ASSUME OutcomeInv, StreamTyped, Producer, Receiving, pc' \in Reading \cup Waiting
  PROVE  \/ /\ pc = "statement" /\ pc' \in Reading /\ stmt' = stmt /\ stmt \in ResultSet
            /\ sequence' = 0 /\ unsent' = 0 /\ UNCHANGED <<fetched, events>>
         \/ /\ pc \in Reading /\ pc' \in Reading /\ UNCHANGED <<stmt, sequence>>
            /\ \/ UNCHANGED <<unsent, fetched>>
               \/ unsent' = unsent + 1 /\ fetched'[stmt] = fetched[stmt] + 1
         \/ /\ pc \in Reading /\ pc' \in Waiting /\ UNCHANGED <<stmt, sequence, fetched>>
            /\ unsent' = 0
         \/ /\ pc \in Waiting /\ pc' = pc /\ UNCHANGED <<stmt, sequence, fetched, unsent, events>>
         \/ /\ pc \in Waiting /\ pc' \in Reading /\ stmt' = stmt /\ sequence' = sequence + 1
            /\ AckDue(stmt, sequence) /\ fetched'[stmt] = fetched[stmt] + unsent'
            /\ UNCHANGED events
<1> USE DEF Reading, Waiting, Goto
<1>0. (Running => stmt \in ResultSet) /\ fetched \in [ResultSet -> Nat] /\ unsent \in Nat
  BY RunningIsOn DEF StreamTyped, CountsTyped
<1>1. CASE BeginStatement
  BY <1>1, StreamAssumption DEF BeginStatement, OutcomeInv, ProducerTyped, ResultSet, shared_vars
<1>2. CASE FetchRow
  BY <1>0, <1>2 DEF FetchRow, PushRow, Running
<1>3. CASE FlushFullBatch \/ FlushTranche
  BY <1>3 DEF FlushFullBatch, FlushTranche, SendBatch
<1>4. CASE Acknowledged
  <2>1. Head(controls) \in Range(controls) /\ IsAck(Head(controls))
    BY <1>4, TakeKeeps DEF Acknowledged, StreamTyped, PipeTyped
  <2>2. AckDue(stmt, sequence)
    BY <2>1 DEF IsAck, AckDue
  <2>3. CASE pc = "ack_full"
    <3>1. stmt \in ResultSet /\ PushRow(0)
      BY <1>0, <1>4, <2>3 DEF Acknowledged, Running
    <3>2. fetched'[stmt] = fetched[stmt] + unsent'
      BY <1>0, <3>1 DEF PushRow
    <3>3. stmt' = stmt /\ sequence' = sequence + 1 /\ UNCHANGED events
      BY <1>4 DEF Acknowledged
    <3>4. pc' \in {"fetch", "tranche", "drain"}
      BY <3>1 DEF PushRow
    <3>5. QED
      BY <2>2, <2>3, <3>2, <3>3, <3>4
  <2>4. CASE pc # "ack_full"
    <3>1. pc = "ack_tranche" /\ UNCHANGED <<unsent, fetched>> /\ unsent = 0 /\ pc' = "pause"
      BY <1>4, <2>4 DEF Acknowledged, AwaitingAck, Acked, StreamTyped, CountsTyped
    <3>2. fetched'[stmt] = fetched[stmt] + unsent'
      BY <1>0, <3>1 DEF Running
    <3>3. QED
      BY <1>4, <2>2, <3>1, <3>2 DEF Acknowledged
  <2>5. QED
    BY <2>3, <2>4
<1>5. CASE SendPaused \/ Continue
  BY <1>5 DEF SendPaused, Continue
<1>6. CASE DropControl
  BY <1>6 DEF DropControl, AwaitingAck, Acked
<1>7. CASE Start \/ BeginTransactionFails \/ OversizedRow \/ CursorEnds \/ StatementFails
           \/ DrainBatch \/ AckRefused \/ LeavePause \/ ExpirePause \/ SendResultTerminal
           \/ EndStatement \/ EndExecution \/ ClearActiveCancel
  BY <1>7 DEF Start, BeginTransactionFails, OversizedRow, CursorEnds, StatementFails,
              DrainBatch, SendBatch, AckRefused, AwaitingAck, Acked, Refused, LeavePause,
              ExpirePause, SendResultTerminal, EndStatement, EndExecution, ClearActiveCancel
<1>8. QED
  BY <1>1, <1>2, <1>3, <1>4, <1>5, <1>6, <1>7 DEF Producer

LEMMA StreamingIsOn ==
  ASSUME Known, OrderInv, Streaming
  PROVE  ~Late /\ Ordered /\ Receiving
<1>1. ~Late
  BY DEF Known, LateInv, Late, Streaming
<1>2. QED
  BY <1>1 DEF OrderInv, Streaming, Receiving

(* A step that leaves the producer alone and the counts of its statement.   *)
LEMMA FlowFrame ==
  ASSUME FlowInv, Streaming, UNCHANGED producer_vars,
         SameCounts(retained[stmt], retained'[stmt]),
         SameCounts(ui.results[stmt], ui'.results[stmt]),
         \A e \in Range(events') : e.type = "batch" /\ e.rs = stmt => e \in Range(events),
         \A e \in Range(inbox') :
            e.type = "batch" /\ e.rs = stmt => e \in Range(events) \cup Range(inbox)
  PROVE  FlowInv'
<1>1. UNCHANGED <<pc, stmt, sequence, fetched, unsent>>
  BY DEF producer_vars
<1>2. CASE pc \in Reading
  BY <1>1, <1>2 DEF FlowInv, Level, SameCounts, Reading, Waiting
<1>3. CASE pc \in Waiting
  <2>1. pc \notin Reading
    BY <1>3 DEF Reading, Waiting
  <2>2. /\ \A e \in Range(events) : e.type = "batch" /\ e.rs = stmt => e.sequence <= sequence
        /\ OneBehind(retained[stmt], Range(events))
        /\ OneBehind(ui.results[stmt], Range(events) \cup Range(inbox))
    BY <1>3 DEF FlowInv
  <2>3. \A e \in Range(events') : e.type = "batch" /\ e.rs = stmt => e.sequence <= sequence
    BY <2>2
  <2>4. /\ OneBehind(retained[stmt], Range(events))'
        /\ OneBehind(ui.results[stmt], Range(events) \cup Range(inbox))'
    BY <1>1, <2>2 DEF OneBehind, Awaits, SameCounts
  <2>5. QED
    BY <1>1, <2>1, <2>3, <2>4 DEF FlowInv
<1>4. QED
  BY <1>1, <1>2, <1>3 DEF FlowInv

LEMMA FlowProducer ==
  ASSUME Known, FreshInv, OrderInv, FlowInv, Streaming, Producer
  PROVE  FlowInv'
<1> USE DEF Known, StreamTyped
<1> SUFFICES ASSUME pc' \in Reading \cup Waiting PROVE FlowInv'
  BY DEF FlowInv
<1>0. Ordered /\ Receiving
  BY StreamingIsOn
<1>f. UNCHANGED <<retained, ui, inbox>>
  BY ProducerFrame DEF bridge_vars, ui_vars
<1>t. fetched \in [ResultSet -> Nat] /\ sequence \in Nat /\ unsent \in Nat
  BY DEF CountsTyped
<1>s. \/ Range(events') = Range(events)
      \/ \E e \in Event : Sends(e) /\ Range(events') \subseteq Range(events) \cup {e}
  BY ProducerSends
<1>n. ASSUME pc' \in Reading
      PROVE  \A e \in Range(events') : e.type = "batch" => e \in Range(events)
  BY <1>n, <1>s DEF Sends, Reading
<1>x. Reading \cap Waiting = {}
  BY DEF Reading, Waiting
<1>1. CASE pc = "statement" /\ pc' \in Reading /\ stmt' = stmt /\ stmt \in ResultSet
           /\ sequence' = 0 /\ unsent' = 0 /\ UNCHANGED <<fetched, events>>
  <2>1. /\ fetched[stmt] = 0 /\ retained[stmt] = NoResult /\ ui.results[stmt] = NoResult
        /\ \A e \in Range(events) : e.type = "batch" => e.rs # stmt
    <3>1. ~(stmt < stmt)
      BY <1>1, StreamAssumption DEF ResultSet
    <3>2. ~Begun(stmt)
      BY <1>1, <3>1 DEF Begun
    <3>3. QED
      BY <1>1, <3>2 DEF FreshInv
  <2>2. QED
    BY <1>1, <1>f, <1>x, <2>1 DEF FlowInv, Level, Taken, Rows
<1>2. CASE pc \in Reading /\ pc' \in Reading /\ UNCHANGED <<stmt, sequence>>
           /\ \/ UNCHANGED <<unsent, fetched>>
              \/ unsent' = unsent + 1 /\ fetched'[stmt] = fetched[stmt] + 1
  <2>1. /\ Level(retained[stmt]) /\ Level(ui.results[stmt])
        /\ \A e \in Range(events) : e.type = "batch" /\ e.rs = stmt => e.sequence < sequence
    BY <1>2 DEF FlowInv
  <2>2. stmt \in ResultSet
    BY <1>2, RunningIsOn DEF Running, Reading
  <2>3. /\ Rows(retained[stmt]) + unsent' = fetched'[stmt]
        /\ Rows(ui.results[stmt]) + unsent' = fetched'[stmt]
    BY <1>2, <1>t, <2>1, <2>2, Counted DEF Level
  <2>4. QED
    BY <1>2, <1>f, <1>n, <1>x, <2>1, <2>3 DEF FlowInv, Level
<1>3. CASE pc \in Reading /\ pc' \in Waiting /\ UNCHANGED <<stmt, sequence, fetched>> /\ unsent' = 0
  <2>1. /\ Level(retained[stmt]) /\ Level(ui.results[stmt])
        /\ \A e \in Range(events) : e.type = "batch" /\ e.rs = stmt => e.sequence < sequence
    BY <1>3 DEF FlowInv
  <2>2. stmt \in ResultSet
    BY <1>3, RunningIsOn DEF Running, Reading
  <2>3. \A e \in Range(inbox) : e.type = "batch" /\ e.rs = stmt => e.sequence < sequence
    BY <1>0, <2>1 DEF Ordered, Level
  <2>4. \A e \in Range(events) \cup Range(inbox) :
          e.type = "batch" /\ e.rs = stmt => e.sequence # sequence /\ e.sequence <= sequence
    BY <1>t, <2>1, <2>3, BatchTyped
  <2>5. \A e \in Range(events') : e.type = "batch" /\ e.rs = stmt =>
            \/ e \in Range(events)
            \/ e.sequence = sequence /\ e.rows = unsent
    BY <1>s DEF Sends
  <2>6. \A e \in Range(events') : e.type = "batch" /\ e.rs = stmt => e.sequence <= sequence
    BY <1>t, <2>4, <2>5
  <2>7. sequence # sequence + 1
    BY <1>t
  <2>8. /\ \A e \in Range(events') :
             e.type = "batch" /\ e.rs = stmt /\ e.sequence = sequence => e.rows = unsent
        /\ \A e \in Range(inbox) : ~(e.type = "batch" /\ e.rs = stmt /\ e.sequence = sequence)
    BY <2>4, <2>5
  <2>9. /\ OneBehind(retained[stmt], Range(events))'
        /\ OneBehind(ui.results[stmt], Range(events) \cup Range(inbox))'
    BY <1>3, <1>f, <2>1, <2>7, <2>8 DEF OneBehind, Awaits, Level
  <2>10. QED
    BY <1>3, <1>f, <1>x, <2>6, <2>9 DEF FlowInv
<1>4. CASE pc \in Waiting /\ pc' = pc /\ UNCHANGED <<stmt, sequence, fetched, unsent, events>>
  BY <1>4, <1>f, <1>x DEF FlowInv, OneBehind, Awaits
<1>5. CASE pc \in Waiting /\ pc' \in Reading /\ stmt' = stmt /\ sequence' = sequence + 1
           /\ AckDue(stmt, sequence) /\ fetched'[stmt] = fetched[stmt] + unsent' /\ UNCHANGED events
  <2>1. /\ \A e \in Range(events) : e.type = "batch" /\ e.rs = stmt => e.sequence <= sequence
        /\ OneBehind(retained[stmt], Range(events))
        /\ OneBehind(ui.results[stmt], Range(events) \cup Range(inbox))
    BY <1>5 DEF FlowInv
  <2>2. stmt \in ResultSet
    BY <1>5, RunningIsOn DEF Running, Waiting
  <2>3. sequence < Taken(ui.results[stmt]) /\ Taken(ui.results[stmt]) <= Taken(retained[stmt])
    BY <1>0, <1>5, <1>t, <2>2 DEF Ordered
  <2>4. Taken(ui.results[stmt]) = sequence + 1 /\ Taken(retained[stmt]) = sequence + 1
    BY <1>t, <2>1, <2>3 DEF OneBehind
  <2>5. Rows(ui.results[stmt]) = fetched[stmt] /\ Rows(retained[stmt]) = fetched[stmt]
    BY <2>1, <2>4 DEF OneBehind
  <2>6. \A e \in Range(events) : e.type = "batch" /\ e.rs = stmt => e.sequence < sequence + 1
    BY <1>t, <2>1, BatchTyped
  <2>7. QED
    BY <1>5, <1>f, <1>x, <2>4, <2>5, <2>6 DEF FlowInv, Level
<1>6. QED
  BY <1>0, <1>1, <1>2, <1>3, <1>4, <1>5, ProducerReads

LEMMA FlowBridge ==
  ASSUME Known, OrderInv, FlowInv, Streaming, Bridge, Streaming'
  PROVE  FlowInv'
<1> USE DEF Known, StreamTyped
<1> SUFFICES ASSUME pc \in Reading \cup Waiting PROVE FlowInv'
  <2>1. UNCHANGED pc
    BY BridgeSteps DEF producer_vars
  <2>2. QED
    BY <2>1 DEF FlowInv
<1>1. UNCHANGED <<producer_vars, slot, ui>> /\ Range(events') \subseteq Range(events)
  BY BridgeSteps
<1>p. UNCHANGED <<pc, stmt, sequence, fetched, unsent>>
  BY <1>1 DEF producer_vars
<1>2. stmt \in ResultSet /\ slot /\ sequence \in Nat
  BY RunningIsOn DEF Running, Reading, Waiting, CountsTyped
<1>u. SameCounts(ui.results[stmt], ui'.results[stmt])
  BY <1>1 DEF SameCounts
<1>3. CASE UNCHANGED <<retained, inbox>>
  BY <1>1, <1>3, <1>u, FlowFrame DEF SameCounts
<1>4. CASE bridge' = "remove"
  BY <1>4 DEF Streaming
<1>5. CASE /\ Head(events) \in Range(events)
           /\ Range(inbox') \subseteq Range(inbox) \cup {Head(events)}
           /\ \/ Range(inbox') = Range(inbox) \cup {Head(events)}
              \/ cancelled' = (cancelled \/ (live /\ slot))
           /\ Accepts(Head(events)) /\ retained' = Retain(Head(events))
  <2> DEFINE e == Head(events)
  <2>1. Range(inbox') = Range(inbox) \cup {e}
    BY <1>2, <1>5 DEF Streaming
  <2>2. e \in Event
    BY <1>5 DEF PipeTyped
  <2>3. IF e.type = "batch" /\ stmt = e.rs THEN OneMore(retained[stmt], retained'[stmt], e)
                                           ELSE SameCounts(retained[stmt], retained'[stmt])
    BY <1>2, <1>5, <2>2, Retains
  <2>4. CASE ~(e.type = "batch" /\ e.rs = stmt)
    <3>1. SameCounts(retained[stmt], retained'[stmt])
      BY <2>3, <2>4
    <3>2. \A f \in Range(inbox') :
            f.type = "batch" /\ f.rs = stmt => f \in Range(events) \cup Range(inbox)
      BY <2>1, <2>4
    <3>3. QED
      BY <1>1, <1>u, <3>1, <3>2, FlowFrame
  <2>5. CASE e.type = "batch" /\ e.rs = stmt
    <3>1. OneMore(retained[stmt], retained'[stmt], e) /\ e.sequence \in Nat /\ e \in Range(events)
      BY <1>5, <2>3, <2>5, BatchTyped
    <3>2. CASE pc \in Reading
      <4>1. Taken(retained[stmt]) = sequence /\ e.sequence < sequence
        BY <2>5, <3>1, <3>2 DEF FlowInv, Level
      <4>2. QED
        BY <1>2, <3>1, <4>1 DEF OneMore
    <3>3. CASE pc \in Waiting
      <4>1. /\ \A f \in Range(events) : f.type = "batch" /\ f.rs = stmt => f.sequence <= sequence
            /\ OneBehind(retained[stmt], Range(events))
            /\ OneBehind(ui.results[stmt], Range(events) \cup Range(inbox))
        BY <3>3 DEF FlowInv
      <4>2. e.sequence <= sequence
        BY <2>5, <3>1, <4>1
      <4>3. Taken(retained[stmt]) = sequence /\ e.sequence = sequence
        BY <1>2, <3>1, <4>1, <4>2 DEF OneBehind, OneMore
      <4>4. Rows(retained[stmt]) + e.rows = fetched[stmt]
        BY <2>5, <3>1, <4>1, <4>3 DEF OneBehind, Awaits
      <4>5. Taken(retained'[stmt]) = sequence + 1 /\ Rows(retained'[stmt]) = fetched[stmt]
        BY <3>1, <4>3, <4>4 DEF OneMore
      <4>6. sequence # sequence + 1
        BY <1>2
      <4>7. OneBehind(retained[stmt], Range(events))'
        BY <1>p, <4>5, <4>6 DEF OneBehind, Awaits
      <4>8. OneBehind(ui.results[stmt], Range(events) \cup Range(inbox))'
        <5>1. Range(events') \cup Range(inbox') \subseteq Range(events) \cup Range(inbox)
          BY <1>1, <2>1, <3>1
        <5>2. QED
          BY <1>1, <1>p, <4>1, <5>1 DEF OneBehind, Awaits
      <4>9. \A f \in Range(events') : f.type = "batch" /\ f.rs = stmt => f.sequence <= sequence
        BY <1>1, <4>1
      <4>10. pc \notin Reading
        BY <3>3 DEF Reading, Waiting
      <4>11. QED
        BY <1>p, <4>7, <4>8, <4>9, <4>10 DEF FlowInv
    <3>4. QED
      BY <3>2, <3>3
  <2>6. QED
    BY <2>4, <2>5
<1>6. QED
  BY <1>3, <1>4, <1>5, BridgeSteps

LEMMA FlowPage ==
  ASSUME Known, OrderInv, FlowInv, Streaming, handleExecutionEvent
  PROVE  FlowInv'
<1> USE DEF Known, StreamTyped
<1>1. UNCHANGED <<producer_vars, shared_vars, bridge_vars>>
  BY DEF handleExecutionEvent
<1>p. UNCHANGED <<pc, stmt, sequence, fetched, unsent, events, retained>>
  BY <1>1 DEF producer_vars, shared_vars, bridge_vars
<1> SUFFICES ASSUME pc \in Reading \cup Waiting PROVE FlowInv'
  BY <1>p DEF FlowInv
<1>2. stmt \in ResultSet /\ sequence \in Nat
  BY RunningIsOn DEF Running, Reading, Waiting, CountsTyped
<1>3. Ordered
  BY StreamingIsOn
<1> DEFINE e == Head(inbox)
<1>4. e \in Range(inbox) /\ Range(inbox') \subseteq Range(inbox)
  BY Shows
<1>r. SameCounts(retained[stmt], retained'[stmt])
  BY <1>p DEF SameCounts
<1>5. CASE SameCounts(ui.results[stmt], ui'.results[stmt])
  BY <1>1, <1>p, <1>4, <1>5, <1>r, FlowFrame
<1>6. CASE e.type = "batch" /\ e.rs = stmt /\ OneMore(ui.results[stmt], ui'.results[stmt], e)
  <2>1. /\ e.sequence \in Nat /\ e.sequence < Taken(retained[stmt])
        /\ e.sequence = Taken(ui.results[stmt])
    BY <1>3, <1>4, <1>6, BatchTyped DEF Ordered, OneMore
  <2>2. CASE pc \in Reading
    <3>1. Taken(retained[stmt]) = sequence /\ Taken(ui.results[stmt]) = sequence
      BY <2>2 DEF FlowInv, Level
    <3>2. QED
      BY <1>2, <2>1, <3>1
  <2>3. CASE pc \in Waiting
    <3>1. /\ \A f \in Range(events) : f.type = "batch" /\ f.rs = stmt => f.sequence <= sequence
          /\ OneBehind(retained[stmt], Range(events))
          /\ OneBehind(ui.results[stmt], Range(events) \cup Range(inbox))
      BY <2>3 DEF FlowInv
    <3>2. Taken(ui.results[stmt]) = sequence /\ e.sequence = sequence
      BY <1>2, <2>1, <3>1 DEF OneBehind
    <3>3. Rows(ui.results[stmt]) + e.rows = fetched[stmt]
      BY <1>4, <1>6, <3>1, <3>2 DEF OneBehind, Awaits
    <3>4. Taken(ui'.results[stmt]) = sequence + 1 /\ Rows(ui'.results[stmt]) = fetched[stmt]
      BY <1>6, <3>2, <3>3 DEF OneMore
    <3>5. sequence # sequence + 1
      BY <1>2
    <3>6. OneBehind(ui.results[stmt], Range(events) \cup Range(inbox))'
      BY <1>p, <3>4, <3>5 DEF OneBehind, Awaits
    <3>7. OneBehind(retained[stmt], Range(events))'
      BY <1>p, <3>1 DEF OneBehind, Awaits
    <3>8. pc \notin Reading
      BY <2>3 DEF Reading, Waiting
    <3>9. QED
      BY <1>p, <3>1, <3>6, <3>7, <3>8 DEF FlowInv
  <2>4. QED
    BY <2>2, <2>3
<1>7. \A rs \in ResultSet \ {e.rs} :
        ui'.results[rs] = ui.results[rs] => SameCounts(ui.results[rs], ui'.results[rs])
  BY DEF SameCounts
<1>8. SameCounts(ui.results[stmt], ui'.results[stmt])
      \/ (e.type = "batch" /\ e.rs = stmt /\ OneMore(ui.results[stmt], ui'.results[stmt], e))
  BY <1>2, <1>7, Shows
<1>9. QED
  BY <1>5, <1>6, <1>8

LEMMA FlowInductive == Known /\ FreshInv /\ OrderInv /\ FlowInv /\ [Next]_vars => FlowInv'
<1> SUFFICES ASSUME Known, FreshInv, OrderInv, FlowInv, [Next]_vars, Streaming' PROVE FlowInv'
  BY DEF FlowInv
<1>1. Streaming
  BY StreamingBack
<1>2. CASE Producer
  BY <1>1, <1>2, FlowProducer
<1>3. CASE Bridge
  BY <1>1, <1>3, FlowBridge
<1>4. CASE handleExecutionEvent
  BY <1>1, <1>4, FlowPage
<1>5. CASE Commands \/ User
  <2>1. UNCHANGED <<producer_vars, events, inbox>> /\ OnlyMarks
    BY <1>5, CommandSteps DEF Known
  <2>2. CASE stmt \in ResultSet
    <3>1. /\ SameCounts(retained[stmt], retained'[stmt])
          /\ SameCounts(ui.results[stmt], ui'.results[stmt])
      BY <2>1, <2>2 DEF OnlyMarks
    <3>2. QED
      BY <1>1, <2>1, <3>1, FlowFrame
  <2>3. CASE stmt \notin ResultSet
    <3>1. pc' \notin Reading \cup Waiting
      BY <2>1, <2>3, RunningIsOn DEF Known, Running, Reading, Waiting, producer_vars
    <3>2. QED
      BY <3>1 DEF FlowInv
  <2>4. QED
    BY <2>2, <2>3
<1>6. CASE Reload
  <2>1. epoch' = 1
    BY <1>6 DEF Reload
  <2>2. QED
    BY <2>1 DEF Streaming
<1>7. CASE Settled \/ UNCHANGED vars
  <2>1. UNCHANGED <<producer_vars, events, inbox, retained, ui>>
    BY <1>7 DEF Settled, vars, shared_vars, bridge_vars, ui_vars
  <2>2. QED
    BY <1>1, <2>1, FlowFrame DEF SameCounts
<1>8. QED
  BY <1>2, <1>3, <1>4, <1>5, <1>6, <1>7 DEF Next

LEMMA OrderInitially == Init => OrderInv
<1> SUFFICES ASSUME Init PROVE OrderInv
  OBVIOUS
<1>1. Range(events) = {} /\ Range(inbox) = {} /\ Range(controls) = {} /\ ack = NoCall
      /\ pc \notin Busy
  BY QueueEmpty DEF Init, Busy
<1>2. \A rs \in ResultSet : retained[rs] = NoResult /\ ui.results[rs] = NoResult
  BY DEF Init, NoExecution
<1>3. QED
  BY <1>1, <1>2 DEF OrderInv, Ordered, Taken, AckDue

(* A producer that is past a wait, and that nobody cancelled, has its       *)
(* batches counted alike by itself, by the native registry and by the page. *)
THEOREM CopiesInLockstep == Spec => []Lockstep
<1>1. Init => FreshInv /\ OrderInv /\ FlowInv
  <2> SUFFICES ASSUME Init PROVE FlowInv
    BY FreshInitially, OrderInitially
  <2>1. pc \notin Reading \cup Waiting
    BY DEF Init, Reading, Waiting
  <2>2. QED
    BY <2>1 DEF FlowInv
<1>2. Known /\ FreshInv /\ OrderInv /\ FlowInv /\ [Next]_vars => (FreshInv /\ OrderInv /\ FlowInv)'
  BY FreshInductive, OrderInductive, FlowInductive
<1>3. Known /\ FlowInv => Lockstep
  <2> SUFFICES ASSUME Known, FlowInv, pc \in Reading, ~cancelled, live, bridge = "recv", epoch = 0
               PROVE  LET sent == [next |-> sequence, rows |-> fetched[stmt] - unsent]
                      IN Copy(retained[stmt]) = sent /\ Copy(ui.results[stmt]) = sent
    BY DEF Lockstep, Reading
  <2>1. Level(retained[stmt]) /\ Level(ui.results[stmt])
    BY DEF FlowInv, Streaming
  <2>2. stmt \in ResultSet /\ fetched[stmt] \in Nat /\ unsent \in Nat
    BY RunningIsOn DEF Known, StreamTyped, CountsTyped, Running, Reading
  <2>3. \A x \in {retained[stmt], ui.results[stmt]} :
          Copy(x) = [next |-> Taken(x), rows |-> Rows(x)]
    BY <2>2, CopyCounts DEF Known, StreamTyped, CopiesTyped
  <2>4. /\ Rows(retained[stmt]) = fetched[stmt] - unsent
        /\ Rows(ui.results[stmt]) = fetched[stmt] - unsent
    BY <2>1, <2>2, Counted DEF Known, StreamTyped, Level
  <2>5. QED
    BY <2>1, <2>3, <2>4 DEF Level
<1>4. QED
  BY <1>1, <1>2, <1>3, KnownHolds, PTL DEF Spec

-----------------------------------------------------------------------------
(* What the registry retains is what the producer has counted and no longer *)
(* holds, or less: a batch may still be under way or have been refused.     *)
Held(rs) == IF rs = stmt /\ pc \in {"fetch", "tranche", "drain"} THEN unsent ELSE 0

RowsInv == ~Late =>
  /\ \A rs \in ResultSet : Rows(retained[rs]) + Held(rs) <= fetched[rs]
  /\ \A e \in Range(events) : e.type = "batch" /\ e.sequence = Taken(retained[e.rs]) =>
       Rows(retained[e.rs]) + e.rows + Held(e.rs) <= fetched[e.rs]

LEMMA HeldTyped == ASSUME CountsTyped, NEW rs PROVE Held(rs) \in Nat
  BY DEF CountsTyped, Held

(* A row is counted before it is held, and one that is dropped is no longer *)
(* counted.                                                                 *)
LEMMA HeldMoves ==
  ASSUME OutcomeInv, StreamTyped, Producer, NEW rs \in ResultSet
  PROVE  fetched[rs] + Held(rs)' <= fetched'[rs] + Held(rs)
<1> USE DEF StreamTyped
<1>0. CountsTyped /\ CountsTyped' /\ fetched[rs] \in Nat /\ unsent \in Nat
  BY ProducerCounts DEF CountsTyped
<1>h. Held(rs) \in Nat
  BY <1>0, HeldTyped
<1>z. ASSUME UNCHANGED fetched, Held(rs)' \in {0, Held(rs)}
      PROVE  fetched[rs] + Held(rs)' <= fetched'[rs] + Held(rs)
  BY <1>z, <1>0, <1>h
<1>p. ASSUME NEW filled \in Nat, PushRow(filled), stmt' = stmt,
             rs = stmt => Held(rs) = filled
      PROVE  fetched[rs] + Held(rs)' <= fetched'[rs] + Held(rs)
  <2>1. pc' \in {"fetch", "tranche", "drain"} /\ unsent' = filled + 1
        /\ fetched' = [fetched EXCEPT ![stmt] = fetched[stmt] + 1]
    BY <1>p DEF PushRow, Goto
  <2>2. fetched \in [ResultSet -> Nat]
    BY <1>0 DEF CountsTyped
  <2>3. CASE rs = stmt
    <3>1. fetched'[rs] = fetched[rs] + 1 /\ Held(rs)' = filled + 1 /\ Held(rs) = filled
      BY <1>p, <2>1, <2>2, <2>3 DEF Held
    <3>2. QED
      BY <1>0, <1>p, <3>1
  <2>4. CASE rs # stmt
    <3>1. fetched'[rs] = fetched[rs] /\ Held(rs)' = 0
      BY <1>p, <2>1, <2>2, <2>4 DEF Held
    <3>2. QED
      BY <1>0, <1>h, <3>1
  <2>5. QED
    BY <2>3, <2>4
<1>1. CASE FetchRow
  <2>1. pc = "fetch" /\ PushRow(unsent) /\ stmt' = stmt
    BY <1>1 DEF FetchRow
  <2>2. QED
    BY <1>0, <1>p, <2>1 DEF Held
<1>2. CASE Acknowledged
  <2>1. CASE pc = "ack_full"
    <3>1. PushRow(0) /\ stmt' = stmt
      BY <1>2, <2>1 DEF Acknowledged
    <3>2. QED
      BY <1>p, <2>1, <3>1 DEF Held
  <2>2. CASE pc # "ack_full"
    BY <1>2, <1>z, <2>2 DEF Acknowledged, AwaitingAck, Acked, Goto, Held
  <2>3. QED
    BY <2>1, <2>2
<1>3. CASE StatementFails
  <2>1. unsent' = 0 /\ stmt' = stmt /\ pc = "fetch"
        /\ fetched' = [fetched EXCEPT ![stmt] = fetched[stmt] - unsent]
    BY <1>3 DEF StatementFails
  <2>2. fetched'[rs] = (IF rs = stmt THEN fetched[rs] - unsent ELSE fetched[rs])
    BY <1>0, <2>1 DEF CountsTyped
  <2>3. Held(rs)' = 0 /\ (rs = stmt => Held(rs) = unsent)
    BY <2>1 DEF Held
  <2>4. QED
    BY <1>0, <1>h, <2>2, <2>3
<1>4. CASE BeginStatement \/ SendPaused \/ DropControl \/ Continue \/ LeavePause \/ ExpirePause
           \/ AckRefused
  <2>1. UNCHANGED <<fetched, stmt>> /\ (unsent' = 0 \/ unsent' = unsent)
    BY <1>4 DEF BeginStatement, SendPaused, DropControl, Continue, LeavePause, ExpirePause,
                AckRefused
  <2>2. unsent' = 0 \/ pc' = "end"
    BY <1>0, <1>4
       DEF BeginStatement, SendPaused, DropControl, Continue, LeavePause, ExpirePause,
           AckRefused, AwaitingAck, Acked, CountsTyped, Goto
  <2>3. QED
    BY <1>z, <2>1, <2>2 DEF Held
<1>5. CASE OversizedRow \/ CursorEnds
  BY <1>5, <1>z DEF OversizedRow, CursorEnds, Held
<1>6. CASE FlushFullBatch \/ FlushTranche
  BY <1>6, <1>z DEF FlushFullBatch, FlushTranche, SendBatch, Held
<1>7. CASE DrainBatch
  BY <1>7, <1>z DEF DrainBatch, SendBatch, Goto, Held
<1>8. CASE Start \/ BeginTransactionFails \/ SendResultTerminal \/ EndStatement \/ EndExecution
           \/ ClearActiveCancel
  <2>1. UNCHANGED fetched /\ pc' \in {"statement", "end", "message", "clear", "done"}
    BY <1>8 DEF Start, BeginTransactionFails, SendResultTerminal, EndStatement, EndExecution,
                ClearActiveCancel, Goto
  <2>2. QED
    BY <1>z, <2>1 DEF Held
<1>9. QED
  BY <1>1, <1>2, <1>3, <1>4, <1>5, <1>6, <1>7, <1>8 DEF Producer

LEMMA RowsInductive == Known /\ OrderInv /\ RowsInv /\ [Next]_vars => RowsInv'
<1> SUFFICES ASSUME Known, OrderInv, RowsInv, [Next]_vars, ~Late' PROVE RowsInv'
  BY DEF RowsInv
<1> USE DEF Known, StreamTyped
<1>t. \A rs \in ResultSet : {fetched[rs], fetched'[rs], Held(rs), Held(rs)'} \subseteq Nat
  <2>1. CountsTyped'
    BY TypedInductive
  <2>2. \A rs \in ResultSet : fetched[rs] \in Nat /\ fetched'[rs] \in Nat
    BY <2>1 DEF CountsTyped
  <2>3. \A rs \in ResultSet : Held(rs) \in Nat /\ Held(rs)' \in Nat
    BY <2>1 DEF CountsTyped, Held
  <2>4. QED
    BY <2>2, <2>3
<1>h. UNCHANGED producer_vars
        => \A rs \in ResultSet : Held(rs)' = Held(rs) /\ fetched'[rs] = fetched[rs]
  BY DEF producer_vars, Held
<1>1. CASE Producer
  <2>1. UNCHANGED <<retained, epoch, bridge, bridge_epoch>>
    BY <1>1, ProducerFrame DEF bridge_vars
  <2>2. /\ \A rs \in ResultSet : Rows(retained[rs]) + Held(rs) <= fetched[rs]
        /\ \A e \in Range(events) : e.type = "batch" /\ e.sequence = Taken(retained[e.rs]) =>
             Rows(retained[e.rs]) + e.rows + Held(e.rs) <= fetched[e.rs]
    BY <2>1 DEF Late, RowsInv
  <2>3. \A rs \in ResultSet : fetched[rs] + Held(rs)' <= fetched'[rs] + Held(rs)
    BY <1>1, HeldMoves
  <2>4. \A rs \in ResultSet : Rows(retained[rs]) + Held(rs)' <= fetched'[rs]
    <3> SUFFICES ASSUME NEW rs \in ResultSet PROVE Rows(retained[rs]) + Held(rs)' <= fetched'[rs]
      OBVIOUS
    <3>1. Rows(retained[rs]) \in Nat
      BY Counted
    <3>2. QED
      BY <1>t, <2>2, <2>3, <3>1
  <2>5. ASSUME NEW e \in Range(events), e.type = "batch", e.sequence = Taken(retained[e.rs])
        PROVE  Rows(retained[e.rs]) + e.rows + Held(e.rs)' <= fetched'[e.rs]
    <3>1. e.rs \in ResultSet /\ e.rows \in Nat
      BY <2>5, BatchTyped
    <3>2. Rows(retained[e.rs]) \in Nat
      BY <3>1, Counted
    <3>3. QED
      BY <1>t, <2>2, <2>3, <2>5, <3>1, <3>2
  <2>6. ASSUME NEW e \in Event, Sends(e), e.type = "batch"
        PROVE  Rows(retained[e.rs]) + e.rows + Held(e.rs)' <= fetched'[e.rs]
    <3>1. e.rs = stmt /\ e.rows = Held(stmt) /\ Held(e.rs)' = 0 /\ UNCHANGED fetched
      BY <2>6 DEF Sends, Held
    <3>2. e.rs \in ResultSet
      BY <2>6 DEF Event
    <3>3. Rows(retained[e.rs]) \in Nat
      BY <3>2, Counted
    <3>4. QED
      BY <1>t, <2>2, <3>1, <3>2, <3>3
  <2>7. \A e \in Range(events') : e.type = "batch" /\ e.sequence = Taken(retained[e.rs]) =>
          Rows(retained[e.rs]) + e.rows + Held(e.rs)' <= fetched'[e.rs]
    <3>1. CASE Range(events') = Range(events)
      BY <2>5, <3>1
    <3>2. CASE \E e \in Event : Sends(e) /\ Range(events') \subseteq Range(events) \cup {e}
      BY <2>5, <2>6, <3>2
    <3>3. QED
      BY <1>1, <3>1, <3>2, ProducerSends
  <2>8. QED
    BY <2>1, <2>4, <2>7 DEF RowsInv
<1>s. ASSUME \A rs \in ResultSet : SameCounts(retained[rs], retained'[rs]),
             UNCHANGED producer_vars, Range(events') \subseteq Range(events), ~Late
      PROVE  RowsInv'
  <2>1. \A e \in Range(events) : e.type = "batch" => e.rs \in ResultSet
    BY BatchTyped
  <2>2. QED
    BY <1>h, <1>s, <2>1 DEF RowsInv, SameCounts
<1>2. CASE Bridge
  <2>1. UNCHANGED <<producer_vars, epoch>> /\ Range(events') \subseteq Range(events)
    BY <1>2, BridgeSteps
  <2>2. ~Late
    BY <1>2, BridgeSteps DEF InEpoch, Late, LateInv
  <2>3. CASE UNCHANGED retained
    BY <1>s, <2>1, <2>2, <2>3 DEF SameCounts
  <2>4. CASE /\ Head(events) \in Range(events)
             /\ Accepts(Head(events)) /\ retained' = Retain(Head(events))
    <3> DEFINE e == Head(events)
    <3>1. e \in Event
      BY <2>4 DEF PipeTyped
    <3>2. \A rs \in ResultSet :
            IF e.type = "batch" /\ rs = e.rs THEN OneMore(retained[rs], retained'[rs], e)
                                             ELSE SameCounts(retained[rs], retained'[rs])
      BY <2>4, <3>1, Retains
    <3>3. CASE e.type # "batch"
      BY <1>s, <2>1, <2>2, <3>2, <3>3
    <3>4. CASE e.type = "batch"
      <4>1. OneMore(retained[e.rs], retained'[e.rs], e) /\ e.rs \in ResultSet
        BY <2>4, <3>2, <3>4, BatchTyped
      <4>2. \A rs \in ResultSet \ {e.rs} : SameCounts(retained[rs], retained'[rs])
        BY <3>2
      <4>3. Rows(retained'[e.rs]) + Held(e.rs) <= fetched[e.rs]
        BY <2>2, <2>4, <3>4, <4>1 DEF RowsInv, OneMore
      <4>4. \A rs \in ResultSet : Rows(retained'[rs]) + Held(rs)' <= fetched'[rs]
        BY <1>h, <2>1, <2>2, <4>2, <4>3 DEF RowsInv, SameCounts
      <4>5. ASSUME NEW f \in Range(events), f.type = "batch", f.rs = e.rs
            PROVE  f.sequence # Taken(retained'[e.rs])
        <5>1. f.sequence <= Taken(retained[e.rs]) /\ f.sequence \in Nat
          BY <2>2, <4>5, BatchTyped DEF OrderInv, Ordered
        <5>2. Taken(retained[e.rs]) \in Nat
          BY <4>1, Counted
        <5>3. QED
          BY <4>1, <5>1, <5>2 DEF OneMore
      <4>6. \A f \in Range(events') : f.type = "batch" /\ f.sequence = Taken(retained'[f.rs]) =>
              Rows(retained'[f.rs]) + f.rows + Held(f.rs)' <= fetched'[f.rs]
        <5> SUFFICES ASSUME NEW f \in Range(events'), f.type = "batch",
                            f.sequence = Taken(retained'[f.rs])
                     PROVE  Rows(retained'[f.rs]) + f.rows + Held(f.rs)' <= fetched'[f.rs]
          OBVIOUS
        <5>1. f \in Range(events) /\ f.rs \in ResultSet /\ f.rs # e.rs
          BY <2>1, <4>5, BatchTyped
        <5>2. QED
          BY <1>h, <2>1, <2>2, <4>2, <5>1 DEF RowsInv, SameCounts
      <4>7. QED
        BY <4>4, <4>6 DEF RowsInv
    <3>5. QED
      BY <3>3, <3>4
  <2>5. QED
    BY <1>2, <2>3, <2>4, BridgeSteps
<1>3. CASE handleExecutionEvent
  <2>1. UNCHANGED <<producer_vars, shared_vars, bridge_vars>>
    BY <1>3 DEF handleExecutionEvent
  <2>2. QED
    BY <1>s, <2>1 DEF Late, shared_vars, bridge_vars, SameCounts
<1>4. CASE Commands \/ User
  <2>1. /\ UNCHANGED <<producer_vars, events, epoch, bridge, bridge_epoch>> /\ OnlyMarks
    BY <1>4, CommandSteps
  <2>2. QED
    BY <1>s, <2>1 DEF OnlyMarks, Late
<1>5. CASE Reload
  <2>1. /\ UNCHANGED <<producer_vars, events, bridge, bridge_epoch>> /\ epoch = 0 /\ epoch' = 1
        /\ \A rs \in ResultSet : retained'[rs] = NoResult
    BY <1>5, ReloadSteps
  <2>2. bridge = "spawn"
    BY <2>1 DEF Late, LateInv
  <2>3. ~Late /\ \A rs \in ResultSet : retained[rs] = NoResult
    BY <2>1, <2>2 DEF Late, OrderInv, Ordered
  <2>4. QED
    BY <1>s, <2>1, <2>3 DEF SameCounts
<1>6. CASE Settled \/ UNCHANGED vars
  <2>1. UNCHANGED <<producer_vars, shared_vars, bridge_vars>>
    BY <1>6 DEF Settled, vars
  <2>2. QED
    BY <1>s, <2>1 DEF Late, shared_vars, bridge_vars, SameCounts
<1>7. QED
  BY <1>1, <1>2, <1>3, <1>4, <1>5, <1>6 DEF Next

(* How many Load more clicks wait in the control channel for a result, and  *)
(* how many clicks the commands have put there so far.                      *)
AsksIn(s, rs) == {i \in 1 .. Len(s) : s[i] = [type |-> "load_more", rs |-> rs]}
Asks(rs) == Cardinality(AsksIn(controls, rs))

Asked(rs) == {click \in Clicks : /\ more[click].kind = "load_more" /\ more[click].rs = rs
                                 /\ more[click].phase \in {"replied", "settled"}}

LEMMA AsksFinite ==
  ASSUME NEW s, IsQueue(s), NEW rs
  PROVE  IsFiniteSet(AsksIn(s, rs)) /\ Cardinality(AsksIn(s, rs)) \in Nat
<1>1. Len(s) \in Nat
  BY DEF IsQueue
<1>2. IsFiniteSet(1 .. Len(s)) /\ AsksIn(s, rs) \in SUBSET (1 .. Len(s))
  BY <1>1, FS_Interval DEF AsksIn
<1>3. QED
  BY <1>2, FS_Subset, FS_CardinalityType

LEMMA AsksAppended ==
  ASSUME NEW s, IsQueue(s), NEW rs, NEW c
  PROVE  Cardinality(AsksIn(Append(s, c), rs))
           <= Cardinality(AsksIn(s, rs)) + IF c = [type |-> "load_more", rs |-> rs] THEN 1 ELSE 0
<1> DEFINE T == Range(s) \cup {c}
           n == Len(s) + 1
<1>1. s \in Seq(T) /\ c \in T
  <2>1. Range(s) \subseteq T
    OBVIOUS
  <2>2. QED
    BY <2>1 DEF IsQueue
<1>2. /\ Len(Append(s, c)) = n /\ Len(s) \in Nat
      /\ \A i \in 1 .. Len(s) : Append(s, c)[i] = s[i]
      /\ Append(s, c)[n] = c
  BY <1>1
<1>3. 1 .. n = (1 .. Len(s)) \cup {n} /\ n \notin 1 .. Len(s)
  BY <1>2
<1>4. IsFiniteSet(AsksIn(s, rs)) /\ Cardinality(AsksIn(s, rs)) \in Nat /\ n \notin AsksIn(s, rs)
  BY <1>3, AsksFinite DEF AsksIn
<1>5. CASE c = [type |-> "load_more", rs |-> rs]
  <2>1. AsksIn(Append(s, c), rs) = AsksIn(s, rs) \cup {n}
    BY <1>2, <1>3, <1>5 DEF AsksIn
  <2> HIDE DEF n
  <2>2. Cardinality(AsksIn(s, rs) \cup {n}) = Cardinality(AsksIn(s, rs)) + 1
    BY <1>4, FS_AddElement
  <2>3. QED
    BY <1>4, <1>5, <2>1, <2>2
<1>6. CASE c # [type |-> "load_more", rs |-> rs]
  <2>1. AsksIn(Append(s, c), rs) = AsksIn(s, rs)
    BY <1>2, <1>3, <1>6 DEF AsksIn
  <2>2. QED
    BY <1>4, <1>6, <2>1
<1>7. QED
  BY <1>5, <1>6

LEMMA AsksTaken ==
  ASSUME NEW s, IsQueue(s), s # <<>>, NEW rs
  PROVE  Cardinality(AsksIn(Tail(s), rs))
           + (IF Head(s) = [type |-> "load_more", rs |-> rs] THEN 1 ELSE 0)
         <= Cardinality(AsksIn(s, rs))
<1> DEFINE S == AsksIn(Tail(s), rs)
           T == AsksIn(s, rs) \ {1}
           f == [i \in S |-> i + 1]
<1>1. /\ Len(s) \in Nat \ {0} /\ Len(Tail(s)) = Len(s) - 1 /\ Head(s) = s[1]
      /\ \A i \in 1 .. Len(Tail(s)) : Tail(s)[i] = s[i + 1]
  BY DEF IsQueue
<1>2. IsFiniteSet(AsksIn(s, rs)) /\ Cardinality(AsksIn(s, rs)) \in Nat
  BY AsksFinite
<1>3. f \in Injection(S, T)
  <2>1. \A i \in S : i \in Nat /\ i + 1 \in T
    BY <1>1 DEF AsksIn
  <2>2. f \in [S -> T]
    BY <2>1
  <2>3. \A i, j \in S : f[i] = f[j] => i = j
    BY <2>1
  <2>4. QED
    BY <2>2, <2>3 DEF Injection, IsInjective
<1>4. /\ IsFiniteSet(T)
      /\ Cardinality(T) = IF 1 \in AsksIn(s, rs) THEN Cardinality(AsksIn(s, rs)) - 1
                                                 ELSE Cardinality(AsksIn(s, rs))
  BY <1>2, FS_RemoveElement
<1>5. IsFiniteSet(S) /\ Cardinality(S) <= Cardinality(T)
  BY <1>3, <1>4, FS_Injection
<1>6. Cardinality(S) \in Nat
  BY <1>5, FS_CardinalityType
<1>7. 1 \in AsksIn(s, rs) <=> Head(s) = [type |-> "load_more", rs |-> rs]
  BY <1>1 DEF AsksIn
<1>8. QED
  BY <1>2, <1>4, <1>5, <1>6, <1>7

LEMMA AskedFinite == \A rs : IsFiniteSet(Asked(rs)) /\ Cardinality(Asked(rs)) \in Nat
<1>1. \A rs : Asked(rs) \in SUBSET Clicks
  BY DEF Asked
<1>2. QED
  BY <1>1, StreamAssumption, FS_Subset, FS_CardinalityType

(* No step that is not the producer's puts more controls there than clicks  *)
(* that were replied to.                                                    *)
NoMoreAsked == \A rs \in ResultSet :
  Asks(rs)' + Cardinality(Asked(rs)) <= Asks(rs) + Cardinality(Asked(rs)')

LEMMA OthersAsk ==
  ASSUME Known, [Next]_vars, ~Producer
  PROVE  NoMoreAsked
<1> USE DEF Known, StreamTyped
<1>q. IsQueue(controls) /\ controls' \in Seq(Range(controls'))
  BY TypedInductive DEF PipeTyped, IsQueue
<1>t. \A rs : {Cardinality(Asked(rs)), Cardinality(Asked(rs)'), Asks(rs), Asks(rs)'} \subseteq Nat
  <2>1. \A rs : Asked(rs)' \in SUBSET Clicks
    BY DEF Asked
  <2>2. \A rs : IsFiniteSet(Asked(rs)') /\ Cardinality(Asked(rs)') \in Nat
    BY <2>1, StreamAssumption, FS_Subset, FS_CardinalityType
  <2>3. \A rs : Asks(rs) \in Nat /\ Asks(rs)' \in Nat
    BY <1>q, AsksFinite DEF Asks, IsQueue
  <2>4. QED
    BY <2>2, <2>3, AskedFinite
<1>g. ASSUME NEW rs, Asked(rs) \subseteq Asked(rs)'
      PROVE  Cardinality(Asked(rs)) <= Cardinality(Asked(rs)')
  <2>1. Asked(rs)' \in SUBSET Clicks
    BY DEF Asked
  <2>2. IsFiniteSet(Asked(rs)')
    BY <2>1, StreamAssumption, FS_Subset
  <2>3. QED
    BY <1>g, <2>2, FS_Subset
<1>l. ASSUME \A rs : Asked(rs) \subseteq Asked(rs)', \A rs : Asks(rs)' <= Asks(rs)
      PROVE  NoMoreAsked
  BY <1>g, <1>l, <1>t DEF NoMoreAsked
<1>u. ASSUME UNCHANGED controls, \A rs : Asked(rs) \subseteq Asked(rs)'
      PROVE  NoMoreAsked
  <2>1. \A rs : Asks(rs)' <= Asks(rs)
    BY <1>t, <1>u DEF Asks
  <2>2. QED
    BY <1>l, <1>u, <2>1
<1>c. ASSUME NEW c, c.type # "load_more", controls' = Append(controls, c),
             \A rs : Asked(rs) \subseteq Asked(rs)'
      PROVE  NoMoreAsked
  <2>1. \A rs : c # [type |-> "load_more", rs |-> rs]
    BY <1>c
  <2>2. \A rs : Asks(rs)' <= Asks(rs)
    BY <1>c, <1>q, <1>t, <2>1, AsksAppended DEF Asks
  <2>3. QED
    BY <1>c, <1>l, <2>2
<1>m. ASSUME UNCHANGED more PROVE \A rs : Asked(rs) \subseteq Asked(rs)'
  BY <1>m DEF Asked
<1>1. CASE UNCHANGED <<controls, more>>
  BY <1>1, <1>m, <1>u
<1>2. CASE ack_result_batch \/ \E who \in {"button", "reject"} : cancel_execution(who)
  <2> DEFINE cancel == [type |-> "cancel"]
  <2>1. UNCHANGED more /\ \/ UNCHANGED controls
                          \/ \E c : c.type # "load_more" /\ controls' = Append(controls, c)
    <3>1. CASE ack_result_batch
      <4> DEFINE c == [type |-> "ack", rs |-> ack.rs, sequence |-> ack.sequence]
      <4>1. c.type # "load_more" /\ (controls' = Append(controls, c) \/ UNCHANGED controls)
        BY <3>1 DEF ack_result_batch, SendControl
      <4>2. QED
        BY <3>1, <4>1 DEF ack_result_batch
    <3>2. CASE \E who \in {"button", "reject"} : cancel_execution(who)
      <4>1. cancel.type # "load_more"
            /\ (controls' = Append(controls, cancel) \/ UNCHANGED controls)
        BY <3>2 DEF cancel_execution, SendControl
      <4>2. QED
        BY <3>2, <4>1 DEF cancel_execution
    <3>3. QED
      BY <1>2, <3>1, <3>2
  <2>2. QED
    BY <1>c, <1>m, <1>u, <2>1
<1>3. ASSUME NEW click \in Clicks, send_result_control(click) PROVE NoMoreAsked
  <2> DEFINE cmd == more[click]
             c == [type |-> cmd.kind, rs |-> cmd.rs]
  <2>1. cmd \in [phase : Phases, kind : {"load_more", "discard"}, rs : ResultSet]
    BY DEF MoreTyped
  <2>2. CASE UNCHANGED controls
    <3>1. \A other \in Clicks :
            more[other].phase \in {"replied", "settled"} => more'[other] = more[other]
      BY <1>3, <2>1 DEF send_result_control, MoreTyped
    <3>2. \A rs : Asked(rs) \subseteq Asked(rs)'
      BY <3>1 DEF Asked
    <3>3. QED
      BY <1>u, <2>2, <3>2
  <2>3. CASE controls' = Append(controls, c) /\ cmd.phase = "sending" /\ pc # "done"
    <3>1. more' = [more EXCEPT ![click].phase = "replied"]
      BY <1>3, <2>3 DEF send_result_control
    <3>2. \A rs : Asked(rs)' = IF c = [type |-> "load_more", rs |-> rs]
                                 THEN Asked(rs) \cup {click} ELSE Asked(rs)
      BY <2>1, <2>3, <3>1 DEF Asked, MoreTyped
    <3>3. \A rs : click \notin Asked(rs)
      BY <2>3 DEF Asked
    <3>4. \A rs : Cardinality(Asked(rs)')
                    = Cardinality(Asked(rs))
                        + IF c = [type |-> "load_more", rs |-> rs] THEN 1 ELSE 0
      <4> SUFFICES ASSUME NEW rs
                   PROVE  Cardinality(Asked(rs)')
                    = Cardinality(Asked(rs))
                        + IF c = [type |-> "load_more", rs |-> rs] THEN 1 ELSE 0
        OBVIOUS
      <4>1. Cardinality(Asked(rs) \cup {click}) = Cardinality(Asked(rs)) + 1
        BY <3>3, AskedFinite, FS_AddElement
      <4>2. CASE c = [type |-> "load_more", rs |-> rs]
        <5>1. Asked(rs)' = Asked(rs) \cup {click}
          BY <3>2, <4>2
        <5>2. QED
          BY <4>1, <4>2, <5>1
      <4>3. CASE c # [type |-> "load_more", rs |-> rs]
        <5>1. Asked(rs)' = Asked(rs)
          BY <3>2, <4>3
        <5>2. QED
          BY <1>t, <4>3, <5>1
      <4>4. QED
        BY <4>2, <4>3
    <3>5. \A rs : Asks(rs)' <= Asks(rs) + IF c = [type |-> "load_more", rs |-> rs] THEN 1 ELSE 0
      BY <1>q, <2>3, AsksAppended DEF Asks
    <3>6. ASSUME NEW rs
          PROVE  Asks(rs)' + Cardinality(Asked(rs)) <= Asks(rs) + Cardinality(Asked(rs)')
      <4> DEFINE one == IF c = [type |-> "load_more", rs |-> rs] THEN 1 ELSE 0
      <4>1. one \in Nat
        OBVIOUS
      <4>2. /\ Cardinality(Asked(rs)') = Cardinality(Asked(rs)) + one
            /\ Asks(rs)' <= Asks(rs) + one
        BY <3>4, <3>5
      <4> HIDE DEF one
      <4>3. QED
        BY <1>t, <4>1, <4>2
    <3>7. QED
      BY <3>6 DEF NoMoreAsked
  <2>4. QED
    BY <1>3, <2>2, <2>3 DEF send_result_control, SendControl, ControlRoom
<1>4. ASSUME NEW click \in Clicks, MoreReply(click) PROVE NoMoreAsked
  <2>1. /\ UNCHANGED controls
        /\ \A other \in Clicks : /\ more'[other].kind = more[other].kind
                                 /\ more'[other].rs = more[other].rs
                                 /\ more[other].phase \in {"replied", "settled"}
                                      => more'[other].phase \in {"replied", "settled"}
    BY <1>4 DEF MoreReply, MoreTyped, shared_vars
  <2>2. \A rs : Asked(rs) \subseteq Asked(rs)'
    BY <2>1 DEF Asked
  <2>3. QED
    BY <1>u, <2>2, <2>1
<1>5. CASE User
  <2>1. /\ UNCHANGED controls
        /\ \A other \in Clicks :
             more[other].phase \in {"replied", "settled"} => more'[other] = more[other]
    BY <1>5 DEF User, ClickCancel, ClickMore, MoreTyped, shared_vars
  <2>2. \A rs : Asked(rs) \subseteq Asked(rs)'
    BY <2>1 DEF Asked
  <2>3. QED
    BY <1>u, <2>2, <2>1
<1>6. CASE Reload
  <2>1. /\ controls' = Append(controls, [type |-> "cancel"]) \/ UNCHANGED controls
        /\ \A other \in Clicks : /\ more'[other].kind = more[other].kind
                                 /\ more'[other].rs = more[other].rs
                                 /\ more[other].phase \in {"replied", "settled"}
                                      => more'[other].phase \in {"replied", "settled"}
    BY <1>6 DEF Reload, MoreTyped
  <2>2. \A rs : Asked(rs) \subseteq Asked(rs)'
    BY <2>1 DEF Asked
  <2>3. QED
    BY <1>c, <1>u, <2>2, <2>1
<1>7. Bridge \/ handleExecutionEvent \/ CancelReply \/ Settled \/ UNCHANGED vars
        => UNCHANGED <<controls, more>>
  BY DEF Bridge, SpawnBridge, Receive, RejectEvent, LateEpoch, RemoveExecution, CloseBridge,
         handleExecutionEvent, CancelReply, Settled, vars, shared_vars, ui_vars
<1>8. QED
  BY <1>1, <1>2, <1>3, <1>4, <1>5, <1>6, <1>7 DEF Next, Commands

(* Every result has been granted its first tranche and one more for each    *)
(* Load more the producer took for it, and what it took was asked for.      *)
TrancheInv ==
  /\ \A rs \in ResultSet : \E m \in Nat :
       /\ m + Asks(rs) <= 1 + Cardinality(Asked(rs))
       /\ fetched[rs] <= TrancheRows * m
       /\ Begun(rs) \/ m = 1
       /\ rs = stmt /\ Running => limit = TrancheRows * m
  /\ pc \in {"fetch", "ack_full"} => fetched[stmt] < limit

LEMMA ProducerLimits ==
  ASSUME OutcomeInv, StreamTyped, Producer
  PROVE  /\ UNCHANGED controls \/ Take
         /\ UNCHANGED more
         /\ \/ /\ pc = "statement" /\ stmt \in ResultSet
               /\ UNCHANGED <<stmt, fetched>> /\ limit' = TrancheRows
            \/ /\ pc \in {"fetch", "ack_full"} /\ UNCHANGED <<stmt, limit>> /\ pc' # "ack_full"
               /\ fetched' = [fetched EXCEPT ![stmt] = fetched[stmt] + 1]
               /\ pc' = "fetch" => fetched[stmt] + 1 < limit
            \/ /\ pc = "paused" /\ Take /\ IsLoadMore(Head(controls))
               /\ UNCHANGED <<stmt, fetched>> /\ limit' = limit + TrancheRows
            \/ /\ Running' => Running /\ UNCHANGED <<stmt, limit>>
               /\ pc' \in {"fetch", "ack_full"} => pc = "fetch" \/ pc = pc'
               /\ pc' \in {"fetch", "ack_full"} => UNCHANGED fetched
               /\ \/ UNCHANGED fetched
                  \/ pc = "fetch" /\ fetched' = [fetched EXCEPT ![stmt] = fetched[stmt] - unsent]
<1> USE DEF StreamTyped, Goto, Running
<1>0. fetched \in [ResultSet -> Nat] /\ limit \in Nat /\ RetainedRows \in Nat
      /\ (Running => stmt \in ResultSet)
  BY StreamAssumption, RunningIsOn DEF CountsTyped
<1>c. UNCHANGED controls \/ Take
  BY DEF Producer, Start, BeginStatement, BeginTransactionFails, FetchRow, FlushFullBatch,
         FlushTranche, SendBatch, OversizedRow, CursorEnds, StatementFails, SendPaused,
         DrainBatch, Acknowledged, AckRefused, DropControl, Continue, LeavePause, ExpirePause,
         SendResultTerminal, EndStatement, EndExecution, ClearActiveCancel, shared_vars
<1>m. UNCHANGED more
  BY ProducerFrame DEF ui_vars
<1>p. ASSUME NEW filled, PushRow(filled), Running
      PROVE  /\ fetched' = [fetched EXCEPT ![stmt] = fetched[stmt] + 1]
             /\ pc' # "ack_full" /\ (pc' = "fetch" => fetched[stmt] + 1 < limit)
  <2>1. fetched[stmt] \in Nat
    BY <1>0, <1>p
  <2>2. QED
    BY <1>0, <1>p, <2>1 DEF PushRow
<1>1. CASE BeginStatement
  BY <1>1, <1>c, <1>m, StreamAssumption
     DEF BeginStatement, OutcomeInv, ProducerTyped, ResultSet
<1>2. CASE FetchRow
  BY <1>2, <1>c, <1>m, <1>p DEF FetchRow
<1>3. CASE Acknowledged
  <2>1. CASE pc = "ack_full"
    BY <1>3, <1>c, <1>m, <1>p, <2>1 DEF Acknowledged
  <2>2. CASE pc # "ack_full"
    BY <1>3, <1>c, <1>m, <2>2 DEF Acknowledged, AwaitingAck, Acked
  <2>3. QED
    BY <2>1, <2>2
<1>4. CASE Continue
  BY <1>4, <1>c, <1>m DEF Continue
<1>5. CASE FlushFullBatch \/ FlushTranche \/ DrainBatch
  BY <1>5, <1>c, <1>m DEF FlushFullBatch, FlushTranche, DrainBatch, SendBatch
<1>6. CASE StatementFails \/ OversizedRow \/ CursorEnds \/ SendPaused \/ LeavePause \/ ExpirePause
  BY <1>6, <1>c, <1>m
     DEF StatementFails, OversizedRow, CursorEnds, SendPaused, LeavePause, ExpirePause
<1>7. CASE AckRefused \/ DropControl
  BY <1>7, <1>c, <1>m DEF AckRefused, DropControl, AwaitingAck, Acked, Refused
<1>8. CASE Start \/ BeginTransactionFails \/ SendResultTerminal \/ EndStatement \/ EndExecution
           \/ ClearActiveCancel
  BY <1>8, <1>c, <1>m
     DEF Start, BeginTransactionFails, SendResultTerminal, EndStatement, EndExecution,
         ClearActiveCancel
<1>9. QED
  BY <1>1, <1>2, <1>3, <1>4, <1>5, <1>6, <1>7, <1>8 DEF Producer

LEMMA OneMoreTranche ==
  ASSUME NEW m \in Nat
  PROVE  TrancheRows * (m + 1) = TrancheRows * m + TrancheRows
<1>1. TrancheRows \in Nat
  BY StreamAssumption
<1>2. QED
  BY <1>1

LEMMA MoreTranches ==
  ASSUME NEW m \in Nat, NEW n \in Nat, m <= n
  PROVE  TrancheRows * m \in Nat /\ TrancheRows * m <= TrancheRows * n
<1>1. TrancheRows \in Nat
  BY StreamAssumption
<1> DEFINE d == n - m
<1>2. d \in Nat /\ n = m + d
  OBVIOUS
<1> HIDE DEF d
<1>3. TrancheRows * d \in Nat /\ TrancheRows * m \in Nat
  BY <1>1, <1>2
<1>4. TrancheRows * (m + d) = TrancheRows * m + TrancheRows * d
  BY <1>1, <1>2
<1>5. QED
  BY <1>2, <1>3, <1>4

LEMMA TrancheProducer == ASSUME Known, FreshInv, TrancheInv, Producer PROVE TrancheInv'
<1> USE DEF Known, StreamTyped
<1>0. /\ fetched \in [ResultSet -> Nat] /\ limit \in Nat /\ unsent \in Nat
      /\ TrancheRows \in Nat \ {0} /\ TrancheRows * 1 = TrancheRows
  BY StreamAssumption DEF CountsTyped
<1>c. UNCHANGED more /\ (UNCHANGED controls \/ Take)
  BY ProducerLimits
<1>q. IsQueue(controls) /\ IsQueue(controls')
  <2>1. StreamTyped'
    BY TypedInductive DEF Next
  <2>2. QED
    BY <2>1 DEF PipeTyped, IsQueue
<1>a. \A rs : Asked(rs)' = Asked(rs) /\ Cardinality(Asked(rs)) \in Nat
  BY <1>c, AskedFinite DEF Asked
<1>n. \A rs : Asks(rs) \in Nat /\ Asks(rs)' \in Nat
  BY <1>q, AsksFinite DEF Asks
<1>t. \A rs : Take =>
        Asks(rs)' + (IF Head(controls) = [type |-> "load_more", rs |-> rs] THEN 1 ELSE 0)
          <= Asks(rs)
  BY <1>q, AsksTaken DEF Asks, Take
<1>l. \A rs : Asks(rs)' <= Asks(rs)
  <2>1. CASE UNCHANGED controls
    BY <1>n, <2>1 DEF Asks
  <2>2. CASE Take
    BY <1>n, <1>t, <2>2
  <2>3. QED
    BY <1>c, <2>1, <2>2
<1>k. \A rs \in ResultSet, m \in Nat :
        m + Asks(rs) <= 1 + Cardinality(Asked(rs)) => m + Asks(rs)' <= 1 + Cardinality(Asked(rs)')
  BY <1>a, <1>l, <1>n
<1>b. \A rs \in ResultSet : Begun(rs) => Begun(rs)'
  BY BegunStays
<1>s. \A m \in Nat : TrancheRows * m \in Nat
  BY <1>0
<1>1. CASE /\ pc = "statement" /\ stmt \in ResultSet
           /\ UNCHANGED <<stmt, fetched>> /\ limit' = TrancheRows
  <2>1. ~Begun(stmt) /\ fetched[stmt] = 0
    BY <1>1, StreamAssumption DEF Begun, FreshInv, ResultSet
  <2>2. ASSUME NEW rs \in ResultSet
        PROVE  \E m \in Nat : /\ m + Asks(rs)' <= 1 + Cardinality(Asked(rs)')
                              /\ fetched'[rs] <= TrancheRows * m
                              /\ Begun(rs)' \/ m = 1
                              /\ rs = stmt' /\ Running' => limit' = TrancheRows * m
    <3>1. PICK m \in Nat : /\ m + Asks(rs) <= 1 + Cardinality(Asked(rs))
                           /\ fetched[rs] <= TrancheRows * m /\ (Begun(rs) \/ m = 1)
      BY DEF TrancheInv
    <3>2. m + Asks(rs)' <= 1 + Cardinality(Asked(rs)')
      BY <1>k, <3>1
    <3>3. rs = stmt' => limit' = TrancheRows * m
      BY <1>0, <1>1, <2>1, <3>1
    <3>4. Begun(rs)' \/ m = 1
      BY <1>b, <3>1
    <3>5. QED
      BY <1>1, <3>1, <3>2, <3>3, <3>4
  <2>3. fetched'[stmt'] < limit'
    BY <1>0, <1>1, <2>1
  <2>4. QED
    BY <2>2, <2>3 DEF TrancheInv
<1>2. CASE /\ pc \in {"fetch", "ack_full"} /\ UNCHANGED <<stmt, limit>> /\ pc' # "ack_full"
           /\ fetched' = [fetched EXCEPT ![stmt] = fetched[stmt] + 1]
           /\ pc' = "fetch" => fetched[stmt] + 1 < limit
  <2>1. stmt \in ResultSet /\ Running /\ fetched[stmt] < limit
    BY <1>2, RunningIsOn DEF Running, TrancheInv
  <2>2. fetched'[stmt] = fetched[stmt] + 1 /\ fetched'[stmt] <= limit
        /\ \A rs \in ResultSet \ {stmt} : fetched'[rs] = fetched[rs]
    BY <1>0, <1>2, <2>1
  <2>3. ASSUME NEW rs \in ResultSet
        PROVE  \E m \in Nat : /\ m + Asks(rs)' <= 1 + Cardinality(Asked(rs)')
                              /\ fetched'[rs] <= TrancheRows * m
                              /\ Begun(rs)' \/ m = 1
                              /\ rs = stmt' /\ Running' => limit' = TrancheRows * m
    <3>1. PICK m \in Nat : /\ m + Asks(rs) <= 1 + Cardinality(Asked(rs))
                           /\ fetched[rs] <= TrancheRows * m /\ (Begun(rs) \/ m = 1)
                           /\ rs = stmt /\ Running => limit = TrancheRows * m
      BY DEF TrancheInv
    <3>2. m + Asks(rs)' <= 1 + Cardinality(Asked(rs)')
      BY <1>k, <3>1
    <3>3. fetched'[rs] <= TrancheRows * m /\ (rs = stmt' => limit' = TrancheRows * m)
      BY <1>2, <2>1, <2>2, <3>1
    <3>4. Begun(rs)' \/ m = 1
      BY <1>b, <3>1
    <3>5. QED
      BY <3>2, <3>3, <3>4
  <2>4. pc' = "fetch" => fetched'[stmt'] < limit'
    BY <1>2, <2>2
  <2>5. QED
    BY <1>2, <2>3, <2>4 DEF TrancheInv
<1>3. CASE /\ pc = "paused" /\ Take /\ IsLoadMore(Head(controls))
           /\ UNCHANGED <<stmt, fetched>> /\ limit' = limit + TrancheRows
  <2>1. stmt \in ResultSet /\ Running
    BY <1>3, RunningIsOn DEF Running
  <2>2. Asks(stmt)' + 1 <= Asks(stmt)
    BY <1>3, <1>t DEF IsLoadMore
  <2>3. PICK m \in Nat : /\ m + Asks(stmt) <= 1 + Cardinality(Asked(stmt))
                         /\ fetched[stmt] <= TrancheRows * m /\ limit = TrancheRows * m
    BY <2>1 DEF TrancheInv
  <2>4. limit' = TrancheRows * (m + 1) /\ fetched[stmt] < limit' /\ m + 1 \in Nat
    BY <1>0, <1>3, <2>1, <2>3, OneMoreTranche
  <2>5. (m + 1) + Asks(stmt)' <= 1 + Cardinality(Asked(stmt)')
    <3>1. \A n, next, k \in Nat : next + 1 <= n /\ m + n <= 1 + k => (m + 1) + next <= 1 + k
      OBVIOUS
    <3>2. Cardinality(Asked(stmt)') = Cardinality(Asked(stmt))
      BY <1>3, <1>a
    <3>3. (m + 1) + Asks(stmt)' <= 1 + Cardinality(Asked(stmt))
      BY <1>3, <1>a, <1>n, <2>2, <2>3, <3>1
    <3>4. QED
      BY <3>2, <3>3
  <2>6. Begun(stmt)
    BY <1>3 DEF Begun
  <2>7. ASSUME NEW rs \in ResultSet
        PROVE  \E k \in Nat : /\ k + Asks(rs)' <= 1 + Cardinality(Asked(rs)')
                              /\ fetched'[rs] <= TrancheRows * k
                              /\ Begun(rs)' \/ k = 1
                              /\ rs = stmt' /\ Running' => limit' = TrancheRows * k
    <3>1. CASE rs = stmt
      <4>1. fetched'[rs] <= TrancheRows * (m + 1)
        BY <1>0, <1>3, <2>1, <2>4, <3>1
      <4>2. Begun(rs)'
        BY <1>b, <2>6, <3>1
      <4>3. (m + 1) + Asks(rs)' <= 1 + Cardinality(Asked(rs)')
        BY <1>3, <2>5, <3>1
      <4>4. QED
        BY <2>4, <4>1, <4>2, <4>3
    <3>2. CASE rs # stmt
      <4>1. PICK k \in Nat : /\ k + Asks(rs) <= 1 + Cardinality(Asked(rs))
                             /\ fetched[rs] <= TrancheRows * k /\ (Begun(rs) \/ k = 1)
        BY DEF TrancheInv
      <4>2. k + Asks(rs)' <= 1 + Cardinality(Asked(rs)')
        BY <1>k, <4>1
      <4>3. QED
        BY <1>3, <1>b, <3>2, <4>1, <4>2
    <3>3. QED
      BY <3>1, <3>2
  <2>8. fetched'[stmt'] < limit'
    BY <1>3, <2>4
  <2>9. QED
    BY <2>7, <2>8 DEF TrancheInv
<1>4. CASE /\ Running' => Running /\ UNCHANGED <<stmt, limit>>
           /\ pc' \in {"fetch", "ack_full"} => pc = "fetch" \/ pc = pc'
           /\ pc' \in {"fetch", "ack_full"} => UNCHANGED fetched
           /\ \/ UNCHANGED fetched
              \/ pc = "fetch" /\ fetched' = [fetched EXCEPT ![stmt] = fetched[stmt] - unsent]
  <2>1. \A rs \in ResultSet : fetched'[rs] <= fetched[rs]
    <3>1. \A rs \in ResultSet : fetched[rs] <= fetched[rs]
      BY <1>0
    <3>2. CASE UNCHANGED fetched
      BY <3>1, <3>2
    <3>3. CASE pc = "fetch" /\ fetched' = [fetched EXCEPT ![stmt] = fetched[stmt] - unsent]
      BY <1>0, <3>3
    <3>4. QED
      BY <1>4, <3>2, <3>3
  <2>2. \A rs \in ResultSet : fetched'[rs] \in Nat
    <3>1. StreamTyped'
      BY TypedInductive DEF Next
    <3>2. QED
      BY <3>1 DEF CountsTyped
  <2>3. ASSUME NEW rs \in ResultSet
        PROVE  \E m \in Nat : /\ m + Asks(rs)' <= 1 + Cardinality(Asked(rs)')
                              /\ fetched'[rs] <= TrancheRows * m
                              /\ Begun(rs)' \/ m = 1
                              /\ rs = stmt' /\ Running' => limit' = TrancheRows * m
    <3>1. PICK m \in Nat : /\ m + Asks(rs) <= 1 + Cardinality(Asked(rs))
                           /\ fetched[rs] <= TrancheRows * m /\ (Begun(rs) \/ m = 1)
                           /\ rs = stmt /\ Running => limit = TrancheRows * m
      BY DEF TrancheInv
    <3>2. m + Asks(rs)' <= 1 + Cardinality(Asked(rs)')
      BY <1>k, <3>1
    <3>3. fetched'[rs] <= TrancheRows * m
      BY <1>0, <1>s, <2>1, <2>2, <3>1
    <3>4. (Begun(rs)' \/ m = 1) /\ (rs = stmt' /\ Running' => limit' = TrancheRows * m)
      BY <1>4, <1>b, <3>1
    <3>5. QED
      BY <3>2, <3>3, <3>4
  <2>4. pc' \in {"fetch", "ack_full"} => fetched'[stmt'] < limit'
    BY <1>4 DEF TrancheInv, Running
  <2>5. QED
    BY <2>3, <2>4 DEF TrancheInv
<1>5. QED
  BY <1>1, <1>2, <1>3, <1>4, ProducerLimits

LEMMA TrancheInductive == Known /\ FreshInv /\ TrancheInv /\ [Next]_vars => TrancheInv'
<1> SUFFICES ASSUME Known, FreshInv, TrancheInv, [Next]_vars, ~Producer PROVE TrancheInv'
  BY TrancheProducer
<1>1. UNCHANGED producer_vars
  <2>1. Bridge => UNCHANGED producer_vars
    BY BridgeSteps DEF Known
  <2>2. Commands \/ User => UNCHANGED producer_vars
    BY CommandSteps DEF Known
  <2>3. Reload => UNCHANGED producer_vars
    BY ReloadSteps DEF Known
  <2>4. handleExecutionEvent \/ Settled \/ UNCHANGED vars => UNCHANGED producer_vars
    BY DEF handleExecutionEvent, Settled, vars
  <2>5. QED
    BY <2>1, <2>2, <2>3, <2>4 DEF Next
<1>2. NoMoreAsked
  BY OthersAsk
<1>q. IsQueue(controls) /\ IsQueue(controls')
  <2>1. StreamTyped'
    BY TypedInductive DEF Known
  <2>2. QED
    BY <2>1 DEF Known, StreamTyped, PipeTyped, IsQueue
<1>n. \A rs : {Asks(rs), Asks(rs)', Cardinality(Asked(rs)), Cardinality(Asked(rs)')} \subseteq Nat
  <2>1. \A rs : Asks(rs) \in Nat /\ Asks(rs)' \in Nat
    BY <1>q, AsksFinite DEF Asks
  <2>2. \A rs : Asked(rs)' \in SUBSET Clicks
    BY DEF Asked
  <2>3. \A rs : Cardinality(Asked(rs)') \in Nat
    BY <2>2, StreamAssumption, FS_Subset, FS_CardinalityType
  <2>4. QED
    BY <2>1, <2>3, AskedFinite
<1>3. \A rs \in ResultSet, m \in Nat :
        m + Asks(rs) <= 1 + Cardinality(Asked(rs)) => m + Asks(rs)' <= 1 + Cardinality(Asked(rs)')
  BY <1>2, <1>n DEF NoMoreAsked
<1>4. /\ UNCHANGED <<pc, stmt, fetched, limit>>
      /\ Running' <=> Running
      /\ \A rs : Begun(rs)' <=> Begun(rs)
  BY <1>1 DEF producer_vars, Running, Begun
<1>5. QED
  BY <1>3, <1>4 DEF TrancheInv

(* One Load more authorises one more tranche: no interleaving of clicks,    *)
(* stale controls and pauses retains more rows than the user asked for.     *)
THEOREM RowsAreAskedFor == Spec => []TrancheAuthorized
<1>1. Init => FreshInv /\ OrderInv /\ RowsInv /\ TrancheInv
  <2> SUFFICES ASSUME Init PROVE RowsInv /\ TrancheInv
    BY FreshInitially, OrderInitially
  <2>1. \A rs \in ResultSet : retained[rs] = NoResult /\ fetched[rs] = 0 /\ Held(rs) = 0
    BY DEF Init, Held
  <2>2. Range(events) = {} /\ controls = <<>> /\ pc = "start"
    BY QueueEmpty DEF Init
  <2>3. RowsInv
    BY <2>1, <2>2 DEF RowsInv, Rows
  <2>4. \A rs : Asks(rs) = 0 /\ Cardinality(Asked(rs)) \in Nat
    <3>1. \A rs : AsksIn(<<>>, rs) = {}
      BY QueueEmpty DEF AsksIn
    <3>2. QED
      BY <2>2, <3>1, AskedFinite, FS_EmptySet DEF Asks
  <2>5. TrancheRows * 1 \in Nat
    BY StreamAssumption
  <2>6. \A rs : 1 + Asks(rs) <= 1 + Cardinality(Asked(rs))
    BY <2>4
  <2>7. TrancheInv
    BY <2>1, <2>2, <2>5, <2>6 DEF TrancheInv, Running
  <2>8. QED
    BY <2>3, <2>7
<1>2. Known /\ FreshInv /\ OrderInv /\ RowsInv /\ TrancheInv /\ [Next]_vars
        => (FreshInv /\ OrderInv /\ RowsInv /\ TrancheInv)'
  BY FreshInductive, OrderInductive, RowsInductive, TrancheInductive
<1>3. Known /\ RowsInv /\ TrancheInv => TrancheAuthorized
  <2> SUFFICES ASSUME Known, RowsInv, TrancheInv, NEW rs \in ResultSet, retained[rs] # NoResult
               PROVE  LET asked == {click \in Clicks :
                            /\ more[click].kind = "load_more" /\ more[click].rs = rs
                            /\ more[click].phase \in {"sending", "replied", "settled"}}
                      IN retained[rs].rows <= TrancheRows * (1 + Cardinality(asked))
    BY DEF TrancheAuthorized
  <2> USE DEF Known, StreamTyped
  <2> DEFINE asked == {click \in Clicks :
                         /\ more[click].kind = "load_more" /\ more[click].rs = rs
                         /\ more[click].phase \in {"sending", "replied", "settled"}}
  <2>1. ~Late
    BY DEF LateInv
  <2>2. Rows(retained[rs]) + Held(rs) <= fetched[rs]
    BY <2>1 DEF RowsInv
  <2>3. retained[rs].rows = Rows(retained[rs]) /\ Rows(retained[rs]) \in Nat
        /\ fetched[rs] \in Nat /\ Held(rs) \in Nat
    BY Counted, HeldTyped DEF Rows, CountsTyped
  <2>4. asked \in SUBSET Clicks /\ Asked(rs) \in SUBSET asked
    BY DEF Asked
  <2>5. IsFiniteSet(asked) /\ Cardinality(asked) \in Nat
    BY <2>4, StreamAssumption, FS_Subset, FS_CardinalityType
  <2>6. Cardinality(Asked(rs)) <= Cardinality(asked) /\ Cardinality(Asked(rs)) \in Nat
    BY <2>4, <2>5, FS_Subset, AskedFinite
  <2>7. Asks(rs) \in Nat
    BY AsksFinite DEF Asks, PipeTyped
  <2>8. PICK m \in Nat : /\ m + Asks(rs) <= 1 + Cardinality(Asked(rs))
                         /\ fetched[rs] <= TrancheRows * m
    BY DEF TrancheInv
  <2> HIDE DEF asked
  <2>9. m <= 1 + Cardinality(asked) /\ 1 + Cardinality(asked) \in Nat
    BY <2>5, <2>6, <2>7, <2>8
  <2>10. TrancheRows * m \in Nat /\ TrancheRows * m <= TrancheRows * (1 + Cardinality(asked))
    BY <2>9, MoreTranches
  <2>11. TrancheRows * (1 + Cardinality(asked)) \in Nat
    BY <2>9, MoreTranches
  <2>12. retained[rs].rows <= TrancheRows * (1 + Cardinality(asked))
    BY <2>2, <2>3, <2>8, <2>10, <2>11
  <2>13. QED
    BY <2>12 DEF asked
<1>4. QED
  BY <1>1, <1>2, <1>3, KnownHolds, PTL DEF Spec

-----------------------------------------------------------------------------

(* What liveness rests on.  The producer that waits and the batch, call or  *)
(* control that will wake it are never seen apart: each hand-over puts the  *)
(* next in place before it takes the last one away.                         *)
LEMMA QueueRest == ASSUME NEW s, IsQueue(s), s # <<>>
                   PROVE  Range(s) \subseteq {Head(s)} \cup Range(Tail(s))
<1>1. /\ Tail(s) \in Seq(Range(s)) /\ Len(Tail(s)) = Len(s) - 1 /\ Head(s) = s[1]
      /\ \A i \in 1..Len(Tail(s)) : Tail(s)[i] = s[i + 1]
  BY HeadTailProperties DEF IsQueue
<1>2. DOMAIN Tail(s) = 1..Len(Tail(s)) /\ DOMAIN s = 1..Len(s) /\ Len(s) \in Nat
  BY <1>1, LenProperties DEF IsQueue
<1>3. ASSUME NEW i \in 1..Len(s), i # 1 PROVE s[i] \in Range(Tail(s))
  <2>1. i - 1 \in 1..Len(Tail(s)) /\ (i - 1) + 1 = i
    BY <1>1, <1>2, <1>3
  <2>2. Tail(s)[i - 1] = s[(i - 1) + 1]
    BY <1>1, <2>1
  <2>3. QED
    BY <1>2, <2>1, <2>2 DEF Range
<1>4. QED
  BY <1>1, <1>2, <1>3 DEF Range

AckSomewhere ==
  \/ \E e \in Range(events) \cup Range(inbox) : Awaited(e)
  \/ AckDue(stmt, sequence)
  \/ \E c \in Range(controls) : IsCancel(c)
  \/ cancel_cmd.reject # "idle"

Owed == AwaitingAck /\ ~cancelled /\ live /\ bridge \in {"spawn", "recv"}

AckInv ==
  /\ DOMAIN cancel_cmd = {"button", "reject"}
  /\ live => ui.state # "none"
  /\ Owed => AckSomewhere

LEMMA OwedProducer ==
  ASSUME Known, AckInv, Producer
  PROVE  AckInv'
<1> USE DEF Known, StreamTyped, PipeTyped
<1>1. UNCHANGED <<live, bridge, inbox, ui, ack, cancel_cmd>>
  BY ProducerFrame DEF bridge_vars, ui_vars
<1> SUFFICES ASSUME Owed' PROVE AckSomewhere'
  BY <1>1 DEF AckInv
<1>2. live /\ bridge \in {"spawn", "recv"} /\ pc' \in {"ack_full", "ack_tranche", "ack_last"}
  BY <1>1 DEF Owed, AwaitingAck, Acked
<1>3. Receiving /\ IsQueue(events)
  BY <1>2 DEF Receiving, OutcomeInv, ProducerTyped
<1>4. ASSUME NEW w, SendBatch(unsent, w, "drain") \/ SendBatch(unsent, w, "result")
      PROVE  AckSomewhere'
  <2>1. PICK b : b = Batch(unsent)
    OBVIOUS
  <2>2. Send(b) /\ UNCHANGED <<stmt, sequence>>
    BY <1>4, <2>1 DEF SendBatch
  <2>3. b \in Range(events')
    BY <1>3, <2>2, QueueGrows DEF Send
  <2>4. b.type = "batch" /\ b.rs = stmt' /\ b.sequence = sequence'
    BY <2>1, <2>2 DEF Batch
  <2>5. QED
    BY <2>3, <2>4 DEF AckSomewhere, Awaited
<1>5. CASE FlushFullBatch \/ FlushTranche \/ (DrainBatch /\ pc' = "ack_last")
  <2>1. FlushFullBatch => AckSomewhere'
    BY <1>4 DEF FlushFullBatch
  <2>2. FlushTranche => AckSomewhere'
    BY <1>4 DEF FlushTranche
  <2>3. DrainBatch /\ pc' = "ack_last" => AckSomewhere'
    BY <1>4 DEF DrainBatch, Goto
  <2>4. QED
    BY <1>5, <2>1, <2>2, <2>3
<1>6. CASE DropControl
  <2>1. AwaitingAck /\ ~IsAck(Head(controls)) /\ ~IsCancel(Head(controls))
    BY <1>2, <1>6 DEF DropControl, Goto
  <2>2. Take /\ UNCHANGED <<stmt, sequence, events, cancelled>>
    BY <1>6 DEF DropControl
  <2>3. Range(controls) \subseteq {Head(controls)} \cup Range(controls')
        /\ Range(controls) \subseteq Control
    BY <2>2, QueueRest DEF Take
  <2>4. AckSomewhere
    BY <1>2, <2>1, <2>2 DEF AckInv, Owed
  <2>5. \A c \in Control : c.type = "ack" /\ c.rs = stmt /\ c.sequence = sequence => IsAck(c)
    BY DEF Control, IsAck
  <2>6. AckDue(stmt, sequence) => AckDue(stmt, sequence)'
    BY <1>1, <2>1, <2>2, <2>3, <2>5 DEF AckDue
  <2>7. (\E c \in Range(controls) : IsCancel(c)) => (\E c \in Range(controls') : IsCancel(c)')
    BY <2>1, <2>3 DEF IsCancel
  <2>8. QED
    BY <1>1, <2>2, <2>4, <2>6, <2>7 DEF AckSomewhere, Awaited
<1>7. CASE Acknowledged
  BY <1>2, <1>7 DEF Acknowledged, AwaitingAck, Acked, PushRow, Goto
<1>8. CASE AckRefused
  BY <1>2, <1>8 DEF AckRefused, AwaitingAck, Acked, Refused, Goto
<1>9. CASE Start \/ BeginStatement \/ BeginTransactionFails \/ FetchRow \/ OversizedRow \/ CursorEnds
           \/ StatementFails \/ SendPaused \/ Continue \/ LeavePause \/ ExpirePause
  BY <1>2, <1>9
   DEF Start, BeginStatement, BeginTransactionFails, FetchRow, PushRow, OversizedRow, CursorEnds,
       StatementFails, SendPaused, Continue, LeavePause, ExpirePause, Goto
<1>10. CASE SendResultTerminal \/ EndStatement \/ EndExecution \/ ClearActiveCancel
            \/ (DrainBatch /\ pc' # "ack_last")
  <2>1. DrainBatch => pc' \in {"ack_last", "result"}
    BY DEF DrainBatch, SendBatch, Goto
  <2>2. QED
    BY <1>2, <1>10, <2>1
     DEF SendResultTerminal, EndStatement, EndExecution, ClearActiveCancel, Goto
<1>11. QED
  BY <1>5, <1>6, <1>7, <1>8, <1>9, <1>10 DEF Producer

LEMMA OwedBridge ==
  ASSUME Known, AckInv, Bridge
  PROVE  AckInv'
<1> USE DEF Known, StreamTyped, PipeTyped
<1>1. UNCHANGED <<pc, stmt, sequence, slot, controls, ui, ack, cancel_cmd>>
  BY BridgeSteps DEF producer_vars
<1>2. (live' => live) /\ (cancelled => cancelled')
  BY DEF Bridge, SpawnBridge, Receive, RejectEvent, LateEpoch, RemoveExecution, CloseBridge,
         shared_vars, request_cancel, OutcomeInv, ProducerTyped
<1> SUFFICES ASSUME Owed' PROVE AckSomewhere'
  BY <1>1, <1>2 DEF AckInv
<1>3. AwaitingAck /\ ~cancelled /\ live /\ bridge' \in {"spawn", "recv"} /\ slot
  BY <1>1, <1>2 DEF Owed, AwaitingAck, Acked, CountsTyped, OutcomeInv, ProducerTyped
<1>s. ASSUME bridge \in {"spawn", "recv"},
             \A e \in Range(events) \cup Range(inbox) : e \in Range(events') \cup Range(inbox')
      PROVE  AckSomewhere'
  <2>1. AckSomewhere
    BY <1>3, <1>s DEF AckInv, Owed
  <2>2. QED
    BY <1>1, <1>s, <2>1 DEF AckSomewhere, AckDue, Awaited, IsCancel
<1>4. CASE SpawnBridge
  BY <1>4, <1>s DEF SpawnBridge, shared_vars, ui_vars
<1>5. CASE Receive
  <2>1. bridge = "recv" /\ events # <<>> /\ events' = Tail(events)
    BY <1>5 DEF Receive, InEpoch
  <2>2. Range(events) \subseteq {Head(events)} \cup Range(events')
    BY <2>1, QueueRest DEF OutcomeInv, ProducerTyped
  <2>3. inbox' = Append(inbox, Head(events))
    BY <1>3, <1>5 DEF Receive, Owed, request_cancel
  <2>4. Range(inbox') = Range(inbox) \cup {Head(events)}
    BY <2>3, QueueGrows
  <2>5. QED
    BY <1>s, <2>1, <2>2, <2>4
<1>6. CASE RejectEvent \/ LateEpoch \/ RemoveExecution \/ CloseBridge
  BY <1>3, <1>6 DEF RejectEvent, LateEpoch, RemoveExecution, CloseBridge
<1>7. QED
  BY <1>4, <1>5, <1>6 DEF Bridge

LEMMA OwedPage ==
  ASSUME Known, AckInv, handleExecutionEvent
  PROVE  AckInv'
<1> USE DEF Known, StreamTyped, PipeTyped, CopiesTyped
<1> DEFINE e == Head(inbox)
<1>1. UNCHANGED <<pc, stmt, sequence, cancelled, live, bridge, controls, events>>
  BY DEF handleExecutionEvent, producer_vars, shared_vars, bridge_vars
<1>2. inbox # <<>> /\ inbox' = Tail(inbox) /\ ack = NoCall
  BY DEF handleExecutionEvent
<1>3. Range(inbox) \subseteq {e} \cup Range(inbox')
  BY <1>2, QueueRest
<1>4. DOMAIN cancel_cmd' = DOMAIN cancel_cmd
      /\ (cancel_cmd.reject # "idle" => cancel_cmd'.reject # "idle")
  BY DEF handleExecutionEvent, HandleBatch, rejectExecutionEvent, HandlePaused,
         HandleResultTerminal, HandleLifecycle, Ignore, AckInv
<1>5. ui.state # "none" => ui'.state # "none"
  <2>2. ASSUME NEW rs, NEW x, NEW state, state # "none", SetResult(rs, x, state)
        PROVE  ui'.state # "none"
    BY <2>2 DEF SetResult
  <2>3. HandleBatch(e) \/ HandlePaused(e) \/ HandleResultTerminal(e) \/ Ignore(e)
          => (ui.state # "none" => ui'.state # "none")
    BY <2>2 DEF HandleBatch, HandlePaused, HandleResultTerminal, Ignore
  <2>4. rejectExecutionEvent(e) => ui'.state # "none"
    BY DEF rejectExecutionEvent, SetState
  <2>5. HandleLifecycle(e) => ui'.state # "none"
    BY DEF HandleLifecycle, SetState, StateOf
  <2>6. QED
    BY <2>3, <2>4, <2>5 DEF handleExecutionEvent
<1> SUFFICES ASSUME Owed' PROVE AckSomewhere'
  BY <1>1, <1>4, <1>5 DEF AckInv
<1>6. Owed /\ AckSomewhere /\ ui.state # "none"
  BY <1>1 DEF Owed, AckInv, AwaitingAck
<1>7. CASE e.type # "batch"
  <2>1. ~Awaited(e) /\ ack' = ack
    BY <1>7 DEF Awaited, handleExecutionEvent, HandleBatch, rejectExecutionEvent, HandlePaused,
                HandleResultTerminal, HandleLifecycle, Ignore
  <2>2. QED
    BY <1>1, <1>3, <1>4, <1>6, <2>1 DEF AckSomewhere, AckDue, Awaited, IsCancel
<1>8. CASE e.type = "batch"
  <2>1. HandleBatch(e) \/ rejectExecutionEvent(e)
    BY <1>6, <1>8 DEF handleExecutionEvent, HandlePaused, HandleResultTerminal, HandleLifecycle,
                      StateOf, Ignore
  <2>2. CASE rejectExecutionEvent(e)
    <3>1. cancel_cmd'.reject # "idle"
      BY <2>2 DEF rejectExecutionEvent, AckInv
    <3>2. QED
      BY <3>1 DEF AckSomewhere
  <2>3. CASE HandleBatch(e)
    <3>1. ack' = [phase |-> "called", rs |-> e.rs, sequence |-> e.sequence] /\ e \in Event
      BY <1>2, <2>3, QueueShrinks DEF HandleBatch
    <3>2. ack' # NoCall
      <4>1. ack' \in AckCall
        BY <1>8, <3>1 DEF AckCall, Event
      <4>2. QED
        BY <4>1, StreamAssumption
    <3>3. Awaited(e) => AckDue(stmt, sequence)'
      BY <1>1, <3>1, <3>2 DEF Awaited, AckDue
    <3>4. QED
      BY <1>1, <1>2, <1>3, <1>4, <1>6, <3>3 DEF AckSomewhere, AckDue, Awaited, IsCancel
  <2>4. QED
    BY <2>1, <2>2, <2>3
<1>9. QED
  BY <1>7, <1>8

LEMMA ControlGoesIn ==
  ASSUME IsQueue(controls), pc # "done", NEW c, SendControl(c)
  PROVE  Range(controls') = Range(controls) \cup {c}
BY QueueGrows DEF SendControl

LEMMA OwedCommands ==
  ASSUME Known, AckInv, Commands \/ User
  PROVE  AckInv'
<1> USE DEF Known, StreamTyped, PipeTyped, CopiesTyped
<1>1. UNCHANGED <<pc, stmt, sequence, events, live, bridge, inbox>>
  BY CommandSteps DEF producer_vars
<1>2. DOMAIN cancel_cmd' = {"button", "reject"}
  BY DEF Commands, User, ack_result_batch, CancelReply, cancel_execution, send_result_control,
         MoreReply, ClickCancel, ClickMore, AckInv
<1>3. ui.state # "none" => ui'.state # "none"
  <2>1. CASE CancelReply
    BY <2>1 DEF CancelReply, SetState
  <2>2. CASE \E click \in Clicks : MoreReply(click)
    BY <2>2 DEF MoreReply
  <2>3. CASE UNCHANGED ui
    BY <2>3
  <2>4. CancelReply \/ (\E click \in Clicks : MoreReply(click)) \/ UNCHANGED ui
    BY DEF Commands, User, ack_result_batch, cancel_execution, send_result_control,
           ClickCancel, ClickMore
  <2>5. QED
    BY <2>1, <2>2, <2>3, <2>4
<1> SUFFICES ASSUME Owed' PROVE AckSomewhere'
  BY <1>1, <1>2, <1>3 DEF AckInv
<1>4. cancelled => cancelled'
  BY DEF Commands, User, ack_result_batch, CancelReply, cancel_execution, send_result_control,
         MoreReply, ClickCancel, ClickMore, shared_vars, request_cancel, OutcomeInv, ProducerTyped
<1>5. Owed /\ AckSomewhere /\ live /\ pc # "done"
  BY <1>1, <1>4 DEF Owed, AwaitingAck, Acked, AckInv
<1>s. ASSUME Range(controls) \subseteq Range(controls'),
             AckDue(stmt, sequence) => AckDue(stmt, sequence)',
             cancel_cmd.reject # "idle" =>
               cancel_cmd'.reject # "idle" \/ \E c \in Range(controls') : IsCancel(c)
      PROVE  AckSomewhere'
  BY <1>1, <1>5, <1>s DEF AckSomewhere, Awaited, IsCancel
<1>u. ASSUME UNCHANGED ack, Range(controls) \subseteq Range(controls')
      PROVE  AckDue(stmt, sequence) => AckDue(stmt, sequence)'
  BY <1>1, <1>u DEF AckDue
<1>6. CASE ack_result_batch
  <2>1. UNCHANGED cancel_cmd /\ ack # NoCall
    BY <1>6 DEF ack_result_batch
  <2>2. CASE ack.phase = "called" /\ ack' = [ack EXCEPT !.phase = "sending"] /\ UNCHANGED controls
    <3>1. ack' \in AckCall /\ ack'.rs = ack.rs /\ ack'.sequence = ack.sequence
      BY <2>1, <2>2 DEF AckCall
    <3>2. ack' # NoCall
      BY <3>1, StreamAssumption
    <3>3. AckDue(stmt, sequence) => AckDue(stmt, sequence)'
      BY <1>1, <2>2, <3>1, <3>2 DEF AckDue
    <3>4. QED
      BY <1>s, <2>1, <2>2, <3>3
  <2>3. CASE SendControl([type |-> "ack", rs |-> ack.rs, sequence |-> ack.sequence])
    <3>1. PICK c : c = [type |-> "ack", rs |-> ack.rs, sequence |-> ack.sequence]
      OBVIOUS
    <3>2. Range(controls') = Range(controls) \cup {c}
      BY <1>5, <2>3, <3>1, ControlGoesIn
    <3>3. AckDue(stmt, sequence) => AckDue(stmt, sequence)'
      BY <1>1, <3>1, <3>2 DEF AckDue
    <3>4. QED
      BY <1>s, <2>1, <3>2, <3>3
  <2>4. QED
    BY <1>5, <1>6, <2>2, <2>3 DEF ack_result_batch
<1>7. ASSUME NEW who \in {"button", "reject"}, cancel_execution(who) PROVE AckSomewhere'
  <2>1. UNCHANGED ack
    BY <1>7 DEF cancel_execution
  <2>2. CASE cancel_cmd' = [cancel_cmd EXCEPT ![who] = "sending"] /\ UNCHANGED controls
    BY <1>s, <1>u, <2>1, <2>2 DEF AckInv
  <2>3. CASE SendControl([type |-> "cancel"])
    <3>1. PICK c : c = [type |-> "cancel"]
      OBVIOUS
    <3>2. Range(controls') = Range(controls) \cup {c}
      BY <1>5, <2>3, <3>1, ControlGoesIn
    <3>3. QED
      BY <3>1, <3>2 DEF AckSomewhere, IsCancel
  <2>4. QED
    BY <1>5, <1>7, <2>2, <2>3 DEF cancel_execution
<1>8. ASSUME NEW click \in Clicks, send_result_control(click) PROVE AckSomewhere'
  <2>1. UNCHANGED <<ack, cancel_cmd>>
    BY <1>8 DEF send_result_control
  <2>2. CASE UNCHANGED controls
    BY <1>s, <1>u, <2>1, <2>2
  <2>3. CASE SendControl([type |-> more[click].kind, rs |-> more[click].rs])
    <3>1. Range(controls) \subseteq Range(controls')
      BY <1>5, <2>3, ControlGoesIn
    <3>2. QED
      BY <1>s, <1>u, <2>1, <3>1
  <2>4. QED
    BY <1>8, <2>2, <2>3 DEF send_result_control
<1>9. CASE CancelReply \/ User \/ \E click \in Clicks : MoreReply(click)
  <2>1. UNCHANGED <<ack, controls>>
    BY <1>9 DEF CancelReply, User, ClickCancel, ClickMore, MoreReply, shared_vars
  <2>2. cancel_cmd'.reject = cancel_cmd.reject
    BY <1>9 DEF CancelReply, User, ClickCancel, ClickMore, MoreReply, AckInv
  <2>3. QED
    BY <1>s, <1>u, <2>1, <2>2
<1>10. QED
  BY <1>6, <1>7, <1>8, <1>9 DEF Commands

(* The producer that waits for an acknowledgement will be woken.            *)
THEOREM AcksAreNotLost == Spec => []AckOnItsWay
<1>1. Init => AckInv
  <2> SUFFICES ASSUME Init PROVE AckInv
    OBVIOUS
  <2>1. ui.state = "queued" /\ DOMAIN cancel_cmd = {"button", "reject"} /\ ~AwaitingAck
    BY DEF Init, NoExecution, AwaitingAck, Acked
  <2>2. QED
    BY <2>1 DEF AckInv, Owed
<1>2. Known /\ AckInv /\ [Next]_vars => AckInv'
  <2> SUFFICES ASSUME Known, AckInv, [Next]_vars PROVE AckInv'
    OBVIOUS
  <2>1. CASE Reload
    <3>1. ~live' /\ DOMAIN cancel_cmd' = {"button", "reject"}
      BY <2>1 DEF Reload
    <3>2. QED
      BY <3>1 DEF AckInv, Owed
  <2>2. CASE Settled \/ UNCHANGED vars
    BY <2>2 DEF Settled, vars, producer_vars, shared_vars, bridge_vars, ui_vars, AckInv, Owed,
                AckSomewhere, AwaitingAck, Awaited, AckDue, IsCancel
  <2>3. QED
    BY <2>1, <2>2, OwedProducer, OwedBridge, OwedPage, OwedCommands DEF Next
<1>3. Known /\ AckInv => AckOnItsWay
  <2> SUFFICES ASSUME Known, AckInv, Owed
               PROVE  \/ \E i \in DOMAIN events : Awaited(events[i])
                      \/ \E i \in DOMAIN inbox : Awaited(inbox[i])
                      \/ ack # NoCall /\ ack.rs = stmt /\ ack.sequence = sequence
                      \/ \E i \in DOMAIN controls : IsAck(controls[i]) \/ IsCancel(controls[i])
                      \/ cancel_cmd.reject # "idle"
    BY DEF AckOnItsWay, Owed
  <2>1. \A c \in Range(controls) : c.type = "ack" /\ c.rs = stmt /\ c.sequence = sequence => IsAck(c)
    BY DEF Known, StreamTyped, PipeTyped, Control, IsAck
  <2>2. AckSomewhere
    BY DEF AckInv
  <2>3. QED
    BY <2>1, <2>2 DEF AckSomewhere, AckDue, Range
<1>4. QED
  BY <1>1, <1>2, <1>3, KnownHolds, PTL DEF Spec

(* The terminal event is in the channel from the moment the producer cannot *)
(* take its end back until the bridge has read it.                          *)
Terminal(s) == \E e \in Range(s) : e.type \in DOMAIN HistoryOf

ReleaseInv ==
  /\ (pc \in {"clear", "done"} \/ flags.failed) /\ bridge \in {"spawn", "recv"} => Terminal(events)
  /\ bridge \in {"closing", "done"} => ~live

LEMMA ReleaseProducer ==
  ASSUME Known, ReleaseInv, Producer
  PROVE  ReleaseInv'
<1> USE DEF Known, StreamTyped
<1>1. UNCHANGED <<live, bridge>>
  BY ProducerFrame DEF bridge_vars
<1> SUFFICES ASSUME pc' \in {"clear", "done"} \/ flags'.failed, bridge \in {"spawn", "recv"}
             PROVE  Terminal(events')
  BY <1>1 DEF ReleaseInv
<1>2. Receiving /\ IsQueue(events) /\ flags \in FlagSet
  BY DEF Receiving, OutcomeInv, ProducerTyped
<1>3. ASSUME NEW e, Send(e) PROVE Range(events') = Range(events) \cup {e}
  BY <1>2, <1>3, QueueGrows DEF Send
<1>k. ASSUME pc \in {"clear", "done"} \/ flags.failed,
             UNCHANGED events \/ \E e : Send(e)
      PROVE  Terminal(events')
  BY <1>3, <1>k DEF ReleaseInv, Terminal
<1>4. ASSUME NEW type \in DOMAIN HistoryOf, Send([type |-> type]) PROVE Terminal(events')
  <2>1. PICK e : e = [type |-> type]
    OBVIOUS
  <2>2. e \in Range(events') /\ e.type = type
    BY <1>3, <1>4, <2>1
  <2>3. QED
    BY <2>2 DEF Terminal
<1>5. CASE BeginTransactionFails \/ StatementFails
  BY <1>4, <1>5 DEF BeginTransactionFails, StatementFails, HistoryOf
<1>6. CASE EndExecution
  BY <1>4, <1>6, <1>k DEF EndExecution, HistoryOf
<1>7. CASE ClearActiveCancel
  BY <1>7, <1>k DEF ClearActiveCancel
<1>8. CASE BeginStatement
  BY <1>8, <1>k DEF BeginStatement, NoFlags, Goto, shared_vars
<1>9. CASE FetchRow \/ OversizedRow \/ CursorEnds \/ SendPaused \/ DropControl \/ Continue
           \/ LeavePause \/ ExpirePause \/ Start
  <2>1. pc' \notin {"clear", "done"} /\ (flags'.failed => flags.failed)
    BY <1>2, <1>9 DEF FetchRow, PushRow, OversizedRow, CursorEnds, SendPaused, DropControl, Continue,
                LeavePause, ExpirePause, Start, Goto, AwaitingAck, Acked, FlagSet
  <2>2. UNCHANGED events \/ \E e : Send(e)
    BY <1>9 DEF FetchRow, OversizedRow, CursorEnds, SendPaused, DropControl, Continue,
                LeavePause, ExpirePause, Start, shared_vars
  <2>3. QED
    BY <2>1, <2>2, <1>k
<1>b. ASSUME NEW w \in PCs \ {"clear", "done"}, NEW r \in PCs \ {"clear", "done"},
             SendBatch(unsent, w, r)
      PROVE  Terminal(events')
  <2>1. pc' \in {w, r} /\ (flags'.failed => flags.failed)
    BY <1>2, <1>b DEF SendBatch, Goto, FlagSet
  <2>2. Send(Batch(unsent))
    BY <1>b DEF SendBatch
  <2>3. QED
    BY <2>1, <2>2, <1>k
<1>q. {"ack_full", "ack_tranche", "ack_last", "drain", "result"} \subseteq PCs \ {"clear", "done"}
  BY DEF PCs
<1>10. CASE FlushFullBatch \/ FlushTranche
  BY <1>b, <1>q, <1>10 DEF FlushFullBatch, FlushTranche
<1>11. CASE DrainBatch
  <2>1. CASE SendBatch(unsent, "ack_last", "result")
    BY <1>b, <1>q, <2>1
  <2>2. CASE Goto("result") /\ UNCHANGED flags /\ UNCHANGED events
    BY <2>2, <1>k DEF Goto
  <2>3. QED
    BY <1>11, <2>1, <2>2 DEF DrainBatch, shared_vars
<1>12. CASE Acknowledged \/ AckRefused
  <2>1. Acknowledged => pc' \notin {"clear", "done"} /\ (flags'.failed => flags.failed)
    BY <1>2 DEF Acknowledged, PushRow, Goto, AwaitingAck, Acked, FlagSet
  <2>2. AckRefused => pc' \notin {"clear", "done"} /\ (flags'.failed => flags.failed)
    BY <1>2 DEF AckRefused, Goto, AwaitingAck, Acked, Refused, FlagSet
  <2>3. UNCHANGED events
    BY <1>12 DEF Acknowledged, AckRefused
  <2>4. QED
    BY <1>12, <2>1, <2>2, <2>3, <1>k
<1>13. CASE SendResultTerminal \/ EndStatement
  <2>1. pc' \notin {"clear", "done"} /\ UNCHANGED flags
    BY <1>13 DEF SendResultTerminal, EndStatement, Goto
  <2>2. UNCHANGED events \/ \E e : Send(e)
    BY <1>13 DEF SendResultTerminal, EndStatement
  <2>3. QED
    BY <2>1, <2>2, <1>k
<1>14. QED
  BY <1>5, <1>6, <1>7, <1>8, <1>9, <1>10, <1>11, <1>12, <1>13 DEF Producer

LEMMA ReleaseBridge ==
  ASSUME Known, ReleaseInv, Bridge
  PROVE  ReleaseInv'
<1> USE DEF Known, StreamTyped
<1>1. UNCHANGED <<pc, flags>>
  BY BridgeSteps DEF producer_vars
<1>2. CASE SpawnBridge
  BY <1>1, <1>2 DEF SpawnBridge, shared_vars, ReleaseInv
<1>3. CASE Receive
  <2>1. bridge = "recv" /\ events # <<>> /\ events' = Tail(events) /\ bridge' \in {"recv", "remove"}
    BY <1>3 DEF Receive, InEpoch
  <2>2. Range(events) \subseteq {Head(events)} \cup Range(events')
    BY <2>1, QueueRest DEF OutcomeInv, ProducerTyped
  <2>3. bridge' = "recv" => Head(events).type \notin DOMAIN HistoryOf
    BY <1>3 DEF Receive
  <2>4. bridge' = "recv" /\ Terminal(events) => Terminal(events')
    BY <2>2, <2>3 DEF Terminal
  <2>5. QED
    BY <1>1, <2>1, <2>4 DEF ReleaseInv
<1>4. CASE RejectEvent \/ LateEpoch
  BY <1>4 DEF RejectEvent, LateEpoch, ReleaseInv
<1>5. CASE RemoveExecution \/ CloseBridge
  BY <1>5 DEF RemoveExecution, CloseBridge, ReleaseInv
<1>6. QED
  BY <1>2, <1>3, <1>4, <1>5 DEF Bridge

(* A producer that is done has told the bridge, and a bridge that has       *)
(* stopped has let go of the execution.                                     *)
THEOREM ReleaseIsDue == Spec => []ReleaseDue
<1>1. Init => ReleaseInv
  BY DEF Init, ReleaseInv, NoFlags
<1>2. Known /\ ReleaseInv /\ [Next]_vars => ReleaseInv'
  <2> SUFFICES ASSUME Known, ReleaseInv, [Next]_vars PROVE ReleaseInv'
    OBVIOUS
  <2>s. ASSUME UNCHANGED <<pc, flags, events, bridge>>, live' => live PROVE ReleaseInv'
    BY <2>s DEF ReleaseInv
  <2>1. CASE handleExecutionEvent \/ Settled \/ UNCHANGED vars
    <3>1. UNCHANGED <<producer_vars, shared_vars, bridge_vars>>
      BY <2>1 DEF handleExecutionEvent, Settled, vars
    <3>2. QED
      BY <2>s, <3>1 DEF producer_vars, shared_vars, bridge_vars
  <2>2. CASE Commands \/ User
    BY <2>2, <2>s, CommandSteps DEF Known, producer_vars
  <2>3. CASE Reload
    BY <2>3, <2>s, ReloadSteps DEF Known, producer_vars
  <2>4. QED
    BY <2>1, <2>2, <2>3, ReleaseProducer, ReleaseBridge DEF Next
<1>3. ReleaseInv => ReleaseDue
  BY DEF ReleaseInv, ReleaseDue, Terminal, Range
<1>4. QED
  BY <1>1, <1>2, <1>3, KnownHolds, PTL DEF Spec

=============================================================================
