----------------------- MODULE ExecutionStreamClaims -----------------------
(***************************************************************************)
(* What the documents and tests of the program say of an execution and the *)
(* code does not do.  Each property here is violated; the line it quotes   *)
(* and the interleaving that breaks it are in PROJECT.json, "findings".    *)
(***************************************************************************)
EXTENDS ExecutionStream

CONSTANTS a, b  \* clicks

InFlight == {"called", "sending", "replied"}

Quiet == inbox = <<>> /\ ack = NoCall /\ \A click \in Clicks : more[click].phase \notin InFlight

(* A reload increments the epoch so that an old bridge cannot repopulate   *)
(* the registry after cleanup.  The epoch is read after the execution is   *)
(* registered and its producer spawned, so a reload in between is missed.  *)
ReloadForgetsResults ==
  epoch # 0 => \A rs \in ResultSet : retained[rs] = NoResult

(* A reload cannot orphan a native job.  The cancel flag is installed by   *)
(* the first step of the producer: a cancel before that step finds no      *)
(* flag, and the statement runs to its end, if it has one.                 *)
ReloadEndsJob == epoch # 0 ~> pc = "done"

(* A cancelled execution is reported as cancelled, never as a failed       *)
(* integrity check.  A wait given up after its batch was retained leaves   *)
(* the producer one sequence number behind the registry.                   *)
CancelIsNotAFailure == outcome # "internal"

(* Every result set the page shows gets its terminal state.  A failing     *)
(* statement sends Failed before the terminal of its result, and the       *)
(* bridge stops at Failed.                                                 *)
ShownResultsEnd ==
  (Quiet /\ pc = "done" /\ bridge = "done" /\ epoch = 0)
     => \A rs \in ResultSet :
          ui.results[rs] # NoResult => ui.results[rs].terminal # "none"

(* Once the adapter's terminal event was shown the execution is no longer  *)
(* active.  The reply of cancel_execution sets cancelling without reading  *)
(* the state again.                                                        *)
TerminalStateStays ==
  [][ui.state \in {"succeeded", "failed", "cancelled"}
       => ui.state' \notin ActiveStates]_vars

(* At a tranche boundary the page offers to load more or to discard.  The  *)
(* reply of an earlier Load more clears the mark of a later pause.         *)
PauseIsShown ==
  (/\ Quiet /\ pc = "paused" /\ ~cancelled /\ epoch = 0
   /\ bridge = "recv" /\ events = <<>> /\ controls = <<>>)
     => ui.results[stmt] # NoResult /\ ui.results[stmt].paused
=============================================================================
