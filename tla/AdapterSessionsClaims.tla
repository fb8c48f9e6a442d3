------------------------- MODULE AdapterSessionsClaims -------------------------
(***************************************************************************)
(* What the documents say of a native session, and an adapter does not     *)
(* keep.                                                                   *)
(***************************************************************************)
EXTENDS AdapterSessions

CScripts == {{"begin", "write"}}
SqliteScripts == {{"write", "read"}}
PlainScripts == {{"write"}}
CommentScripts == {{"write", "unclassified"}}

\* "Handwritten transaction-control statements [...] must update the UI state"
\* (EXE-10): a tab at rest whose server holds the user's uncommitted work does
\* not show a clean session.
TransactionShown ==
  Quiet /\ server.up /\ "user" \in server.dirty => session.certainty # "clean"

\* "Unclassifiable input becomes unknown and is subject to the existing write
\* gate" (ADR 0006, MySQL 5.7).
UnclassifiableIsUnknown ==
  [][ (engine = "mysql57" /\ exec.phase = "reconcile" /\ exec.kind = "unclassified")
      => session'.certainty = "unknown" ]_vars

\* Manual mode "retains the connection until explicit Commit or Rollback": a
\* write of a manual SQLite session is not saved on its own.
ManualWriteWaits ==
  [][ (/\ exec.phase = "stream" /\ exec.kind = "write" /\ exec'.phase = "settle"
       /\ ~session.automatic /\ session.certainty = "active")
      => server'.saved \subseteq server.saved ]_vars

\* A cancellation is what somebody asked for (EXE-3): no execution is cancelled
\* by the control request of the one before it.
CancelledOnRequest == outcome.kind = "cancelled" => outcome.asked
=============================================================================
