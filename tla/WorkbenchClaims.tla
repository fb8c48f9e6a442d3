-------------------------- MODULE WorkbenchClaims --------------------------
(***************************************************************************)
(* What the documents say of a reconnected session, a plan and an approval, *)
(* and the commands of phase2.rs do not keep.                              *)
(***************************************************************************)
EXTENDS MCWorkbench

(* The faults a claim needs.                                               *)
ClaimTransaction == {[Plain EXCEPT !.sends = {"execute"}, !.sessions = 1, !.timeouts = TRUE]}
ClaimContext == {[Plain EXCEPT !.sends = {"context"}, !.sessions = 1]}
ClaimMode == {[Plain EXCEPT !.sends = {"mode"}, !.sessions = 1]}
ClaimPlan == {[Plain EXCEPT !.sends = {"plan"}, !.sessions = 1, !.issues = 1]}
ClaimApproval == {[Plain EXCEPT !.sends = {"execute"}, !.sessions = 1, !.issues = 1]}
ClaimChange == {[Plain EXCEPT !.sends = {"execute", "context"}, !.sessions = 1, !.issues = 1,
                              !.connections = 1, !.checks = {}]}

Replaces == resource # Absent /\ resource' # Absent /\ resource'.conn # resource.conn

\* "A lost Active or Unknown transaction is never automatically replaced" (ADR
\* 0022): no check throws away a connection with a transaction open or in doubt.
TransactionKept ==
  [][Replaces => native[resource.conn].certainty = "clean"]_vars

\* "The replacement preserves that tab's logical session ownership, context
\* [...]" (ADR 0022): the new connection is in the context of the session.
ContextPreserved ==
  [][Replaces => native[resource'.conn].context = resource.context]_vars

\* "[...] and automatic/manual preference" (ADR 0022).
ModePreserved ==
  [][Replaces => native[resource'.conn].automatic = native[resource.conn].automatic]_vars

\* A session is replaced only when "it has no active execution or mutation plan"
\* (ADR 0022).
PlanProtected == [][Replaces => ~HasPlan(resource.session)]_vars

\* "Editing the document, changing context, or reconnecting invalidates
\* approval" (EXE-13): no approval of the session outlives its connection ...
ReconnectInvalidates ==
  [][Replaces => \A a \in approvals' : a.session # resource.session]_vars

\* ... nor its context.
ContextInvalidates ==
  [][(/\ resource # Absent /\ resource' # Absent /\ resource'.context # resource.context)
     => \A a \in approvals' : a.session # resource.session]_vars
=============================================================================
