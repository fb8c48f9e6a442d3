------------------------ MODULE ProfileDeletionClaims ------------------------
(***************************************************************************)
(* What the requirements say of the deletion of a profile, and the code    *)
(* does not keep once the commands of the page have rivals.                *)
(***************************************************************************)
EXTENDS MCProfileDeletion

(* "QueryNot restores open tabs, unsaved drafts, [...] connection bindings *)
(* [...] after a normal restart or recoverable crash" (WKS-4):             *)
(* bootstrap_workspace does not refuse a workspace that was stored.        *)
WorkspaceRestored == page.at # "refused"

(* "Successful deletion removes profile metadata, schema cache, and the    *)
(* vault item" (CON-15).                                                   *)
CredentialGone == profile = Absent => vault = {}

(* "The confirmation separately offers deletion of associated history and  *)
(* drafts" (CON-15): a deletion reported complete is the one that was      *)
(* confirmed last.                                                         *)
ChoiceHonoured ==
  \A c \in Command : At(c, "delete", "unregister") =>
    /\ cmd[c].history = cmd[c].row.delete_history
    /\ cmd[c].drafts = cmd[c].row.delete_drafts

(* "If kept, they are relabelled as belonging to a deleted profile"        *)
(* (CON-15): no history entry is bound to a profile that is gone.          *)
HistoryReleased == profile = Absent => "bound" \notin history

(* "Never hidden as complete" (product-requirements.md, Credentials): a    *)
(* deleted profile does not come back.                                     *)
GoneForGood == [][profile = Absent => profile' = Absent]_vars
=============================================================================
