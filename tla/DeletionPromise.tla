-------------------------- MODULE DeletionPromise ---------------------------
(***************************************************************************)
(* What the deletion of a profile promises (product-requirements.md,       *)
(* CON-15 and the paragraph on credentials): the metadata outlives the     *)
(* credential, never the other way round; drafts and history are kept or   *)
(* deleted as was chosen when the deletion began, and all at once; what is *)
(* gone stays gone.                                                        *)
(***************************************************************************)
CONSTANT Absent

VARIABLES
  status,   \* "present", "pending" or "gone"
  secret,   \* the vault has the credential that the profile names
  drafts,   \* the stored queries bound to the profile
  offline,  \* the stored queries that outlived a profile
  entries,  \* history entries are bound to the profile
  choice    \* what the pending deletion is to do with both, or Absent

vars == <<status, secret, drafts, offline, entries, choice>>

Init ==
  /\ status = "present"
  /\ secret \in BOOLEAN
  /\ choice = Absent

(* Credentials come and go while nothing is being deleted; a pending       *)
(* deletion only takes the credential away.                                *)
EditSecret ==
  /\ status = "present"
  /\ secret' \in BOOLEAN
  /\ UNCHANGED <<status, drafts, offline, entries, choice>>

Begin ==
  /\ status = "present"
  /\ status' = "pending"
  /\ choice' \in [drafts : BOOLEAN, history : BOOLEAN]
  /\ UNCHANGED <<secret, drafts, offline, entries>>

EraseSecret ==
  /\ status = "pending"
  /\ secret' = FALSE
  /\ UNCHANGED <<status, drafts, offline, entries, choice>>

Finish ==
  /\ status = "pending"
  /\ ~secret
  /\ status' = "gone"
  /\ secret' = FALSE
  /\ choice' = Absent
  /\ drafts' = {}
  /\ offline' = IF choice.drafts THEN offline ELSE offline \cup drafts
  /\ entries' = FALSE

Next == EditSecret \/ Begin \/ EraseSecret \/ Finish

Spec == Init /\ [][Next]_vars
=============================================================================
