-------------------------- MODULE LocalFilesClaims --------------------------
(***************************************************************************)
(* What documents and tests say of SQL files and of the store, and the code *)
(* does not keep.  Each is checked by a Claim*.cfg that must find it broken. *)
(***************************************************************************)
EXTENDS LocalFiles

claimTab == 1..1
claimGrant == 1..2
claimStores == {NoFile, StoreOf(CurrentStoreVersion)}
claimOn(store, meets) == {[store |-> store, tabs |-> 1, meets |-> meets]}
claimRouted == claimOn(StoreOf(CurrentStoreVersion), {"restore", "route"})
claimWritten == claimOn(StoreOf(CurrentStoreVersion), {"open", "save", "type", "write"})
claimTyped == claimOn(StoreOf(CurrentStoreVersion), {"open", "save", "type"})
claimFirstStart == claimOn(NoFile, {"die"})

(* "Startup and second-instance .sql files route into offline query tabs"   *)
(* (docs/architecture/0007-productivity-and-safe-data-editing.md:10): each  *)
(* tab is one the native side lets the window use.  A file of the command   *)
(* line is registered by setup, before the page asks for its workspace, and *)
(* bootstrap_workspace then forgets its tab and its grant.                  *)
RoutedFilesUsable ==
  \A t \in DOMAIN page.tabs :
    authorize_tab(t) /\ (page.tabs[t].grant = Absent \/ resolve_granted(page.tabs[t].grant))

(* "If the file changed externally, moved, or became unavailable, Save must *)
(* stop" (docs/product-requirements.md:250, WKS-10): not if it changes      *)
(* after the comparison and before the rename.                              *)
ExternalChangeStops ==
  [][(At({"save"}, "rename") /\ command' # Absent /\ command'.stage = "stamp")
       => disk[command.file] = grants[command.grant].seen]_vars

(* "Closing a tab with unsaved file changes [...] requires an explicit      *)
(* decision" (docs/product-requirements.md:236, WKS-3): what was typed      *)
(* while a save was under way is unsaved, and the reply marks it saved.     *)
UnsavedIsMarked ==
  \A t \in DOMAIN page.tabs :
    LET tab == page.tabs[t]
    IN (~tab.dirty /\ tab.grant # Absent) => tab.text = grants[tab.grant].seen

(* The store gives pages back (store.rs:1006 asserts auto_vacuum of a new   *)
(* one): not if the first start dies between creating the file and the      *)
(* pragma, since the next one finds the file and leaves the pragma out.     *)
PagesAreReturned == health = "healthy" => db.vacuum
=============================================================================
