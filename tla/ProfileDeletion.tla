--------------------------- MODULE ProfileDeletion ---------------------------
(***************************************************************************)
(* The deletion of one profile, in two steps that a crash may part: the    *)
(* credential leaves the vault, then the metadata leaves the local store   *)
(* (delete_profile_two_step in store.rs).  Around it the commands that     *)
(* touch the same rows: delete_profile, update_profile,                    *)
(* save_profile_secret, remove_profile_secret, save_workspace and          *)
(* bootstrap_workspace (phase1.rs), as the page calls them (App.svelte).   *)
(*                                                                         *)
(* A command is a slot of cmd.  Each await on the store is a step, and the *)
(* transaction at the end of the deletion is one.  Two reads with nothing  *)
(* between them that a rival could change are one step.                    *)
(*                                                                         *)
(* Left out: the schema cache (only ever deleted with the profile), the    *)
(* column deletion_state (written, never read), the credentials of the     *)
(* session (SessionSecretStore), opening and closing of tabs.  Session     *)
(* restoration is on, and the profile is disconnected and idle: that part  *)
(* of delete_profile is SessionLifecycle.                                  *)
(***************************************************************************)
EXTENDS Naturals, FiniteSets

CONSTANTS
  QueryTab, TableTab,  \* the tabs of the profile that are open
  Secret,              \* SecretRef: names of vault items
  Command,             \* slots for the commands in flight
  Rivals,              \* what else may happen: sets of members of Rival
  Reloads, Crashes,    \* bounds: reloads of the page, ends of the process
  Faults,              \* bound: failures of the store and of the vault
  NoSecret, Absent

(* "edit": the profile is edited while its deletion is pending; "autosave":*)
(* the timer of queueWorkspaceSave; "history": the entry of the last job   *)
(* is written late; "toggle": a checkbox changes after the click.          *)
Rival == {"edit", "autosave", "history", "toggle"}

Tab == QueryTab \cup TableTab
Binding == {"closed", "bound", "offline"}
Workspace == [Tab -> Binding]
Reference == Secret \cup {NoSecret}
ProfileRow == [secret_reference : Reference, delete_history : BOOLEAN,
               delete_drafts : BOOLEAN, vault_deleted : BOOLEAN]

(* A command in flight: where it is, and what it was asked and has read.    *)
(* next is what the page calls after the answer; history, drafts and       *)
(* shown_drafts are the choices of the confirmation: the request reads the *)
(* checkboxes, the page the value at the click.                            *)
Request ==
  [op : {"bootstrap", "save", "delete", "update", "secret", "remove"},
   at : {"profiles", "workspace", "register", "check", "write", "begin", "beginProfile",
         "insert", "reread", "vault", "mark", "finalize", "finalizeProfile", "finalizeTabs",
         "commit", "unregister", "read", "store", "erase", "undo"},
   next : {"nothing", "delete", "secret"},
   generation : Nat, history : BOOLEAN, drafts : BOOLEAN, shown_drafts : BOOLEAN,
   keep : SUBSET QueryTab, ref : Reference,
   row : ProfileRow \cup Reference \cup {Absent}, listed : BOOLEAN, tabs : Workspace]

ASSUME DeletionAssumption ==
  /\ QueryTab \cap TableTab = {}
  /\ Rivals \subseteq SUBSET Rival
  /\ Reloads \in Nat /\ Crashes \in Nat /\ Faults \in Nat
  /\ NoSecret \notin Secret
  /\ Absent \notin Secret \cup Command \cup {NoSecret}
  /\ Absent \notin ProfileRow \cup Request

VARIABLES
  profile,   \* profiles: the row's secret_reference, NoSecret, or Absent
  deletion,  \* profile_deletions: the row, or Absent
  snapshot,  \* workspace: how each tab is stored
  history,   \* what the stored history entries say of the profile
  vault,     \* the items of the operating system's vault
  owned,     \* OwnershipRegistry.profiles has the profile
  tabs,      \* OwnershipRegistry.tabs
  unsaved,   \* a bridge has still to save the entry of its job
  cmd,       \* [Command -> a command in flight, or Absent]
  page,      \* the page of the current generation
  faults, crashes,
  rivals     \* the member of Rivals this behaviour has; it never changes

store == <<profile, deletion, snapshot, history>>
registry == <<owned, tabs>>
world == <<unsaved, crashes, rivals>>
vars == <<store, vault, registry, cmd, page, faults, world>>

Bound(ws) == {t \in Tab : ws[t] = "bound"}

(* The tabs of a deleted profile close, all but the queries in keep.       *)
Release(ws, keep) ==
  [t \in Tab |-> IF ws[t] # "bound" THEN ws[t]
                 ELSE IF t \in keep THEN "offline" ELSE "closed"]

Kept(drafts) == IF drafts THEN {} ELSE QueryTab

NewPage(generation) ==
  [generation |-> generation, at |-> "loading", listed |-> FALSE,
   tabs |-> [t \in Tab |-> "closed"]]

Init ==
  /\ profile \in Reference
  /\ deletion = Absent
  /\ snapshot = [t \in Tab |-> "bound"]
  /\ history = {"bound"}
  /\ vault = {profile} \cap Secret
  /\ owned = TRUE
  /\ tabs = snapshot
  /\ rivals \in Rivals
  /\ unsaved = ("history" \in rivals)
  /\ cmd = [c \in Command |-> Absent]
  /\ page = NewPage(0)
  /\ faults = 0
  /\ crashes = 0

-----------------------------------------------------------------------------
(* Commands in flight.                                                      *)

Blank == [op |-> "bootstrap", at |-> "profiles", next |-> "nothing",
          generation |-> page.generation, history |-> FALSE, drafts |-> FALSE,
          shown_drafts |-> FALSE, keep |-> {}, ref |-> NoSecret,
          row |-> Absent, listed |-> FALSE, tabs |-> page.tabs]

At(c, op, at) == cmd[c] # Absent /\ cmd[c].op = op /\ cmd[c].at = at

Advance(c, at) == cmd' = [cmd EXCEPT ![c].at = at]

(* The promise of a page that was replaced is gone: its reply is dropped.  *)
Reply(c, learned) ==
  /\ cmd' = [cmd EXCEPT ![c] = Absent]
  /\ page' = IF cmd[c].generation = page.generation THEN learned ELSE page

Answer(c) == Reply(c, page)

(* The page goes on with its script.                                       *)
Continue(c, command) ==
  /\ cmd' = [cmd EXCEPT ![c] = IF cmd[c].generation = page.generation
                               THEN command ELSE Absent]
  /\ UNCHANGED page

Fails == faults < Faults /\ faults' = faults + 1
Works == UNCHANGED faults

(* busy: a script of runAction is under way; the timer's save is not one.  *)
busy == \E c \in Command : /\ cmd[c] # Absent
                           /\ cmd[c].generation = page.generation
                           /\ cmd[c].op # "save" \/ cmd[c].next # "nothing"

Issue(c, command) ==
  /\ cmd[c] = Absent
  /\ cmd' = [cmd EXCEPT ![c] = command]
  /\ UNCHANGED <<store, vault, registry, page, faults, world>>

runAction(c, command) ==
  /\ page.at = "ready" /\ page.listed /\ ~busy
  /\ Issue(c, command)

-----------------------------------------------------------------------------
(* The page.                                                               *)

bootstrap(c) ==
  /\ page.at = "loading"
  /\ cmd[c] = Absent
  /\ cmd' = [cmd EXCEPT ![c] = Blank]
  /\ page' = [page EXCEPT !.at = "bootstrapping"]
  /\ UNCHANGED <<store, vault, registry, faults, world>>

(* deleteProfile saves the workspace first, then calls the command.        *)
deleteProfile(c) ==
  \E h, d \in BOOLEAN :
    runAction(c, [Blank EXCEPT !.op = "save", !.at = "check", !.next = "delete",
                               !.history = h, !.drafts = d, !.shown_drafts = d])

MayEdit == deletion = Absent \/ "edit" \in rivals

(* submitProfile updates the profile and then saves a typed credential.    *)
submitProfile(c) ==
  /\ MayEdit
  /\ \E next \in {"nothing", "secret"} :
       runAction(c, [Blank EXCEPT !.op = "update", !.at = "read", !.next = next])

removeSavedSecret(c) ==
  /\ MayEdit
  /\ runAction(c, [Blank EXCEPT !.op = "remove", !.at = "read"])

queueWorkspaceSave(c) ==
  /\ "autosave" \in rivals
  /\ page.at = "ready"
  /\ \A b \in Command : ~(cmd[b] # Absent /\ cmd[b].op = "save")
  /\ Issue(c, [Blank EXCEPT !.op = "save", !.at = "check"])

Page == \E c \in Command :
  \/ bootstrap(c) \/ deleteProfile(c) \/ submitProfile(c)
  \/ removeSavedSecret(c) \/ queueWorkspaceSave(c)

-----------------------------------------------------------------------------
(* save_workspace: every tab of the request is authorised, then the store  *)
(* is written.                                                             *)

workspace_from_view(c) ==
  LET Authorized == \A t \in Tab : cmd[c].tabs[t] \in {"closed", tabs[t]} IN
  /\ At(c, "save", "check")
  /\ \/ Authorized /\ Advance(c, "write") /\ UNCHANGED page
     \/ ~Authorized /\ Answer(c)
  /\ UNCHANGED <<store, vault, registry, faults, world>>

(* The request of the deletion reads the checkboxes only now.              *)
save_workspace(c) ==
  /\ At(c, "save", "write")
  /\ snapshot' = cmd[c].tabs
  /\ \/ cmd[c].next = "nothing" /\ Answer(c)
     \/ /\ cmd[c].next = "delete"
        /\ \E h, d \in BOOLEAN :
             /\ "toggle" \in rivals \/ (h = cmd[c].history /\ d = cmd[c].drafts)
             /\ Continue(c, [cmd[c] EXCEPT !.op = "delete", !.at = "check",
                                           !.next = "nothing",
                                           !.history = h, !.drafts = d])
  /\ UNCHANGED <<profile, deletion, history, vault, registry, faults, world>>

-----------------------------------------------------------------------------
(* begin_profile_deletion: a pending deletion is taken up as it was        *)
(* requested, else the request is made durable.                            *)

(* The stored tabs must be those of the registry.                          *)
DeleteChecks(c) ==
  LET stored == Bound(snapshot) IN
  /\ At(c, "delete", "check")
  /\ \/ stored # Bound(tabs) /\ Answer(c)
     \/ /\ stored = Bound(tabs)
        /\ cmd' = [cmd EXCEPT ![c].at = "begin",
                              ![c].keep = Kept(cmd[c].drafts) \cap stored]
        /\ UNCHANGED page
  /\ UNCHANGED <<store, vault, registry, faults, world>>

TakeUp(c) ==
  /\ cmd' = [cmd EXCEPT ![c].row = deletion,
                        ![c].at = IF deletion.vault_deleted THEN "finalize" ELSE "vault"]
  /\ UNCHANGED page

(* Faulty: a pending deletion is an error, as a second INSERT would be.    *)
BeginReadsNew(c) ==
  /\ At(c, "delete", "begin")
  /\ \/ deletion # Absent /\ Answer(c)
     \/ deletion = Absent /\ Advance(c, "beginProfile") /\ UNCHANGED page
  /\ UNCHANGED <<store, vault, registry, faults, world>>

BeginReads(c) ==
  /\ At(c, "delete", "begin")
  /\ \/ deletion # Absent /\ TakeUp(c)
     \/ deletion = Absent /\ Advance(c, "beginProfile") /\ UNCHANGED page
  /\ UNCHANGED <<store, vault, registry, faults, world>>

(* A profile without a saved credential has nothing to delete in the vault.*)
NewRow(c) == [secret_reference |-> profile,
              delete_history |-> cmd[c].history, delete_drafts |-> cmd[c].drafts,
              vault_deleted |-> profile = NoSecret]

BeginReadsProfile(c) ==
  /\ At(c, "delete", "beginProfile")
  /\ \/ profile = Absent /\ Answer(c)
     \/ /\ profile # Absent
        /\ cmd' = [cmd EXCEPT ![c].row = NewRow(c), ![c].at = "insert"]
        /\ UNCHANGED page
  /\ UNCHANGED <<store, vault, registry, faults, world>>

BeginInserts(c) ==
  /\ At(c, "delete", "insert")
  /\ \/ deletion # Absent /\ Answer(c) /\ UNCHANGED deletion
     \/ /\ deletion = Absent
        /\ deletion' = cmd[c].row
        /\ Advance(c, "reread")
        /\ UNCHANGED page
  /\ UNCHANGED <<profile, snapshot, history, vault, registry, faults, world>>

BeginReturns(c) ==
  /\ At(c, "delete", "reread")
  /\ \/ deletion # Absent /\ TakeUp(c)
     \/ deletion = Absent /\ Answer(c)
  /\ UNCHANGED <<store, vault, registry, faults, world>>

-----------------------------------------------------------------------------
(* The vault step.                                                         *)

(* Faulty: a vault that refuses is taken for one that obeyed.              *)
VaultDeletesOrNot(c) ==
  /\ At(c, "delete", "vault")
  /\ \/ vault' = vault \ {cmd[c].row.secret_reference} /\ Works
     \/ UNCHANGED vault /\ Fails
  /\ Advance(c, "mark")
  /\ UNCHANGED <<store, registry, page, world>>

(* A missing item counts as deleted (NoEntry).                             *)
VaultDeletes(c) ==
  /\ At(c, "delete", "vault")
  /\ \/ /\ vault' = vault \ {cmd[c].row.secret_reference}
        /\ Works
        /\ Advance(c, "mark")
        /\ UNCHANGED page
     \/ UNCHANGED vault /\ Fails /\ Answer(c)
  /\ UNCHANGED <<store, registry, world>>

mark_profile_vault_deleted(c) ==
  /\ At(c, "delete", "mark")
  /\ \/ deletion = Absent /\ Answer(c) /\ UNCHANGED deletion
     \/ /\ deletion # Absent
        /\ deletion' = [deletion EXCEPT !.vault_deleted = TRUE]
        /\ Advance(c, "finalize")
        /\ UNCHANGED page
  /\ UNCHANGED <<profile, snapshot, history, vault, registry, faults, world>>

-----------------------------------------------------------------------------
(* finalize_profile_deletion: three reads, then one transaction.           *)

FinalizeReads(c) ==
  LET Ready == deletion # Absent /\ deletion.vault_deleted IN
  /\ At(c, "delete", "finalize")
  /\ \/ ~Ready /\ Answer(c)
     \/ /\ Ready
        /\ cmd' = [cmd EXCEPT ![c].row = deletion, ![c].at = "finalizeProfile"]
        /\ UNCHANGED page
  /\ UNCHANGED <<store, vault, registry, faults, world>>

FinalizeReadsProfile(c) ==
  /\ At(c, "delete", "finalizeProfile")
  /\ \/ profile = Absent /\ Answer(c)
     \/ profile # Absent /\ Advance(c, "finalizeTabs") /\ UNCHANGED page
  /\ UNCHANGED <<store, vault, registry, faults, world>>

FinalizeReadsTabs(c) ==
  /\ At(c, "delete", "finalizeTabs")
  /\ cmd' = [cmd EXCEPT ![c].tabs = Release(snapshot, Kept(cmd[c].row.delete_drafts)),
                        ![c].at = "commit"]
  /\ UNCHANGED <<store, vault, registry, page, faults, world>>

(* What is left of the history once the profile is gone.                   *)
Forget(entries, delete_history) ==
  (entries \ {"bound"})
    \cup IF "bound" \in entries /\ ~delete_history THEN {"relabelled"} ELSE {}

FinalizeCommits(c) ==
  /\ At(c, "delete", "commit")
  /\ snapshot' = cmd[c].tabs
  /\ history' = Forget(history, cmd[c].row.delete_history)
  /\ profile' = Absent
  /\ deletion' = Absent
  /\ Advance(c, "unregister")
  /\ UNCHANGED <<vault, registry, page, faults, world>>

(* Faulty: the retained queries are unregistered with the others.          *)
unregister_all(c) ==
  /\ At(c, "delete", "unregister")
  /\ tabs' = Release(tabs, {})
  /\ owned' = FALSE
  /\ Reply(c, [page EXCEPT !.listed = FALSE,
                           !.tabs = Release(page.tabs, Kept(cmd[c].shown_drafts))])
  /\ UNCHANGED <<store, vault, faults, world>>

(* The registry keeps the tabs the request kept; the page removes the      *)
(* profile and releases its tabs when the answer says deleted.             *)
unregister_profile(c) ==
  /\ At(c, "delete", "unregister")
  /\ tabs' = Release(tabs, cmd[c].keep)
  /\ owned' = FALSE
  /\ \/ ~owned /\ Answer(c)
     \/ owned /\ Reply(c, [page EXCEPT !.listed = FALSE,
                             !.tabs = Release(page.tabs, Kept(cmd[c].shown_drafts))])
  /\ UNCHANGED <<store, vault, faults, world>>

delete_profile(c) ==
  \/ DeleteChecks(c)
  \/ BeginReads(c) \/ BeginReadsProfile(c) \/ BeginInserts(c) \/ BeginReturns(c)
  \/ VaultDeletes(c) \/ mark_profile_vault_deleted(c)
  \/ FinalizeReads(c) \/ FinalizeReadsProfile(c) \/ FinalizeReadsTabs(c)
  \/ FinalizeCommits(c) \/ unregister_profile(c)

-----------------------------------------------------------------------------
(* update_profile, save_profile_secret, remove_profile_secret: the row is  *)
(* read, and written back by an upsert that does not ask whether it is     *)
(* still there.                                                            *)

(* A fresh SecretRef unless the profile has one.                           *)
Fresh(c) == Secret \ (vault \cup {profile} \cup
              {cmd[b].ref : b \in {b \in Command \ {c} : cmd[b] # Absent}})

EditReads(c) ==
  /\ cmd[c] # Absent /\ cmd[c].op \in {"update", "secret", "remove"} /\ cmd[c].at = "read"
  /\ \/ profile = Absent /\ Answer(c)
     \/ /\ profile # Absent
        /\ \E ref \in IF cmd[c].op = "secret" /\ profile = NoSecret
                      THEN Fresh(c) ELSE {profile} :
             cmd' = [cmd EXCEPT ![c].ref = ref,
                                ![c].row = profile,
                                ![c].at = CASE cmd[c].op = "secret" -> "store"
                                            [] cmd[c].op = "remove" /\ ref # NoSecret -> "erase"
                                            [] OTHER -> "write"]
        /\ UNCHANGED page
  /\ UNCHANGED <<store, vault, registry, faults, world>>

SecretStores(c) ==
  /\ At(c, "secret", "store")
  /\ \/ vault' = vault \cup {cmd[c].ref} /\ Works /\ Advance(c, "write") /\ UNCHANGED page
     \/ UNCHANGED vault /\ Fails /\ Answer(c)
  /\ UNCHANGED <<store, registry, world>>

SecretErased(c) ==
  /\ At(c, "remove", "erase")
  /\ \/ vault' = vault \ {cmd[c].ref} /\ Works /\ Advance(c, "write") /\ UNCHANGED page
     \/ UNCHANGED vault /\ Fails /\ Answer(c)
  /\ UNCHANGED <<store, registry, world>>

save_profile(c) ==
  /\ cmd[c] # Absent /\ cmd[c].op \in {"update", "secret", "remove"} /\ cmd[c].at = "write"
  /\ profile' = IF cmd[c].op = "remove" THEN NoSecret ELSE cmd[c].ref
  /\ IF cmd[c].next = "secret"
     THEN Continue(c, [cmd[c] EXCEPT !.op = "secret", !.at = "read", !.next = "nothing"])
     ELSE Answer(c)
  /\ UNCHANGED <<deletion, snapshot, history, vault, registry, faults, world>>

(* A fresh item whose row could not be written is taken back; a failure of *)
(* that is ignored.                                                        *)
SecretUndone(c) ==
  /\ At(c, "secret", "undo")
  /\ \/ vault' = vault \ {cmd[c].ref} /\ Works
     \/ UNCHANGED vault /\ Fails
  /\ Answer(c)
  /\ UNCHANGED <<store, registry, world>>

edit_profile(c) ==
  EditReads(c) \/ SecretStores(c) \/ SecretErased(c) \/ save_profile(c) \/ SecretUndone(c)

-----------------------------------------------------------------------------
(* bootstrap_workspace reads profiles and workspace, then rebuilds the     *)
(* registry; a tab bound to a profile that is not there is an error.       *)

BootstrapReadsProfiles(c) ==
  /\ At(c, "bootstrap", "profiles")
  /\ cmd' = [cmd EXCEPT ![c].listed = profile # Absent, ![c].at = "workspace"]
  /\ UNCHANGED <<store, vault, registry, page, faults, world>>

BootstrapReadsTabs(c) ==
  /\ At(c, "bootstrap", "workspace")
  /\ cmd' = [cmd EXCEPT ![c].tabs = snapshot, ![c].at = "register"]
  /\ UNCHANGED <<store, vault, registry, page, faults, world>>

BootstrapRegisters(c) ==
  LET ws == cmd[c].tabs
      Offline == {t \in Tab : ws[t] = "offline"}
      Restorable == cmd[c].listed \/ Bound(ws) = {}
  IN
  /\ At(c, "bootstrap", "register")
  /\ owned' = cmd[c].listed
  /\ \/ /\ Restorable
        /\ tabs' = ws
        /\ Reply(c, [page EXCEPT !.at = "ready", !.listed = cmd[c].listed, !.tabs = ws])
     \/ /\ ~Restorable
        /\ \E before \in SUBSET Offline :
             tabs' = [t \in Tab |-> IF t \in before THEN "offline" ELSE "closed"]
        /\ Reply(c, [page EXCEPT !.at = "refused"])
  /\ UNCHANGED <<store, vault, faults, world>>

bootstrap_workspace(c) ==
  BootstrapReadsProfiles(c) \/ BootstrapReadsTabs(c) \/ BootstrapRegisters(c)

-----------------------------------------------------------------------------
(* Failures, the end of the process, and the page that is loaded again.    *)

StoreSteps ==
  {<<"save", "write">>, <<"delete", "check">>, <<"delete", "begin">>,
   <<"delete", "beginProfile">>, <<"delete", "insert">>, <<"delete", "reread">>,
   <<"delete", "mark">>, <<"delete", "finalize">>, <<"delete", "finalizeProfile">>,
   <<"delete", "finalizeTabs">>, <<"delete", "commit">>,
   <<"update", "read">>, <<"update", "write">>, <<"secret", "read">>,
   <<"secret", "write">>, <<"remove", "read">>, <<"remove", "write">>,
   <<"bootstrap", "profiles">>, <<"bootstrap", "workspace">>}

(* Nothing is written; the answer is an error or a pending deletion.       *)
StoreFails(c) ==
  /\ cmd[c] # Absent /\ <<cmd[c].op, cmd[c].at>> \in StoreSteps
  /\ Fails
  /\ IF cmd[c].op = "secret" /\ cmd[c].at = "write" /\ cmd[c].row = NoSecret
     THEN Advance(c, "undo") /\ UNCHANGED page
     ELSE Reply(c, IF cmd[c].op = "bootstrap" THEN [page EXCEPT !.at = "failed"] ELSE page)
  /\ UNCHANGED <<store, vault, registry, world>>

(* bridge_execution_events saves the entry after it has released the job.  *)
save_history_entry ==
  /\ unsaved
  /\ unsaved' = FALSE
  /\ history' = history \cup {"bound"}
  /\ UNCHANGED <<profile, deletion, snapshot, vault, registry, cmd, page, faults, crashes, rivals>>

Reload ==
  /\ \/ page.at = "failed" /\ page' = NewPage(page.generation)
     \/ page.generation < Reloads /\ page' = NewPage(page.generation + 1)
  /\ UNCHANGED <<store, vault, registry, cmd, faults, world>>

(* AppRuntimeState::initialize registers what it can of the store.         *)
Crash ==
  /\ crashes < Crashes
  /\ crashes' = crashes + 1
  /\ cmd' = [c \in Command |-> Absent]
  /\ unsaved' = FALSE
  /\ owned' = (profile # Absent)
  /\ tabs' = IF profile # Absent THEN snapshot ELSE Release(snapshot, {})
  /\ page' = NewPage(page.generation)
  /\ UNCHANGED <<store, vault, faults, rivals>>

CommandStep(c) ==
  \/ workspace_from_view(c) \/ save_workspace(c) \/ delete_profile(c)
  \/ edit_profile(c) \/ bootstrap_workspace(c)

Next ==
  \/ Page
  \/ \E c \in Command : CommandStep(c) \/ StoreFails(c)
  \/ save_history_entry \/ Reload \/ Crash

(* A command runs on.  The user loads a page that failed to load again,    *)
(* and asks again for a deletion that was reported pending.                *)
Retry(c) == deletion # Absent /\ deleteProfile(c)

Spec ==
  /\ Init /\ [][Next]_vars
  /\ \A c \in Command : WF_vars(CommandStep(c)) /\ WF_vars(bootstrap(c))
  /\ WF_vars(page.at = "failed" /\ Reload)
  /\ SF_vars(\E c \in Command : Retry(c))

-----------------------------------------------------------------------------
(* The state has the shape of the tables, maps and requests it stands for. *)
TypeOK ==
  /\ profile \in Reference \cup {Absent}
  /\ deletion \in ProfileRow \cup {Absent}
  /\ snapshot \in Workspace /\ tabs \in Workspace
  /\ history \subseteq {"bound", "relabelled"}
  /\ vault \subseteq Secret
  /\ owned \in BOOLEAN /\ unsaved \in BOOLEAN /\ rivals \in Rivals
  /\ faults \in 0..Faults /\ crashes \in 0..Crashes
  /\ page \in [generation : 0..Reloads, listed : BOOLEAN, tabs : Workspace,
               at : {"loading", "bootstrapping", "ready", "failed", "refused"}]
  /\ cmd \in [Command -> Request \cup {Absent}]

(* When no command is in flight, the page and the ownership registry say   *)
(* the same of the profile and of its tabs, and both agree with the store  *)
(* about whether there is a profile, whatever failed on the way.  A        *)
(* deletion that is pending then names a profile that is still shown, so   *)
(* it can be asked for again.                                              *)
RegistryFollowsStore ==
  page.at = "ready" /\ (\A c \in Command : cmd[c] = Absent) =>
    /\ owned = (profile # Absent)
    /\ page.listed = owned
    /\ page.tabs = tabs
    /\ deletion # Absent => owned

Undisturbed == rivals = {}

(* A deletion that was begun ends, however often the vault or the store    *)
(* failed and the process died, for a user who retries and does nothing    *)
(* else.                                                                   *)
PendingEnds ==
  (deletion # Absent /\ Undisturbed) ~> (deletion = Absent /\ profile = Absent)

(* The promise of the two steps, in its own words.  It is made to a user   *)
(* who meanwhile does nothing else: nothing is promised to rivals.         *)
Promise == INSTANCE DeletionPromise WITH
  status <- CASE Undisturbed /\ profile = Absent -> "gone"
              [] Undisturbed /\ profile # Absent /\ deletion # Absent -> "pending"
              [] OTHER -> "present",
  secret <- Undisturbed /\ profile # Absent /\ profile \in vault,
  drafts <- {t \in QueryTab : Undisturbed /\ snapshot[t] = "bound"},
  offline <- {t \in QueryTab : Undisturbed /\ snapshot[t] = "offline"},
  entries <- Undisturbed /\ "bound" \in history,
  choice <- IF deletion = Absent \/ ~Undisturbed THEN Absent
            ELSE [drafts |-> deletion.delete_drafts, history |-> deletion.delete_history]

(* The commands keep that promise.                                         *)
DeletionSpec == Promise!Spec

=============================================================================
