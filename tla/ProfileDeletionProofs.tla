----------------------- MODULE ProfileDeletionProofs ------------------------
(* Proofs about ProfileDeletion for any number of tabs, secrets, failures,  *)
(* ends of the process and commands in flight, in the pages that are not    *)
(* loaded anew while their commands run (Reloads = 0: with reloads a save   *)
(* of the old page can bring back what was deleted, the claim GoneForGood). *)
EXTENDS ProfileDeletion, TLAPS

PageRow == [generation : Nat, listed : BOOLEAN, tabs : Workspace,
            at : {"loading", "bootstrapping", "ready", "failed", "refused"}]

Typed ==
  /\ profile \in Reference \cup {Absent}
  /\ deletion \in ProfileRow \cup {Absent}
  /\ snapshot \in Workspace /\ tabs \in Workspace
  /\ vault \subseteq Secret
  /\ owned \in BOOLEAN /\ rivals \in Rivals
  /\ page \in PageRow
  /\ cmd \in [Command -> Request \cup {Absent}]

(* A script of the page; the timer's save is not one.                       *)
Script(c) == cmd[c] # Absent /\ (cmd[c].op # "save" \/ cmd[c].next # "nothing")

Edits == {"update", "secret", "remove"}

Unregistering == \E c \in Command : At(c, "delete", "unregister")

OnePage == /\ page.generation = 0
           /\ \A c \in Command : cmd[c] # Absent => cmd[c].generation = 0

OneScript == \A b, c \in Command : Script(b) /\ Script(c) => b = c

(* Who runs when, and what the script still knows: the profile is there     *)
(* until the transaction that deletes it, and the registry until the end.   *)
Staged(c) ==
  /\ page.at \in {"bootstrapping", "ready"}
  /\ page.at = "bootstrapping" <=> cmd[c].op = "bootstrap"
  /\ cmd[c].op = "bootstrap" /\ cmd[c].at # "profiles" => cmd[c].listed = (profile # Absent)
  /\ cmd[c].next = "delete" => cmd[c].op = "save"
  /\ cmd[c].next = "secret" => cmd[c].op = "update"
  /\ Script(c) /\ cmd[c].op # "bootstrap" =>
       owned /\ (profile = Absent <=> At(c, "delete", "unregister"))
  /\ cmd[c].op = "delete" \/ cmd[c].next = "delete" => cmd[c].drafts = cmd[c].shown_drafts
  /\ cmd[c].op = "delete" /\ cmd[c].at # "check" =>
       cmd[c].keep = Kept(cmd[c].drafts) \cap Bound(tabs)
  /\ At(c, "delete", "insert") => cmd[c].row \in ProfileRow
  /\ At(c, "secret", "store") => cmd[c].ref \in Secret

PageAgrees ==
  /\ page.at = "ready" => /\ page.tabs = tabs /\ page.listed = owned
                          /\ owned = (profile # Absent \/ Unregistering)
  /\ deletion # Absent => profile # Absent

DeletionInv ==
  /\ Typed /\ OnePage /\ OneScript /\ PageAgrees
  /\ \A c \in Command : cmd[c] # Absent => Staged(c)

(* For a user who does nothing else: the pending deletion names the         *)
(* credential of the profile, the vault has obeyed where it says so, and    *)
(* the script works on what is stored.                                      *)
Settled(c) ==
  /\ Script(c)
  /\ cmd[c].op = "save" \/ (cmd[c].op = "bootstrap" /\ cmd[c].at = "register") =>
       cmd[c].tabs = snapshot
  /\ cmd[c].op \in Edits => deletion = Absent
  /\ At(c, "delete", "insert") => /\ cmd[c].row.secret_reference = profile
                                  /\ cmd[c].row.vault_deleted => profile = NoSecret
  /\ At(c, "delete", "vault") => deletion # Absent /\ cmd[c].row = deletion
  /\ At(c, "delete", "mark") => deletion # Absent /\ profile \notin vault
  /\ cmd[c].op = "delete" /\ cmd[c].at \in {"finalizeProfile", "finalizeTabs", "commit"} =>
       deletion # Absent /\ cmd[c].row = deletion /\ deletion.vault_deleted
  /\ At(c, "delete", "commit") =>
       cmd[c].tabs = Release(snapshot, Kept(deletion.delete_drafts))

Owing == deletion # Absent => /\ deletion.secret_reference = profile
                              /\ deletion.vault_deleted => profile \notin vault

Consistent ==
  /\ ~unsaved
  /\ Owing
  /\ page.at = "ready" /\ owned /\ ~Unregistering => page.tabs = snapshot
  /\ \A c \in Command : cmd[c] # Absent => Settled(c)

AloneInv == Undisturbed => Consistent

-----------------------------------------------------------------------------
(* What a step does to the commands.                                        *)

\* A request under way is one of the requests.
LEMMA Rows == ASSUME DeletionInv, NEW c \in Command, cmd[c] # Absent PROVE cmd[c] \in Request
  BY DEF DeletionInv, Typed

(* The script takes a step.                                                 *)
LEMMA ScriptSteps ==
  ASSUME DeletionInv, NEW c \in Command, Script(c), NEW r \in Request,
         cmd' = [cmd EXCEPT ![c] = r], UNCHANGED <<page, registry, rivals>>,
         profile' \in Reference \cup {Absent}, deletion' \in ProfileRow \cup {Absent},
         snapshot' \in Workspace, vault' \subseteq Secret,
         r.generation = cmd[c].generation, r.op # "save" \/ r.next # "nothing",
         Staged(c)', deletion' # Absent => profile' # Absent
  PROVE  DeletionInv'
<1> USE DEF DeletionInv
<1>1. cmd \in [Command -> Request \cup {Absent}] /\ Absent \notin Request
  BY DeletionAssumption DEF Typed
<1>2. cmd'[c] = r /\ \A b \in Command \ {c} : cmd'[b] = cmd[b]
  BY <1>1
<1>3. Typed'
  BY <1>1 DEF Typed, registry
<1>4. OnePage'
  BY <1>1, <1>2 DEF OnePage, Script
<1>5. \A b \in Command \ {c} : cmd[b] # Absent => cmd[b].op = "save" /\ cmd[b].next = "nothing"
  BY DEF OneScript, Script
<1>6. OneScript'
  BY <1>2, <1>5 DEF OneScript, Script
<1>7. Script(c)'
  BY <1>1, <1>2 DEF Script
<1>8. PageAgrees'
  <2>1. ASSUME page.at = "ready"
        PROVE  owned /\ (profile' # Absent \/ Unregistering')
    BY <1>2, <1>7, <2>1 DEF Staged, registry, Unregistering
  <2>2. page.at = "ready" => owned
    BY <2>1
  <2>3. QED
    BY <2>1, <2>2 DEF PageAgrees, registry
<1>9. ASSUME NEW b \in Command \ {c}, cmd'[b] # Absent PROVE Staged(b)'
  BY <1>2, <1>5, <1>9 DEF Staged, Script, At
<1>10. QED
  BY <1>3, <1>4, <1>6, <1>8, <1>9

(* A command ends and the page learns nothing.                              *)
LEMMA Answers ==
  ASSUME DeletionInv, NEW c \in Command, cmd[c] # Absent, Answer(c),
         cmd[c].op # "bootstrap", ~At(c, "delete", "unregister"),
         UNCHANGED <<registry, rivals>>,
         profile' \in Reference \cup {Absent}, deletion' \in ProfileRow \cup {Absent},
         snapshot' \in Workspace, vault' \subseteq Secret,
         profile' = Absent <=> profile = Absent, deletion' # Absent => profile' # Absent
  PROVE  DeletionInv' /\ page' = page
<1> USE DEF DeletionInv
<1>1. cmd \in [Command -> Request \cup {Absent}] /\ Absent \notin Request
  BY DeletionAssumption DEF Typed
<1>2. page' = page /\ cmd' = [cmd EXCEPT ![c] = Absent]
  BY DEF Answer, Reply
<1>3. cmd'[c] = Absent /\ \A b \in Command \ {c} : cmd'[b] = cmd[b]
  BY <1>1, <1>2
<1>4. Typed'
  BY <1>1, <1>2 DEF Typed, registry
<1>5. OnePage' /\ OneScript'
  BY <1>2, <1>3 DEF OnePage, OneScript, Script
<1>6. Unregistering' = Unregistering
  BY <1>3 DEF Unregistering, At
<1>7. PageAgrees'
  BY <1>2, <1>6 DEF PageAgrees, registry
<1>8. ASSUME NEW b \in Command, cmd'[b] # Absent PROVE Staged(b)'
  <2>1. b # c /\ cmd'[b] = cmd[b] /\ Staged(b)
    BY <1>3, <1>8
  <2>2. QED
    BY <1>2, <2>1 DEF Staged, Script, At, registry, Bound
<1>9. QED
  BY <1>2, <1>4, <1>5, <1>7, <1>8

-----------------------------------------------------------------------------
(* The requests of the page.                                                *)

\* So is the one a page is loaded with.
LEMMA BlankTyped == ASSUME DeletionInv
                    PROVE  /\ Blank \in Request /\ Blank.op = "bootstrap" /\ Blank.next = "nothing"
                           /\ Blank.generation = page.generation /\ Blank.tabs = page.tabs
                           /\ Blank.ref = NoSecret
  BY DEF Blank, Request, DeletionInv, Typed, PageRow, Reference

\* The page issues a request only where DeletionInv leaves room for it.
LEMMA Issues ==
  ASSUME DeletionInv, NEW c \in Command, NEW r \in Request, Issue(c, r),
         page.at = "ready", r.generation = page.generation, r.op # "bootstrap",
         r.op # "save" \/ r.next # "nothing" => page.listed /\ ~busy,
         r.next = "delete" => r.op = "save" /\ r.drafts = r.shown_drafts,
         r.next = "secret" => r.op = "update",
         r.op # "delete", r.op # "secret"
  PROVE  DeletionInv'
<1> USE DEF DeletionInv
<1>1. cmd \in [Command -> Request \cup {Absent}] /\ Absent \notin Request
  BY DeletionAssumption DEF Typed
<1>2. /\ cmd[c] = Absent /\ cmd' = [cmd EXCEPT ![c] = r]
      /\ UNCHANGED <<store, vault, registry, page, world>>
  BY DEF Issue
<1>3. cmd'[c] = r /\ \A b \in Command \ {c} : cmd'[b] = cmd[b]
  BY <1>1, <1>2
<1>4. Typed'
  BY <1>1, <1>2 DEF Typed, store, registry, world
<1>5. OnePage'
  BY <1>2, <1>3 DEF OnePage
<1>6. Unregistering' = Unregistering
  BY <1>1, <1>2, <1>3 DEF Unregistering, At
<1>7. PageAgrees'
  BY <1>2, <1>6 DEF PageAgrees, store, registry
<1>8. ASSUME r.op # "save" \/ r.next # "nothing"
      PROVE  /\ \A b \in Command : ~Script(b)
             /\ owned /\ profile # Absent
  <2>1. \A b \in Command : ~Script(b)
    BY <1>8 DEF busy, Script, OnePage
  <2>2. ~Unregistering
    BY <2>1 DEF Unregistering, At, Script
  <2>3. QED
    BY <1>8, <2>1, <2>2 DEF PageAgrees
<1>9. OneScript'
  BY <1>1, <1>3, <1>8 DEF OneScript, Script
<1>10. ASSUME NEW b \in Command, cmd'[b] # Absent PROVE Staged(b)'
  <2>1. CASE b = c
    BY <1>1, <1>2, <1>3, <1>8, <2>1 DEF Staged, Script, At, store, registry
  <2>2. CASE b # c
    <3>1. cmd'[b] = cmd[b] /\ Staged(b)
      BY <1>3, <1>10, <2>2
    <3>2. QED
      BY <1>2, <3>1 DEF Staged, Script, At, store, registry, Bound
  <2>3. QED
    BY <2>1, <2>2
<1>11. QED
  BY <1>4, <1>5, <1>7, <1>9, <1>10

\* So whatever the page asks for keeps the invariant.
LEMMA PageKeeps == ASSUME DeletionInv, Page PROVE DeletionInv'
<1>0. /\ Blank \in Request /\ Blank.op = "bootstrap" /\ Blank.next = "nothing"
      /\ Blank.generation = page.generation
  BY BlankTyped
<1>1. PICK c \in Command : \/ bootstrap(c) \/ deleteProfile(c) \/ submitProfile(c)
                           \/ removeSavedSecret(c) \/ queueWorkspaceSave(c)
  BY DEF Page
<1>2. CASE bootstrap(c)
  <2> USE DEF DeletionInv
  <2>1. /\ page.at = "loading" /\ page' = [page EXCEPT !.at = "bootstrapping"]
        /\ cmd' = [cmd EXCEPT ![c] = Blank]
        /\ UNCHANGED <<store, vault, registry, world>>
    BY <1>2 DEF bootstrap
  <2>2. /\ page'.at = "bootstrapping" /\ page'.generation = page.generation /\ page' \in PageRow
    BY <2>1 DEF Typed, PageRow
  <2>3. \A b \in Command : cmd[b] = Absent
    BY <2>1 DEF Staged
  <2>4. /\ cmd \in [Command -> Request \cup {Absent}] /\ Absent \notin Request
        /\ \A b \in Command : cmd'[b] = IF b = c THEN Blank ELSE Absent
    BY <2>1, <2>3, DeletionAssumption DEF Typed
  <2>5. Typed'
    BY <1>0, <2>1, <2>2, <2>4 DEF Typed, store, registry, world
  <2>6. OnePage' /\ OneScript' /\ PageAgrees'
    BY <1>0, <2>1, <2>2, <2>4 DEF OnePage, OneScript, PageAgrees, Script, store
  <2>7. Staged(c)'
    BY <1>0, <2>2, <2>4 DEF Staged, Script, At, Blank
  <2>8. QED
    BY <2>4, <2>5, <2>6, <2>7
<1>3. CASE deleteProfile(c)
  <2>1. PICK h \in BOOLEAN, d \in BOOLEAN :
          runAction(c, [Blank EXCEPT !.op = "save", !.at = "check", !.next = "delete",
                                     !.history = h, !.drafts = d, !.shown_drafts = d])
    BY <1>3 DEF deleteProfile
  <2> DEFINE r == [Blank EXCEPT !.op = "save", !.at = "check", !.next = "delete",
                                !.history = h, !.drafts = d, !.shown_drafts = d]
  <2>2. /\ r \in Request /\ r.generation = page.generation /\ r.op = "save"
        /\ r.next = "delete" /\ r.drafts = r.shown_drafts
    BY <1>0 DEF Request
  <2>3. page.at = "ready" /\ page.listed /\ ~busy /\ Issue(c, r)
    BY <2>1 DEF runAction
  <2> HIDE DEF r
  <2>4. QED
    BY <2>2, <2>3, Issues
<1>4. CASE submitProfile(c)
  <2>1. PICK next \in {"nothing", "secret"} :
          runAction(c, [Blank EXCEPT !.op = "update", !.at = "read", !.next = next])
    BY <1>4 DEF submitProfile
  <2> DEFINE r == [Blank EXCEPT !.op = "update", !.at = "read", !.next = next]
  <2>2. /\ r \in Request /\ r.generation = page.generation /\ r.op = "update"
        /\ r.next \in {"nothing", "secret"}
    BY <1>0 DEF Request
  <2>3. page.at = "ready" /\ page.listed /\ ~busy /\ Issue(c, r)
    BY <2>1 DEF runAction
  <2> HIDE DEF r
  <2>4. QED
    BY <2>2, <2>3, Issues
<1>5. CASE removeSavedSecret(c)
  <2> DEFINE r == [Blank EXCEPT !.op = "remove", !.at = "read"]
  <2>2. /\ r \in Request /\ r.generation = page.generation /\ r.op = "remove"
        /\ r.next = "nothing"
    BY <1>0 DEF Request
  <2>3. page.at = "ready" /\ page.listed /\ ~busy /\ Issue(c, r)
    BY <1>5 DEF runAction, removeSavedSecret
  <2> HIDE DEF r
  <2>4. QED
    BY <2>2, <2>3, Issues
<1>6. CASE queueWorkspaceSave(c)
  <2> DEFINE r == [Blank EXCEPT !.op = "save", !.at = "check"]
  <2>2. /\ r \in Request /\ r.generation = page.generation /\ r.op = "save"
        /\ r.next = "nothing"
    BY <1>0 DEF Request
  <2>3. page.at = "ready" /\ Issue(c, r)
    BY <1>6 DEF queueWorkspaceSave
  <2> HIDE DEF r
  <2>4. QED
    BY <2>2, <2>3, Issues
<1>7. QED
  BY <1>1, <1>2, <1>3, <1>4, <1>5, <1>6

-----------------------------------------------------------------------------
(* save_workspace and delete_profile.                                       *)

\* A save; no checkbox changes after the click, so the delete that follows it
\* deletes what was shown.
LEMMA SaveKeeps ==
  ASSUME DeletionInv, "toggle" \notin rivals, NEW c \in Command,
         workspace_from_view(c) \/ save_workspace(c)
  PROVE  DeletionInv'
<1> USE DEF DeletionInv
<1>1. /\ cmd[c] # Absent /\ cmd[c] \in Request /\ cmd[c].op = "save" /\ Staged(c)
      /\ UNCHANGED <<profile, deletion, vault, registry, world>>
      /\ cmd \in [Command -> Request \cup {Absent}] /\ Absent \notin Request
  BY Rows, DeletionAssumption DEF workspace_from_view, save_workspace, At, store, Typed
<1>3. CASE Answer(c) /\ snapshot' \in Workspace
  <2>1. /\ profile' \in Reference \cup {Absent} /\ deletion' \in ProfileRow \cup {Absent}
        /\ vault' \subseteq Secret /\ UNCHANGED rivals
        /\ deletion' # Absent => profile' # Absent
    BY <1>1 DEF Typed, PageAgrees, world
  <2>2. QED
    BY <1>1, <1>3, <2>1, Answers DEF At
<1>4. CASE workspace_from_view(c)
  <2>1. snapshot' \in Workspace
    BY <1>4 DEF workspace_from_view, store, Typed
  <2>2. CASE Advance(c, "write") /\ UNCHANGED page
    <3> DEFINE r == [cmd[c] EXCEPT !.at = "write"]
    <3>1. r \in Request
      BY <1>1 DEF Request
    <3>2. /\ r.op = "save" /\ r.next = cmd[c].next /\ r.generation = cmd[c].generation
          /\ r.drafts = cmd[c].drafts /\ r.shown_drafts = cmd[c].shown_drafts
      BY <1>1 DEF Request
    <3>3. cmd' = [cmd EXCEPT ![c] = r]
      BY <2>2 DEF Advance
    <3> HIDE DEF r
    <3>4. cmd'[c] = r /\ \A b \in Command \ {c} : cmd'[b] = cmd[b]
      BY <1>1, <3>3
    <3>5. Typed'
      BY <1>1, <2>1, <2>2, <3>1, <3>3 DEF Typed, registry, world
    <3>6. OnePage' /\ OneScript'
      BY <1>1, <2>2, <3>1, <3>2, <3>4 DEF OnePage, OneScript, Script
    <3>7. \A b \in Command : At(b, "delete", "unregister")' = At(b, "delete", "unregister")
      BY <1>1, <3>1, <3>2, <3>4 DEF At
    <3>8. PageAgrees'
      BY <1>1, <2>2, <3>7 DEF PageAgrees, Unregistering, registry
    <3>9. ASSUME NEW b \in Command, cmd'[b] # Absent PROVE Staged(b)'
      <4>1. CASE b = c
        BY <1>1, <2>2, <3>1, <3>2, <3>4, <4>1 DEF Staged, Script, At, registry
      <4>2. CASE b # c
        <5>1. cmd'[b] = cmd[b] /\ Staged(b)
          BY <3>4, <3>9, <4>2
        <5>2. QED
          BY <1>1, <2>2, <5>1 DEF Staged, Script, At, registry, Bound
      <4>3. QED
        BY <4>1, <4>2
    <3>10. QED
      BY <3>5, <3>6, <3>8, <3>9
  <2>3. QED
    BY <1>3, <1>4, <2>1, <2>2 DEF workspace_from_view
<1>5. CASE save_workspace(c)
  <2>1. snapshot' \in Workspace
    BY <1>1, <1>5 DEF save_workspace, Request
  <2>2. CASE cmd[c].next = "delete"
    <3>1. PICK h \in BOOLEAN, d \in BOOLEAN :
            /\ h = cmd[c].history /\ d = cmd[c].drafts
            /\ Continue(c, [cmd[c] EXCEPT !.op = "delete", !.at = "check", !.next = "nothing",
                                          !.history = h, !.drafts = d])
      BY <1>5, <2>2 DEF save_workspace
    <3> DEFINE r == [cmd[c] EXCEPT !.op = "delete", !.at = "check", !.next = "nothing",
                                   !.history = h, !.drafts = d]
    <3>2. r \in Request
      BY <1>1 DEF Request
    <3>3. /\ r.op = "delete" /\ r.at = "check" /\ r.next = "nothing"
          /\ r.generation = cmd[c].generation /\ r.drafts = d
          /\ r.shown_drafts = cmd[c].shown_drafts
      BY <1>1 DEF Request
    <3>4. cmd' = [cmd EXCEPT ![c] = r] /\ UNCHANGED page
      BY <1>1, <3>1 DEF Continue, OnePage
    <3> HIDE DEF r
    <3>5. cmd'[c] = r
      BY <1>1, <3>4
    <3>6. Script(c) /\ UNCHANGED rivals
      BY <1>1, <2>2 DEF Script, world
    <3>7. Staged(c)'
      BY <1>1, <2>2, <3>1, <3>2, <3>3, <3>4, <3>5, <3>6 DEF Staged, Script, At, registry
    <3>8. /\ profile' \in Reference \cup {Absent} /\ deletion' \in ProfileRow \cup {Absent}
          /\ vault' \subseteq Secret
          /\ deletion' # Absent => profile' # Absent
      BY <1>1 DEF Typed, PageAgrees, world
    <3>9. QED
      BY <1>1, <2>1, <3>2, <3>3, <3>4, <3>6, <3>7, <3>8, ScriptSteps
  <2>3. CASE cmd[c].next = "nothing"
    BY <1>3, <1>5, <2>1, <2>3 DEF save_workspace
  <2>4. QED
    BY <1>5, <2>2, <2>3 DEF save_workspace
<1>6. QED
  BY <1>4, <1>5

(* A release only closes tabs or takes them offline, and what it keeps      *)
(* matters only for bound tabs.                                             *)
LEMMA Releases ==
  ASSUME NEW ws \in Workspace, NEW keep
  PROVE  Release(ws, keep) \in Workspace /\ Release(ws, keep \cap Bound(ws)) = Release(ws, keep)
  BY DEF Release, Workspace, Binding, Bound

(* A step of the deletion that goes on.                                     *)
LEMMA DeleteMoves ==
  ASSUME DeletionInv, NEW c \in Command, cmd[c] # Absent, cmd[c].op = "delete",
         NEW r \in Request, cmd' = [cmd EXCEPT ![c] = r], UNCHANGED <<page, registry, rivals>>,
         r.op = "delete", r.next = cmd[c].next, r.generation = cmd[c].generation,
         r.drafts = cmd[c].drafts, r.shown_drafts = cmd[c].shown_drafts,
         r.keep = Kept(cmd[c].drafts) \cap Bound(tabs), r.at # "insert" \/ r.row \in ProfileRow,
         profile' \in Reference \cup {Absent}, deletion' \in ProfileRow \cup {Absent},
         snapshot' \in Workspace, vault' \subseteq Secret,
         profile' = Absent <=> r.at = "unregister", deletion' # Absent => profile' # Absent
  PROVE  DeletionInv'
<1>1. Script(c) /\ Staged(c) /\ cmd'[c] = r /\ r # Absent
  BY DeletionAssumption DEF DeletionInv, Typed, Script
<1>2. Staged(c)'
  BY <1>1 DEF Staged, Script, At, Kept, Bound, registry
<1>3. QED
  BY <1>1, <1>2, ScriptSteps

(* A step of the deletion that ends it with an error.                       *)
LEMMA DeleteAnswers ==
  ASSUME DeletionInv, NEW c \in Command, cmd[c] # Absent, cmd[c].op = "delete",
         cmd[c].at # "unregister", Answer(c), UNCHANGED <<store, registry, world>>,
         vault' \subseteq Secret
  PROVE  DeletionInv'
<1>1. /\ profile' \in Reference \cup {Absent} /\ deletion' \in ProfileRow \cup {Absent}
      /\ snapshot' \in Workspace /\ UNCHANGED rivals
      /\ deletion' # Absent => profile' # Absent
  BY DEF DeletionInv, Typed, PageAgrees, store, world
<1>2. QED
  BY <1>1, Answers DEF At, store

\* delete_profile, at each of its steps.
LEMMA DeleteKeeps == ASSUME DeletionInv, NEW c \in Command, delete_profile(c) PROVE DeletionInv'
<1> DEFINE Now == cmd[c]
<1>1. /\ Now # Absent /\ Now \in Request /\ Now.op = "delete" /\ Staged(c) /\ Script(c)
      /\ cmd \in [Command -> Request \cup {Absent}] /\ Absent \notin Request
  BY Rows, DeletionAssumption
     DEF delete_profile, At, DeletionInv, Typed, Script, DeleteChecks, BeginReads,
         BeginReadsProfile, BeginInserts, BeginReturns, VaultDeletes,
         mark_profile_vault_deleted, FinalizeReads, FinalizeReadsProfile,
         FinalizeReadsTabs, FinalizeCommits, unregister_profile
<1>2. /\ profile \in Reference \cup {Absent} /\ deletion \in ProfileRow \cup {Absent}
      /\ snapshot \in Workspace /\ tabs \in Workspace /\ vault \subseteq Secret
      /\ deletion # Absent => profile # Absent
      /\ owned /\ (profile = Absent <=> Now.at = "unregister")
      /\ Now.at # "check" => Now.keep = Kept(Now.drafts) \cap Bound(tabs)
      /\ page.at = "ready" /\ page.generation = 0 /\ Now.generation = 0
      /\ Now.drafts = Now.shown_drafts
  BY <1>1 DEF DeletionInv, Typed, PageAgrees, OnePage, Staged, At
<1>3. ASSUME Answer(c), Now.at # "unregister", UNCHANGED <<store, registry, world>>,
             vault' \subseteq Secret
      PROVE  DeletionInv'
  BY <1>1, <1>3, DeleteAnswers
<1>4. ASSUME NEW at, NEW row, at # "unregister", at # "insert", Now.at # "check", Now.at # "unregister",
             [Now EXCEPT !.at = at, !.row = row] \in Request,
             cmd' = [cmd EXCEPT ![c] = [Now EXCEPT !.at = at, !.row = row]],
             UNCHANGED <<page, profile, snapshot, registry, world>>,
             deletion' \in ProfileRow \cup {Absent}, vault' \subseteq Secret
      PROVE  DeletionInv'
  <2> DEFINE r == [Now EXCEPT !.at = at, !.row = row]
  <2>1. /\ r.op = "delete" /\ r.next = Now.next /\ r.generation = Now.generation
        /\ r.drafts = Now.drafts /\ r.shown_drafts = Now.shown_drafts /\ r.keep = Now.keep
        /\ r.at = at /\ r.row = row /\ r \in Request /\ cmd' = [cmd EXCEPT ![c] = r]
    BY <1>1, <1>4 DEF Request
  <2>2. profile' # Absent /\ UNCHANGED rivals
    BY <1>2, <1>4 DEF world
  <2>3. r.keep = Kept(cmd[c].drafts) \cap Bound(tabs)
    BY <1>2, <1>4, <2>1
  <2>4. /\ profile' \in Reference \cup {Absent} /\ snapshot' \in Workspace
    BY <1>2, <1>4, <2>2
  <2> HIDE DEF r
  <2>5. QED
    BY <1>1, <1>4, <2>1, <2>2, <2>3, <2>4, DeleteMoves DEF world
<1>5. ASSUME NEW at \in {"beginProfile", "reread", "vault", "mark", "finalize",
                         "finalizeProfile", "finalizeTabs"}, Advance(c, at)
      PROVE  /\ [Now EXCEPT !.at = at, !.row = Now.row] \in Request
             /\ cmd' = [cmd EXCEPT ![c] = [Now EXCEPT !.at = at, !.row = Now.row]]
  BY <1>1, <1>5 DEF Request, Advance
<1>6. ASSUME NEW at \in {"vault", "finalize", "finalizeProfile"},
             NEW row \in ProfileRow, cmd' = [cmd EXCEPT ![c].row = row, ![c].at = at]
      PROVE  /\ [Now EXCEPT !.at = at, !.row = row] \in Request
             /\ cmd' = [cmd EXCEPT ![c] = [Now EXCEPT !.at = at, !.row = row]]
  BY <1>1, <1>6 DEF Request
<1>7. ASSUME NEW row \in ProfileRow, Now.at = "beginProfile", profile # Absent,
             cmd' = [cmd EXCEPT ![c].row = row, ![c].at = "insert"],
             UNCHANGED <<page, store, vault, registry, world>>
      PROVE  DeletionInv'
  <2> DEFINE r == [Now EXCEPT !.row = row, !.at = "insert"]
  <2>1. /\ r.op = "delete" /\ r.next = Now.next /\ r.generation = Now.generation
        /\ r.drafts = Now.drafts /\ r.shown_drafts = Now.shown_drafts /\ r.keep = Now.keep
        /\ r.at = "insert" /\ r.row = row /\ r \in Request /\ cmd' = [cmd EXCEPT ![c] = r]
    BY <1>1, <1>7 DEF Request
  <2>2. r.keep = Kept(cmd[c].drafts) \cap Bound(tabs)
    BY <1>2, <1>7, <2>1
  <2>3. /\ profile' # Absent /\ UNCHANGED rivals
        /\ profile' \in Reference \cup {Absent} /\ deletion' \in ProfileRow \cup {Absent}
        /\ snapshot' \in Workspace /\ vault' \subseteq Secret
    BY <1>2, <1>7 DEF world, store
  <2> HIDE DEF r
  <2>4. QED
    BY <1>1, <1>7, <2>1, <2>2, <2>3, DeleteMoves
<1>10. CASE DeleteChecks(c)
  <2>1. Now.at = "check" /\ UNCHANGED <<store, vault, registry, world>>
    BY <1>10 DEF DeleteChecks, At
  <2>2. CASE Answer(c)
    BY <1>2, <1>3, <2>1, <2>2
  <2>3. CASE ~Answer(c)
    <3> DEFINE r == [Now EXCEPT !.at = "begin", !.keep = Kept(Now.drafts) \cap Bound(snapshot)]
    <3>1. /\ Bound(snapshot) = Bound(tabs)
          /\ cmd' = [cmd EXCEPT ![c] = r] /\ UNCHANGED page
      BY <1>1, <1>10, <2>3 DEF DeleteChecks
    <3>2. Kept(Now.drafts) \cap Bound(snapshot) \in SUBSET QueryTab
      BY DEF Kept
    <3>3. /\ r \in Request /\ r.op = "delete" /\ r.next = Now.next /\ r.at = "begin"
          /\ r.generation = Now.generation /\ r.drafts = Now.drafts
          /\ r.shown_drafts = Now.shown_drafts /\ r.keep = Kept(Now.drafts) \cap Bound(tabs)
      BY <1>1, <3>1, <3>2 DEF Request
    <3>4. profile' # Absent /\ UNCHANGED rivals
      BY <1>2, <2>1 DEF world, store
    <3>5. UNCHANGED <<profile, deletion, snapshot, vault>>
      BY <2>1 DEF world, store
    <3>6. /\ profile' \in Reference \cup {Absent} /\ deletion' \in ProfileRow \cup {Absent}
          /\ snapshot' \in Workspace /\ vault' \subseteq Secret
          /\ deletion' # Absent => profile' # Absent
      BY ONLY <1>2, <3>5
    <3> HIDE DEF r
    <3>7. QED
      BY <1>1, <2>1, <3>1, <3>3, <3>4, <3>6, DeleteMoves DEF world
  <2>4. QED
    BY <2>2, <2>3
<1>11. ASSUME deletion # Absent, TakeUp(c), Now.at \in {"begin", "reread"},
              UNCHANGED <<store, vault, registry, world>>
       PROVE  DeletionInv'
  <2> DEFINE at == IF deletion.vault_deleted THEN "finalize" ELSE "vault"
  <2>1. cmd' = [cmd EXCEPT ![c].row = deletion, ![c].at = at] /\ UNCHANGED page
    BY <1>11 DEF TakeUp
  <2>2. deletion \in ProfileRow /\ at \in {"finalize", "vault"}
    BY <1>2, <1>11
  <2> HIDE DEF at
  <2>3. QED
    BY <1>2, <1>4, <1>6, <1>11, <2>1, <2>2 DEF store
<1>12. CASE BeginReads(c)
  <2>1. Now.at = "begin" /\ UNCHANGED <<store, vault, registry, world>>
    BY <1>12 DEF BeginReads, At
  <2>2. CASE deletion # Absent
    BY <1>11, <1>12, <2>1, <2>2 DEF BeginReads
  <2>3. CASE deletion = Absent
    BY <1>2, <1>4, <1>5, <1>12, <2>1, <2>3 DEF BeginReads, store
  <2>4. QED
    BY <2>2, <2>3
<1>13. CASE BeginReadsProfile(c)
  <2>1. Now.at = "beginProfile" /\ UNCHANGED <<store, vault, registry, world>> /\ profile # Absent
    BY <1>2, <1>13 DEF BeginReadsProfile, At
  <2>2. NewRow(c) \in ProfileRow
    BY <1>1, <1>2, <2>1 DEF NewRow, ProfileRow, Request
  <2>3. cmd' = [cmd EXCEPT ![c].row = NewRow(c), ![c].at = "insert"] /\ UNCHANGED page
    BY <1>13, <2>1 DEF BeginReadsProfile
  <2>4. QED
    BY <1>7, <2>1, <2>2, <2>3
<1>16. CASE VaultDeletes(c)
  <2>1. Now.at = "vault" /\ vault' \subseteq Secret /\ UNCHANGED <<store, registry, world>>
    BY <1>2, <1>16 DEF VaultDeletes, At
  <2>2. CASE Answer(c)
    BY <1>3, <2>1, <2>2
  <2>3. CASE ~Answer(c)
    BY <1>2, <1>4, <1>5, <1>16, <2>1, <2>3 DEF VaultDeletes, store
  <2>4. QED
    BY <2>2, <2>3
<1>17. CASE mark_profile_vault_deleted(c)
  <2>1. Now.at = "mark" /\ UNCHANGED <<profile, snapshot, history, vault, registry, world>>
    BY <1>17 DEF mark_profile_vault_deleted, At
  <2>2. CASE deletion = Absent
    BY <1>2, <1>3, <1>17, <2>1, <2>2 DEF mark_profile_vault_deleted, store
  <2>3. CASE deletion # Absent
    <3>1. deletion' \in ProfileRow
      BY <1>2, <1>17, <2>3 DEF mark_profile_vault_deleted, ProfileRow
    <3>2. Advance(c, "finalize") /\ UNCHANGED page
      BY <1>17, <2>3 DEF mark_profile_vault_deleted
    <3>3. QED
      BY <1>2, <1>4, <1>5, <2>1, <3>1, <3>2
  <2>4. QED
    BY <2>2, <2>3
<1>18. CASE FinalizeReads(c)
  <2>1. Now.at = "finalize" /\ UNCHANGED <<store, vault, registry, world>>
    BY <1>18 DEF FinalizeReads, At
  <2>2. CASE Answer(c)
    BY <1>2, <1>3, <2>1, <2>2
  <2>3. CASE ~Answer(c)
    <3>1. /\ deletion \in ProfileRow /\ UNCHANGED page
          /\ cmd' = [cmd EXCEPT ![c].row = deletion, ![c].at = "finalizeProfile"]
      BY <1>2, <1>18, <2>3 DEF FinalizeReads
    <3>2. QED
      BY <1>2, <1>4, <1>6, <2>1, <3>1 DEF store
  <2>4. QED
    BY <2>2, <2>3
<1>19. CASE FinalizeReadsProfile(c)
  <2>1. /\ Now.at = "finalizeProfile" /\ UNCHANGED <<store, vault, registry, world>>
        /\ profile # Absent
    BY <1>2, <1>19 DEF FinalizeReadsProfile, At
  <2>2. QED
    BY <1>2, <1>4, <1>5, <1>19, <2>1 DEF FinalizeReadsProfile, store
<1>14. CASE BeginInserts(c)
  <2>1. Now.at = "insert" /\ UNCHANGED <<profile, snapshot, history, vault, registry, world>>
    BY <1>14 DEF BeginInserts, At
  <2>2. CASE deletion # Absent
    BY <1>2, <1>3, <1>14, <2>1, <2>2 DEF BeginInserts, store
  <2>3. CASE deletion = Absent
    <3>1. deletion' \in ProfileRow
      BY <1>1, <1>14, <2>3 DEF BeginInserts, Staged
    <3>2. Advance(c, "reread") /\ UNCHANGED page
      BY <1>14, <2>3 DEF BeginInserts
    <3>3. QED
      BY <1>2, <1>4, <1>5, <2>1, <3>1, <3>2
  <2>4. QED
    BY <2>2, <2>3
<1>15. CASE BeginReturns(c)
  <2>1. Now.at = "reread" /\ UNCHANGED <<store, vault, registry, world>>
    BY <1>15 DEF BeginReturns, At
  <2>2. CASE deletion # Absent
    BY <1>11, <1>15, <2>1, <2>2 DEF BeginReturns
  <2>3. CASE deletion = Absent
    BY <1>2, <1>3, <1>15, <2>1, <2>3 DEF BeginReturns, store
  <2>4. QED
    BY <2>2, <2>3
<1>20. CASE FinalizeReadsTabs(c)
  <2> DEFINE ws == Release(snapshot, Kept(Now.row.delete_drafts))
             r == [Now EXCEPT !.tabs = ws, !.at = "commit"]
  <2>1. /\ Now.at = "finalizeTabs" /\ UNCHANGED <<store, vault, registry, page, world>>
        /\ cmd' = [cmd EXCEPT ![c] = r]
    BY <1>1, <1>20 DEF FinalizeReadsTabs, At
  <2>2. ws \in Workspace
    BY <1>2, Releases
  <2> HIDE DEF ws
  <2>3. /\ r \in Request /\ r.op = "delete" /\ r.next = Now.next /\ r.at = "commit"
        /\ r.generation = Now.generation /\ r.drafts = Now.drafts
        /\ r.shown_drafts = Now.shown_drafts /\ r.keep = Now.keep
    BY <1>1, <2>2 DEF Request
  <2>4. r.keep = Kept(cmd[c].drafts) \cap Bound(tabs)
    BY <1>2, <2>1, <2>3
  <2>5. /\ profile' # Absent /\ UNCHANGED rivals
        /\ profile' \in Reference \cup {Absent} /\ deletion' \in ProfileRow \cup {Absent}
        /\ snapshot' \in Workspace /\ vault' \subseteq Secret
    BY <1>2, <2>1 DEF world, store
  <2> HIDE DEF r
  <2>6. QED
    BY <1>1, <2>1, <2>3, <2>4, <2>5, DeleteMoves DEF world
<1>21. CASE FinalizeCommits(c)
  <2> DEFINE r == [Now EXCEPT !.at = "unregister"]
  <2>1. /\ Now.at = "commit" /\ UNCHANGED <<vault, registry, page, world>>
        /\ cmd' = [cmd EXCEPT ![c] = r]
        /\ profile' = Absent /\ deletion' = Absent /\ snapshot' = Now.tabs
    BY <1>1, <1>21 DEF FinalizeCommits, At, Advance
  <2>2. /\ r \in Request /\ r.op = "delete" /\ r.next = Now.next /\ r.at = "unregister"
        /\ r.generation = Now.generation /\ r.drafts = Now.drafts
        /\ r.shown_drafts = Now.shown_drafts /\ r.keep = Now.keep
        /\ Now.tabs \in Workspace
    BY <1>1 DEF Request
  <2>3. r.keep = Kept(cmd[c].drafts) \cap Bound(tabs)
    BY <1>2, <2>1, <2>2
  <2>4. /\ snapshot' \in Workspace /\ vault' \subseteq Secret /\ UNCHANGED rivals
    BY <1>2, <2>1, <2>2 DEF world
  <2> HIDE DEF r
  <2>5. QED
    BY <1>1, <2>1, <2>2, <2>3, <2>4, DeleteMoves DEF world
<1>22. CASE unregister_profile(c)
  <2>1. /\ Now.at = "unregister" /\ owned' = FALSE /\ tabs' = Release(tabs, Now.keep)
        /\ UNCHANGED <<store, vault, world>>
    BY <1>22 DEF unregister_profile, At
  <2>2. Reply(c, [page EXCEPT !.listed = FALSE,
                              !.tabs = Release(page.tabs, Kept(Now.shown_drafts))])
    BY <1>2, <1>22 DEF unregister_profile
  <2>3. /\ cmd' = [cmd EXCEPT ![c] = Absent]
        /\ page' = [page EXCEPT !.listed = FALSE,
                                !.tabs = Release(page.tabs, Kept(Now.shown_drafts))]
    BY <1>2, <2>2 DEF Reply
  <2>4. page \in PageRow /\ page.tabs = tabs
    BY <1>2 DEF DeletionInv, Typed, PageAgrees
  <2>5. tabs' = Release(tabs, Kept(Now.drafts)) /\ tabs' \in Workspace
    BY <1>2, <2>1, Releases
  <2>6. /\ page' \in PageRow /\ page'.at = page.at /\ page'.generation = 0
        /\ page'.tabs = tabs' /\ page'.listed = FALSE
    BY <1>2, <2>3, <2>4, <2>5 DEF PageRow
  <2>7. cmd'[c] = Absent /\ \A b \in Command \ {c} : cmd'[b] = cmd[b]
    BY <1>1, <2>3
  <2>8. Typed'
    BY <1>1, <1>2, <2>1, <2>3, <2>5, <2>6 DEF Typed, store, world, DeletionInv
  <2>9. \A b \in Command : cmd'[b] # Absent => /\ b # c /\ cmd'[b] = cmd[b] /\ cmd[b] # Absent
                                               /\ Staged(b) /\ ~Script(b)
    BY <1>1, <2>7 DEF DeletionInv, OneScript
  <2>10. OnePage' /\ OneScript'
    BY <2>6, <2>9 DEF DeletionInv, OnePage, OneScript, Script
  <2>11. profile' = Absent /\ deletion' = Absent
    BY <1>2, <2>1 DEF store
  <2>12. ~Unregistering'
    BY <2>9 DEF Unregistering, At, Script
  <2>13. PageAgrees'
    BY <2>1, <2>6, <2>11, <2>12 DEF PageAgrees
  <2>14. ASSUME NEW b \in Command, cmd'[b] # Absent PROVE Staged(b)'
    <3>1. cmd'[b] = cmd[b] /\ Staged(b) /\ cmd[b].op = "save" /\ cmd[b].next = "nothing"
      BY <2>9, <2>14 DEF Script
    <3>2. QED
      BY <1>2, <2>6, <3>1 DEF Staged, Script, At
  <2>15. QED
    BY <2>8, <2>10, <2>13, <2>14 DEF DeletionInv
<1>23. QED
  BY <1>10, <1>12, <1>13, <1>14, <1>15, <1>16, <1>17, <1>18, <1>19, <1>20, <1>21, <1>22
     DEF delete_profile

-----------------------------------------------------------------------------
(* The edits, bootstrap_workspace and what else may happen.                 *)

(* A step of an edit that goes on; the row is still there.                  *)
LEMMA EditMoves ==
  ASSUME DeletionInv, NEW c \in Command, cmd[c] # Absent, cmd[c].op \in Edits,
         NEW r \in Request, cmd' = [cmd EXCEPT ![c] = r],
         UNCHANGED <<page, deletion, snapshot, registry, world>>,
         r.op \in Edits, r.next = "secret" => r.op = "update", r.next # "delete",
         r.generation = cmd[c].generation, r.op # "secret" \/ r.at # "store" \/ r.ref \in Secret,
         profile' \in Reference, vault' \subseteq Secret
  PROVE  DeletionInv'
<1>1. /\ Script(c) /\ Staged(c) /\ cmd'[c] = r /\ r # Absent
      /\ deletion \in ProfileRow \cup {Absent} /\ snapshot \in Workspace
      /\ profile' # Absent /\ UNCHANGED rivals
  BY DeletionAssumption DEF DeletionInv, Typed, Script, Edits, Reference, world
<1>2. Staged(c)'
  BY <1>1 DEF Staged, Script, At, Edits, registry
<1>3. QED
  BY <1>1, <1>2, ScriptSteps DEF Edits

\* An edit of the profile, and of its secret.
LEMMA EditKeeps == ASSUME DeletionInv, NEW c \in Command, edit_profile(c) PROVE DeletionInv'
<1> DEFINE Now == cmd[c]
<1>1. /\ Now # Absent /\ Now \in Request /\ Now.op \in Edits /\ Staged(c)
      /\ Now.op # "bootstrap" /\ ~At(c, "delete", "unregister")
      /\ UNCHANGED <<deletion, snapshot, history, registry, world>>
  BY Rows DEF edit_profile, EditReads, SecretStores, SecretErased, save_profile, SecretUndone,
              At, Edits, DeletionInv, store
<1>2. /\ profile \in Reference /\ profile # Absent
      /\ deletion \in ProfileRow \cup {Absent} /\ snapshot \in Workspace
      /\ vault \subseteq Secret /\ Now.next # "delete" /\ (Now.next = "secret" => Now.op = "update")
      /\ page.generation = 0 /\ Now.generation = 0
      /\ cmd \in [Command -> Request \cup {Absent}]
      /\ Reference = Secret \cup {NoSecret} /\ NoSecret # Absent /\ Absent \notin Secret
  BY <1>1, DeletionAssumption DEF DeletionInv, Typed, OnePage, Staged, Script, Edits, Reference
<1>3. ASSUME Answer(c), profile' \in Reference, vault' \subseteq Secret PROVE DeletionInv'
  <2>1. profile' # Absent /\ UNCHANGED rivals
    BY <1>1, <1>2, <1>3 DEF world
  <2>2. QED
    BY <1>1, <1>2, <1>3, <2>1, Answers
<1>4. ASSUME NEW at \in {"store", "erase", "write"}, NEW ref \in Reference,
             NEW row \in Reference \cup {Absent} \cup ProfileRow,
             cmd' = [cmd EXCEPT ![c].ref = ref, ![c].row = row, ![c].at = at],
             UNCHANGED <<page, profile, vault>>, Now.op # "secret" \/ ref \in Secret
      PROVE  DeletionInv'
  <2> DEFINE r == [Now EXCEPT !.ref = ref, !.row = row, !.at = at]
  <2>1. r \in Request /\ cmd' = [cmd EXCEPT ![c] = r]
    BY <1>1, <1>4 DEF Request
  <2>2. r.op = Now.op /\ r.next = Now.next /\ r.generation = Now.generation /\ r.ref = ref
    BY <1>1 DEF Request
  <2> HIDE DEF r
  <2>3. /\ profile' \in Reference /\ vault' \subseteq Secret
        /\ UNCHANGED <<page, deletion, snapshot, registry, world>>
    BY <1>1, <1>2, <1>4
  <2>4. /\ r.op \in Edits /\ (r.next = "secret" => r.op = "update") /\ r.next # "delete"
        /\ (r.op # "secret" \/ r.at # "store" \/ r.ref \in Secret)
    BY <1>1, <1>2, <1>4, <2>2
  <2>5. QED
    BY <1>1, <2>1, <2>2, <2>3, <2>4, EditMoves
<1>5. ASSUME Advance(c, "write"), UNCHANGED <<page, profile>>, vault' \subseteq Secret
      PROVE  DeletionInv'
  <2> DEFINE r == [Now EXCEPT !.at = "write"]
  <2>1. /\ r \in Request /\ cmd' = [cmd EXCEPT ![c] = r]
        /\ r.op = Now.op /\ r.next = Now.next /\ r.generation = Now.generation
        /\ r.at = "write"
    BY <1>1, <1>5 DEF Request, Advance
  <2> HIDE DEF r
  <2>2. QED
    BY <1>1, <1>2, <1>5, <2>1, EditMoves
<1>10. CASE EditReads(c)
  <2>1. UNCHANGED <<profile, vault, page>>
    BY <1>2, <1>10 DEF EditReads, store
  <2>2. PICK ref \in IF Now.op = "secret" /\ profile = NoSecret THEN Fresh(c) ELSE {profile} :
          cmd' = [cmd EXCEPT ![c].ref = ref, ![c].row = profile,
                             ![c].at = CASE Now.op = "secret" -> "store"
                                         [] Now.op = "remove" /\ ref # NoSecret -> "erase"
                                         [] OTHER -> "write"]
    BY <1>2, <1>10 DEF EditReads
  <2> DEFINE at == CASE Now.op = "secret" -> "store"
                     [] Now.op = "remove" /\ ref # NoSecret -> "erase"
                     [] OTHER -> "write"
  <2>3. at \in {"store", "erase", "write"}
    OBVIOUS
  <2>4. ref \in Reference /\ (Now.op # "secret" \/ ref \in Secret)
    BY <1>2 DEF Fresh
  <2> HIDE DEF at
  <2>5. QED
    BY <1>2, <1>4, <2>1, <2>2, <2>3, <2>4 DEF at
<1>11. CASE SecretStores(c) \/ SecretErased(c)
  <2>1. UNCHANGED profile
    BY <1>11 DEF SecretStores, SecretErased, store
  <2>2. vault' \subseteq Secret
    BY <1>1, <1>2, <1>11 DEF SecretStores, SecretErased, At, Staged
  <2>3. QED
    BY <1>2, <1>3, <1>5, <1>11, <2>1, <2>2 DEF SecretStores, SecretErased
<1>12. CASE save_profile(c)
  <2>1. profile' \in Reference /\ vault' \subseteq Secret
    BY <1>1, <1>2, <1>12 DEF save_profile, Request
  <2>2. CASE Now.next = "secret"
    <3> DEFINE r == [Now EXCEPT !.op = "secret", !.at = "read", !.next = "nothing"]
    <3>1. /\ r \in Request /\ cmd' = [cmd EXCEPT ![c] = r] /\ UNCHANGED page
          /\ r.op = "secret" /\ r.at = "read" /\ r.next = "nothing"
          /\ r.generation = Now.generation
      BY <1>1, <1>2, <1>12, <2>2 DEF Request, Continue, save_profile
    <3> HIDE DEF r
    <3>2. QED
      BY <1>1, <1>2, <2>1, <3>1, EditMoves DEF Edits
  <2>3. CASE Now.next # "secret"
    BY <1>3, <1>12, <2>1, <2>3 DEF save_profile
  <2>4. QED
    BY <2>2, <2>3
<1>13. CASE SecretUndone(c)
  <2>1. vault' \subseteq Secret /\ UNCHANGED profile /\ Answer(c)
    BY <1>2, <1>13 DEF SecretUndone, store
  <2>2. QED
    BY <1>2, <1>3, <2>1
<1>14. QED
  BY <1>10, <1>11, <1>12, <1>13 DEF edit_profile

(* Nothing else is in flight while the page starts.                         *)
LEMMA Starting ==
  ASSUME DeletionInv, NEW c \in Command, cmd[c] # Absent, cmd[c].op = "bootstrap"
  PROVE  /\ page.at = "bootstrapping" /\ page.generation = 0 /\ cmd[c].generation = 0
         /\ \A b \in Command \ {c} : cmd[b] = Absent
BY DEF DeletionInv, Staged, OnePage, OneScript, Script

(* The page learns how its start ended.                                     *)
LEMMA Started ==
  ASSUME DeletionInv, NEW c \in Command, cmd[c] # Absent, cmd[c].op = "bootstrap",
         NEW learned \in PageRow, Reply(c, learned), learned.generation = 0,
         learned.at # "ready" \/ (learned.tabs = tabs' /\ learned.listed = owned'
                                   /\ owned' = (profile # Absent)),
         tabs' \in Workspace, owned' \in BOOLEAN, UNCHANGED <<store, vault, world>>
  PROVE  DeletionInv'
<1>1. /\ cmd \in [Command -> Request \cup {Absent}] /\ page' = learned
      /\ cmd' = [cmd EXCEPT ![c] = Absent]
  BY Starting DEF DeletionInv, Typed, Reply
<1>2. \A b \in Command : cmd'[b] = Absent
  BY <1>1, Starting
<1>3. Typed'
  BY <1>1 DEF DeletionInv, Typed, store, world
<1>4. OnePage' /\ OneScript' /\ ~Unregistering'
  BY <1>1, <1>2 DEF OnePage, OneScript, Script, Unregistering, At
<1>5. PageAgrees'
  BY <1>1, <1>4 DEF DeletionInv, PageAgrees, store
<1>6. QED
  BY <1>2, <1>3, <1>4, <1>5 DEF DeletionInv

\* bootstrap_workspace, which resumes the deletion it finds.
LEMMA BootstrapKeeps == ASSUME DeletionInv, NEW c \in Command, bootstrap_workspace(c)
                        PROVE  DeletionInv'
<1> DEFINE Now == cmd[c]
<1>1. /\ Now # Absent /\ Now \in Request /\ Now.op = "bootstrap" /\ Staged(c) /\ Script(c)
      /\ UNCHANGED <<store, vault, world>>
  BY Rows DEF bootstrap_workspace, BootstrapReadsProfiles, BootstrapReadsTabs,
              BootstrapRegisters, At, DeletionInv, Script
<1>2. /\ profile \in Reference \cup {Absent} /\ deletion \in ProfileRow \cup {Absent}
      /\ snapshot \in Workspace /\ vault \subseteq Secret /\ page \in PageRow
      /\ deletion # Absent => profile # Absent
      /\ cmd \in [Command -> Request \cup {Absent}] /\ Absent \notin Request
  BY DeletionAssumption DEF DeletionInv, Typed, PageAgrees
<1>3. page.at = "bootstrapping" /\ page.generation = 0
  BY <1>1, Starting
<1>4. ASSUME NEW r \in Request, cmd' = [cmd EXCEPT ![c] = r], UNCHANGED <<page, registry>>,
             r.op = "bootstrap", r.next = Now.next, r.generation = Now.generation,
             r.at = "profiles" \/ r.listed = (profile # Absent)
      PROVE  DeletionInv'
  <2>1. cmd'[c] = r /\ r # Absent
    BY <1>2, <1>4
  <2>2. Staged(c)'
    BY <1>1, <1>4, <2>1 DEF Staged, Script, At, store
  <2>3. /\ UNCHANGED rivals /\ profile' \in Reference \cup {Absent}
        /\ deletion' \in ProfileRow \cup {Absent} /\ snapshot' \in Workspace
        /\ vault' \subseteq Secret
        /\ deletion' # Absent => profile' # Absent
    BY <1>1, <1>2 DEF store, world
  <2>4. /\ r.op # "save" \/ r.next # "nothing"
        /\ r.generation = cmd[c].generation /\ Script(c)
        /\ cmd' = [cmd EXCEPT ![c] = r] /\ UNCHANGED <<page, registry, rivals>>
    BY <1>1, <1>4, <2>3
  <2>5. QED
    BY <2>2, <2>3, <2>4, ScriptSteps
<1>5. CASE BootstrapReadsProfiles(c)
  <2> DEFINE r == [Now EXCEPT !.listed = profile # Absent, !.at = "workspace"]
  <2>1. r \in Request /\ cmd' = [cmd EXCEPT ![c] = r] /\ UNCHANGED <<page, registry>>
    BY <1>1, <1>5 DEF Request, BootstrapReadsProfiles
  <2>2. /\ r.op = "bootstrap" /\ r.next = Now.next /\ r.generation = Now.generation
        /\ r.listed = (profile # Absent)
    BY <1>1 DEF Request
  <2> HIDE DEF r
  <2>3. QED
    BY <1>4, <2>1, <2>2
<1>6. CASE BootstrapReadsTabs(c)
  <2> DEFINE r == [Now EXCEPT !.tabs = snapshot, !.at = "register"]
  <2>1. r \in Request /\ cmd' = [cmd EXCEPT ![c] = r] /\ UNCHANGED <<page, registry>>
    BY <1>1, <1>2, <1>6 DEF Request, BootstrapReadsTabs
  <2>2. /\ r.op = "bootstrap" /\ r.next = Now.next /\ r.generation = Now.generation
        /\ r.listed = Now.listed
    BY <1>1 DEF Request
  <2>3. Now.listed = (profile # Absent)
    BY <1>1, <1>6 DEF BootstrapReadsTabs, At, Staged
  <2> HIDE DEF r
  <2>4. QED
    BY <1>4, <2>1, <2>2, <2>3
<1>7. CASE BootstrapRegisters(c)
  <2>1. /\ Now.listed \in BOOLEAN /\ Now.tabs \in Workspace /\ owned' = Now.listed
        /\ Now.listed = (profile # Absent)
    BY <1>1, <1>7 DEF BootstrapRegisters, At, Staged, Request
  <2>2. CASE tabs' = Now.tabs /\ Reply(c, [page EXCEPT !.at = "ready", !.listed = Now.listed,
                                                       !.tabs = Now.tabs])
    <3> DEFINE learned == [page EXCEPT !.at = "ready", !.listed = Now.listed, !.tabs = Now.tabs]
    <3>1. /\ learned \in PageRow /\ learned.generation = 0
          /\ learned.tabs = tabs' /\ learned.listed = owned'
      BY <1>2, <1>3, <2>1, <2>2 DEF PageRow
    <3> HIDE DEF learned
    <3>2. Reply(c, learned)
      BY <2>2 DEF learned
    <3>3. QED
      BY <1>1, <2>1, <2>2, <3>1, <3>2, Started
  <2>3. CASE ~(tabs' = Now.tabs /\ Reply(c, [page EXCEPT !.at = "ready", !.listed = Now.listed,
                                                         !.tabs = Now.tabs]))
    <3> DEFINE learned == [page EXCEPT !.at = "refused"]
    <3>1. learned \in PageRow /\ learned.generation = 0 /\ learned.at = "refused"
      BY <1>2, <1>3 DEF PageRow
    <3>2. tabs' \in Workspace
      BY <1>7, <2>3 DEF BootstrapRegisters, Workspace, Binding
    <3>3. Reply(c, learned)
      BY <1>7, <2>3 DEF BootstrapRegisters
    <3> HIDE DEF learned
    <3>4. QED
      BY <1>1, <2>1, <3>1, <3>2, <3>3, Started
  <2>4. QED
    BY <2>2, <2>3
<1>8. QED
  BY <1>5, <1>6, <1>7 DEF bootstrap_workspace

(* A failure of the store leaves the script of a fresh credential with an   *)
(* item to take back, and ends every other command.                         *)
LEMMA FailureKeeps == ASSUME DeletionInv, NEW c \in Command, StoreFails(c) PROVE DeletionInv'
<1> DEFINE Now == cmd[c]
<1>1. /\ Now # Absent /\ Now \in Request /\ <<Now.op, Now.at>> \in StoreSteps
      /\ UNCHANGED <<store, vault, registry, world>> /\ Staged(c)
  BY Rows DEF StoreFails, DeletionInv
<1>2. ~At(c, "delete", "unregister")
  BY <1>1 DEF StoreSteps, At
<1>3. /\ profile \in Reference \cup {Absent} /\ deletion \in ProfileRow \cup {Absent}
      /\ snapshot \in Workspace /\ tabs \in Workspace /\ vault \subseteq Secret
      /\ page \in PageRow
      /\ deletion # Absent => profile # Absent
  BY DEF DeletionInv, Typed, PageAgrees
<1>4. CASE Now.op = "secret" /\ Now.at = "write" /\ Now.row = NoSecret
  <2> DEFINE r == [Now EXCEPT !.at = "undo"]
  <2>1. /\ r \in Request /\ cmd' = [cmd EXCEPT ![c] = r] /\ UNCHANGED page
        /\ r.op = "secret" /\ r.next = Now.next /\ r.generation = Now.generation /\ r.at = "undo"
    BY <1>1, <1>4 DEF Request, Advance, StoreFails
  <2>2. profile \in Reference /\ r.next # "secret" /\ r.next # "delete"
    BY <1>1, <1>3, <1>4, <2>1 DEF Staged, Script, At
  <2> HIDE DEF r
  <2>3. /\ UNCHANGED <<page, deletion, snapshot, registry, world>>
        /\ profile' \in Reference /\ vault' \subseteq Secret
    BY <1>1, <1>3, <2>1, <2>2 DEF store
  <2>4. QED
    BY <1>1, <1>4, <2>1, <2>2, <2>3, EditMoves DEF Edits
<1>5. CASE Now.op = "bootstrap"
  <2> DEFINE learned == [page EXCEPT !.at = "failed"]
  <2>1. page.generation = 0
    BY <1>1, <1>5, Starting
  <2>2. learned \in PageRow /\ learned.generation = 0 /\ learned.at = "failed"
    <3>1. page \in PageRow
      BY <1>3
    <3>2. QED
      BY <2>1, <3>1 DEF PageRow
  <2>3. Reply(c, learned)
    BY <1>5 DEF StoreFails
  <2>4. tabs' \in Workspace /\ owned' \in BOOLEAN
    BY <1>1 DEF registry, DeletionInv, Typed
  <2> HIDE DEF learned
  <2>5. QED
    BY <1>1, <1>5, <2>2, <2>3, <2>4, Started
<1>6. CASE Now.op # "bootstrap" /\ ~(Now.op = "secret" /\ Now.at = "write" /\ Now.row = NoSecret)
  <2>1. Answer(c)
    BY <1>6 DEF StoreFails, Answer
  <2>2. UNCHANGED <<registry, rivals, profile, deletion, snapshot, vault>>
    BY <1>1 DEF store, world
  <2>3. /\ profile' \in Reference \cup {Absent} /\ deletion' \in ProfileRow \cup {Absent}
        /\ snapshot' \in Workspace /\ vault' \subseteq Secret
        /\ deletion' # Absent => profile' # Absent
    BY <1>3, <2>2
  <2>4. QED
    BY <1>1, <1>2, <1>6, <2>1, <2>2, <2>3, Answers
<1>7. QED
  BY <1>4, <1>5, <1>6

\* The history, and a crash.
LEMMA OthersKeep ==
  ASSUME DeletionInv, Reloads = 0, save_history_entry \/ Reload \/ Crash
  PROVE  DeletionInv'
<1>1. /\ cmd \in [Command -> Request \cup {Absent}] /\ page \in PageRow /\ page.generation = 0
      /\ profile \in Reference \cup {Absent} /\ deletion \in ProfileRow \cup {Absent}
      /\ snapshot \in Workspace /\ vault \subseteq Secret /\ rivals \in Rivals
      /\ deletion # Absent => profile # Absent
  BY DEF DeletionInv, Typed, OnePage, PageAgrees
<1>2. CASE save_history_entry
  <2>1. UNCHANGED <<profile, deletion, snapshot, vault, owned, tabs, cmd, page, rivals>>
    BY <1>2 DEF save_history_entry, registry
  <2>2. QED
    BY <2>1 DEF DeletionInv, Typed, OnePage, OneScript, PageAgrees, Staged, Script, At,
                Unregistering, Bound
<1>3. CASE Reload
  <2>1. page.at = "failed" /\ page' = NewPage(0)
    BY <1>1, <1>3 DEF Reload, PageRow
  <2>2. UNCHANGED <<profile, deletion, snapshot, vault, owned, tabs, cmd, rivals>>
    BY <1>3 DEF Reload, registry, store, world
  <2>3. \A b \in Command : cmd[b] = Absent
    BY <2>1 DEF DeletionInv, Staged
  <2>4. page' \in PageRow /\ page'.at = "loading" /\ page'.generation = 0
    BY <2>1 DEF NewPage, PageRow, Workspace, Binding
  <2>5. Typed'
    BY <2>2, <2>4 DEF DeletionInv, Typed
  <2>6. QED
    BY <1>1, <2>2, <2>3, <2>4, <2>5
       DEF DeletionInv, OnePage, OneScript, PageAgrees, Staged, Script
<1>4. CASE Crash
  <2>1. /\ page' = NewPage(0) /\ owned' \in BOOLEAN /\ cmd' = [c \in Command |-> Absent]
        /\ UNCHANGED <<profile, deletion, snapshot, vault, rivals>>
    BY <1>1, <1>4 DEF Crash, store
  <2>2. tabs' \in Workspace
    BY <1>1, <1>4, Releases DEF Crash
  <2>3. page' \in PageRow /\ page'.at = "loading" /\ page'.generation = 0
    BY <2>1 DEF NewPage, PageRow, Workspace, Binding
  <2>4. cmd' \in [Command -> Request \cup {Absent}] /\ \A b \in Command : cmd'[b] = Absent
    BY <2>1
  <2>5. Typed'
    BY <1>1, <2>1, <2>2, <2>3, <2>4 DEF Typed
  <2>6. QED
    BY <1>1, <2>1, <2>3, <2>4, <2>5
       DEF DeletionInv, OnePage, OneScript, PageAgrees, Script
<1>5. QED
  BY <1>2, <1>3, <1>4

\* The invariant holds at the start.
LEMMA InitDeletionInv == Init => DeletionInv
<1> SUFFICES ASSUME Init PROVE DeletionInv
  OBVIOUS
<1>1. cmd = [c \in Command |-> Absent] /\ page = NewPage(0) /\ deletion = Absent
  BY DEF Init
<1>2. /\ page \in PageRow /\ page.at = "loading" /\ page.generation = 0
      /\ snapshot \in Workspace /\ tabs \in Workspace
  BY <1>1 DEF Init, NewPage, PageRow, Workspace, Binding
<1>3. Typed
  BY <1>1, <1>2 DEF Init, Typed
<1>4. QED
  BY <1>1, <1>2, <1>3 DEF DeletionInv, OnePage, OneScript, PageAgrees, Script

\* Who takes part is settled at the start.
LEMMA RivalsStay == [Next]_vars => UNCHANGED rivals
BY DEF Next, vars, world, Page, bootstrap, deleteProfile, submitProfile, removeSavedSecret,
       queueWorkspaceSave, runAction, Issue, CommandStep, workspace_from_view,
       save_workspace, delete_profile, DeleteChecks, BeginReads, BeginReadsProfile,
       BeginInserts, BeginReturns, VaultDeletes, mark_profile_vault_deleted, FinalizeReads,
       FinalizeReadsProfile, FinalizeReadsTabs, FinalizeCommits, unregister_profile,
       edit_profile, EditReads, SecretStores, SecretErased, save_profile, SecretUndone,
       bootstrap_workspace, BootstrapReadsProfiles, BootstrapReadsTabs, BootstrapRegisters,
       StoreFails, save_history_entry, Reload, Crash

(* DeletionInv but for behaviours where a checkbox changes after the click. *)
Guarded == rivals \in Rivals /\ ("toggle" \notin rivals => DeletionInv)

\* And throughout, while no page is reloaded.
LEMMA DeletionInvariant == ASSUME Reloads = 0 PROVE Spec => []Guarded
<1>1. Init => Guarded
  BY InitDeletionInv DEF Guarded, Init
<1>2. ASSUME DeletionInv, "toggle" \notin rivals, [Next]_vars PROVE DeletionInv'
  <2>1. CASE Page
    BY <1>2, <2>1, PageKeeps
  <2>2. ASSUME NEW c \in Command, CommandStep(c) \/ StoreFails(c) PROVE DeletionInv'
    BY <1>2, <2>2, SaveKeeps, DeleteKeeps, EditKeeps, BootstrapKeeps, FailureKeeps
       DEF CommandStep
  <2>3. CASE save_history_entry \/ Reload \/ Crash
    BY <1>2, <2>3, OthersKeep
  <2>4. CASE UNCHANGED vars
    BY <1>2, <2>4 DEF vars, store, registry, world, DeletionInv, Typed, OnePage, OneScript,
                      PageAgrees, Staged, Script, At, Unregistering, Bound
  <2>5. QED
    BY <1>2, <2>1, <2>2, <2>3, <2>4 DEF Next
<1>3. Guarded /\ [Next]_vars => Guarded'
  BY <1>2, RivalsStay DEF Guarded
<1>4. QED
  BY <1>1, <1>3, PTL DEF Spec

(* Whatever fails and however often the process ends, with the rivals that  *)
(* run has and any number of commands in flight: when nothing is in flight  *)
(* the page, the registry and the store agree about the profile.            *)
THEOREM DeletionLeavesThemAgreeing ==
  ASSUME Reloads = 0, \A v \in Rivals : "toggle" \notin v
  PROVE  Spec => []RegistryFollowsStore
<1>1. Guarded => RegistryFollowsStore
  BY DEF Guarded, DeletionInv, PageAgrees, RegistryFollowsStore, Unregistering, At
<1>2. QED
  BY <1>1, DeletionInvariant, PTL

-----------------------------------------------------------------------------
(* The promise, step by step.  Where rivals act it stutters.                *)

\* A step that moves nothing the promise sees is none of its own.
LEMMA Stutters ==
  ASSUME UNCHANGED rivals,
         Undisturbed => UNCHANGED <<profile, snapshot, history, vault>>,
         Undisturbed => \/ UNCHANGED deletion
                        \/ /\ deletion # Absent /\ deletion' # Absent
                           /\ deletion'.delete_drafts = deletion.delete_drafts
                           /\ deletion'.delete_history = deletion.delete_history
  PROVE  UNCHANGED Promise!vars
BY DEF Promise!vars, Undisturbed

\* The promise's EditSecret, from what the detailed step leaves alone.
LEMMA EditsSecret ==
  ASSUME Undisturbed, profile # Absent, profile' # Absent, deletion = Absent,
         UNCHANGED <<rivals, deletion, snapshot, history>>
  PROVE  Promise!EditSecret
BY DEF Promise!EditSecret, Undisturbed

\* Its Begin: the deletion is written down.
LEMMA Begins ==
  ASSUME Undisturbed, profile # Absent, deletion = Absent, deletion' \in ProfileRow,
         UNCHANGED <<rivals, profile, snapshot, history, vault>>
  PROVE  Promise!Begin
BY DeletionAssumption DEF Promise!Begin, Undisturbed, ProfileRow

\* Its EraseSecret: the secret is out of the vault.
LEMMA Erases ==
  ASSUME Undisturbed, profile # Absent, deletion # Absent, profile \notin vault',
         UNCHANGED <<rivals, profile, deletion, snapshot, history>>
  PROVE  Promise!EraseSecret
BY DEF Promise!EraseSecret, Undisturbed

\* Its Finish: profile, tabs and history go in one transaction.
LEMMA Finishes ==
  ASSUME Undisturbed, profile # Absent, deletion \in ProfileRow, profile \notin vault,
         profile' = Absent, deletion' = Absent, snapshot \in Workspace,
         snapshot' = Release(snapshot, Kept(deletion.delete_drafts)),
         history' = Forget(history, deletion.delete_history), UNCHANGED rivals
  PROVE  Promise!Finish
<1>1. deletion # Absent
  BY DeletionAssumption
<1>2. {t \in QueryTab : snapshot'[t] = "bound"} = {}
  BY DEF Release, Kept, Tab
<1>3. {t \in QueryTab : snapshot'[t] = "offline"} =
        {t \in QueryTab : snapshot[t] = "offline"}
          \cup IF deletion.delete_drafts THEN {} ELSE {t \in QueryTab : snapshot[t] = "bound"}
  <2>1. CASE deletion.delete_drafts
    <3>1. \A t \in QueryTab : snapshot'[t] = "offline" <=> snapshot[t] = "offline"
      BY <2>1 DEF Release, Kept, Tab
    <3>2. QED
      BY <2>1, <3>1
  <2>2. CASE ~deletion.delete_drafts
    <3>1. snapshot' = Release(snapshot, QueryTab)
      BY <2>2 DEF Kept
    <3>2. ASSUME NEW t \in QueryTab
          PROVE  snapshot'[t] = IF snapshot[t] = "bound" THEN "offline" ELSE snapshot[t]
      <4>1. t \in Tab
        BY DEF Tab
      <4>2. CASE snapshot[t] = "bound"
        BY <3>1, <4>1, <4>2 DEF Release
      <4>3. CASE snapshot[t] # "bound"
        BY <3>1, <4>1, <4>3 DEF Release
      <4>4. QED
        BY <4>2, <4>3
    <3>3. QED
      BY <2>2, <3>2
  <2>3. QED
    BY <2>1, <2>2
<1>4. "bound" \notin history'
  BY DEF Forget
<1>5. QED
  BY <1>1, <1>2, <1>3, <1>4 DEF Promise!Finish, Undisturbed

-----------------------------------------------------------------------------
(* A user who does nothing else: the script is alone, and each of its steps *)
(* keeps Consistent and maps to a step of the promise.                      *)

Simulated == Consistent' /\ [Promise!Next]_(Promise!vars)

\* The script of a user who does nothing else has the store to itself.
LEMMA Alone ==
  ASSUME DeletionInv, Consistent, NEW c \in Command, cmd[c] # Absent
  PROVE  Settled(c) /\ \A b \in Command \ {c} : cmd[b] = Absent
BY DEF DeletionInv, Consistent, OneScript, Settled

(* The script goes on; only the transaction writes the tabs.                *)
LEMMA AloneMoves ==
  ASSUME DeletionInv, Consistent, NEW c \in Command, cmd[c] # Absent,
         ~At(c, "delete", "unregister"),
         NEW r \in Request, cmd' = [cmd EXCEPT ![c] = r],
         UNCHANGED <<snapshot, page, registry, unsaved>>, Settled(c)', Owing'
  PROVE  Consistent'
<1>1. /\ cmd \in [Command -> Request \cup {Absent}]
      /\ \A b \in Command \ {c} : cmd[b] = Absent
  BY Alone DEF DeletionInv, Typed
<1>2. cmd'[c] = r /\ \A b \in Command \ {c} : cmd'[b] = Absent
  BY <1>1
<1>3. ~Unregistering
  BY <1>1 DEF Unregistering, At
<1>4. (page.at = "ready" /\ owned /\ ~Unregistering => page.tabs = snapshot)'
  BY <1>3 DEF Consistent, registry
<1>5. \A b \in Command : cmd'[b] # Absent => Settled(b)'
  BY <1>2
<1>6. QED
  BY <1>4, <1>5 DEF Consistent

(* The command is over.                                                     *)
LEMMA AloneAnswers ==
  ASSUME DeletionInv, Consistent, NEW c \in Command, cmd[c] # Absent,
         ~At(c, "delete", "unregister"), cmd[c].op # "bootstrap", Answer(c),
         UNCHANGED <<snapshot, registry, unsaved>>, Owing'
  PROVE  Consistent'
<1>1. /\ cmd \in [Command -> Request \cup {Absent}]
      /\ \A b \in Command \ {c} : cmd[b] = Absent
  BY Alone DEF DeletionInv, Typed
<1>2. UNCHANGED page /\ \A b \in Command : cmd'[b] = Absent
  BY <1>1 DEF Answer, Reply
<1>3. ~Unregistering
  BY <1>1 DEF Unregistering, At
<1>4. (page.at = "ready" /\ owned /\ ~Unregistering => page.tabs = snapshot)'
  BY <1>2, <1>3 DEF Consistent, registry
<1>5. QED
  BY <1>2, <1>4 DEF Consistent

\* Its save writes the tabs that are stored already.
LEMMA AloneSave ==
  ASSUME DeletionInv, Consistent, Undisturbed, NEW c \in Command,
         workspace_from_view(c) \/ save_workspace(c)
  PROVE  Simulated
<1> DEFINE Now == cmd[c]
<1>1. /\ Now # Absent /\ Now \in Request /\ Now.op = "save" /\ Settled(c)
      /\ cmd \in [Command -> Request \cup {Absent}] /\ Absent \notin Request
      /\ UNCHANGED <<profile, deletion, history, vault, registry, world>>
      /\ ~At(c, "delete", "unregister")
  BY Rows, Alone, DeletionAssumption
     DEF workspace_from_view, save_workspace, At, store, DeletionInv, Typed
<1>2. Now.tabs = snapshot /\ Now.next = "delete" /\ Now.generation = page.generation
  BY <1>1 DEF Settled, Script, DeletionInv, Staged, OnePage, Request
<1>3. UNCHANGED <<snapshot, rivals, unsaved>>
  BY <1>1, <1>2 DEF workspace_from_view, save_workspace, store, world
<1>4. UNCHANGED Promise!vars /\ Owing'
  BY <1>1, <1>3, Stutters DEF Owing, Consistent
<1>5. CASE workspace_from_view(c)
  <2> DEFINE r == [Now EXCEPT !.at = "write"]
  <2>1. CASE Answer(c)
    BY <1>1, <1>3, <1>4, <2>1, AloneAnswers DEF Simulated
  <2>2. CASE ~Answer(c)
    <3>1. /\ r \in Request /\ cmd' = [cmd EXCEPT ![c] = r] /\ UNCHANGED page
          /\ r.op = "save" /\ r.tabs = Now.tabs /\ r.next = Now.next
      BY <1>1, <1>5, <2>2 DEF workspace_from_view, Advance, Request
    <3> HIDE DEF r
    <3>2. Settled(c)'
      BY <1>1, <1>2, <1>3, <3>1 DEF Settled, Script, At, Edits
    <3>3. QED
      BY <1>1, <1>3, <1>4, <3>1, <3>2, AloneMoves DEF Simulated
  <2>3. QED
    BY <2>1, <2>2
<1>6. CASE save_workspace(c)
  <2>1. PICK h \in BOOLEAN, d \in BOOLEAN :
          Continue(c, [cmd[c] EXCEPT !.op = "delete", !.at = "check", !.next = "nothing",
                                     !.history = h, !.drafts = d])
    BY <1>2, <1>6 DEF save_workspace
  <2> DEFINE r == [Now EXCEPT !.op = "delete", !.at = "check", !.next = "nothing",
                              !.history = h, !.drafts = d]
  <2>2. r \in Request /\ r.op = "delete" /\ r.at = "check"
    BY <1>1 DEF Request
  <2>3. cmd' = [cmd EXCEPT ![c] = r] /\ UNCHANGED page
    BY <1>2, <2>1 DEF Continue
  <2> HIDE DEF r
  <2>4. Settled(c)'
    BY <1>1, <2>2, <2>3 DEF Settled, Script, At, Edits
  <2>5. QED
    BY <1>1, <1>3, <1>4, <2>2, <2>3, <2>4, AloneMoves DEF Simulated
<1>7. QED
  BY <1>5, <1>6

\* Its delete_profile begins, erases and finishes, in this order.
LEMMA AloneDelete ==
  ASSUME DeletionInv, Consistent, Undisturbed, NEW c \in Command, delete_profile(c)
  PROVE  Simulated
<1> DEFINE Now == cmd[c]
           \* What Settled asks of the script where it is next.
           Fits(at, row) ==
             /\ at \notin {"insert", "commit"}
             /\ at = "vault" => deletion' # Absent /\ row = deletion'
             /\ at = "mark" => deletion' # Absent /\ profile' \notin vault'
             /\ at \in {"finalizeProfile", "finalizeTabs"} =>
                  deletion' # Absent /\ row = deletion' /\ deletion'.vault_deleted
<1> HIDE DEF Fits
<1>1. /\ Now # Absent /\ Now \in Request /\ Now.op = "delete" /\ Settled(c) /\ Staged(c)
      /\ cmd \in [Command -> Request \cup {Absent}] /\ Absent \notin Request
      /\ UNCHANGED world
  BY Rows, Alone, DeletionAssumption
     DEF delete_profile, At, DeletionInv, Typed, DeleteChecks, BeginReads,
         BeginReadsProfile, BeginInserts, BeginReturns, VaultDeletes,
         mark_profile_vault_deleted, FinalizeReads, FinalizeReadsProfile,
         FinalizeReadsTabs, FinalizeCommits, unregister_profile
<1>2. /\ profile \in Reference \cup {Absent} /\ deletion \in ProfileRow \cup {Absent}
      /\ snapshot \in Workspace /\ vault \subseteq Secret
      /\ (profile = Absent <=> Now.at = "unregister")
      /\ UNCHANGED <<unsaved, rivals>> /\ Owing /\ NoSecret \notin Secret
      /\ Absent \notin ProfileRow
  BY <1>1, DeletionAssumption
     DEF DeletionInv, Typed, Staged, Script, At, Consistent, world
<1>3. ASSUME Answer(c), Now.at # "unregister", UNCHANGED <<store, registry, vault>>
      PROVE  Simulated
  <2>1. UNCHANGED Promise!vars /\ Owing' /\ UNCHANGED snapshot
    BY <1>2, <1>3, Stutters DEF Owing, store
  <2>2. QED
    BY <1>1, <1>2, <1>3, <2>1, AloneAnswers DEF At, Simulated
<1>4. ASSUME NEW at, NEW row, Now.at # "unregister", Fits(at, row),
             [Now EXCEPT !.at = at, !.row = row] \in Request,
             cmd' = [cmd EXCEPT ![c] = [Now EXCEPT !.at = at, !.row = row]],
             UNCHANGED <<page, snapshot, registry>>, Owing'
      PROVE  Consistent'
  <2> DEFINE r == [Now EXCEPT !.at = at, !.row = row]
  <2>1. r.op = "delete" /\ r.at = at /\ r.row = row /\ r \in Request /\ cmd' = [cmd EXCEPT ![c] = r]
    BY <1>1, <1>4 DEF Request
  <2> HIDE DEF r
  <2>2. cmd'[c] = r
    BY <1>1, <2>1
  <2>3. Settled(c)'
    BY <1>1, <1>4, <2>1, <2>2 DEF Settled, Script, At, Edits, Fits
  <2>4. QED
    BY <1>1, <1>2, <1>4, <2>1, <2>3, AloneMoves DEF At
<1>5. ASSUME NEW at \in {"beginProfile", "reread", "mark", "finalize", "finalizeTabs"},
             Advance(c, at)
      PROVE  /\ [Now EXCEPT !.at = at, !.row = Now.row] \in Request
             /\ cmd' = [cmd EXCEPT ![c] = [Now EXCEPT !.at = at, !.row = Now.row]]
  BY <1>1, <1>5 DEF Request, Advance
<1>6. ASSUME NEW at \in {"vault", "finalize", "finalizeProfile"},
             NEW row \in ProfileRow, cmd' = [cmd EXCEPT ![c].row = row, ![c].at = at]
      PROVE  /\ [Now EXCEPT !.at = at, !.row = row] \in Request
             /\ cmd' = [cmd EXCEPT ![c] = [Now EXCEPT !.at = at, !.row = row]]
  BY <1>1, <1>6 DEF Request
<1>7. ASSUME UNCHANGED <<store, vault>>
      PROVE  UNCHANGED Promise!vars /\ Owing' /\ UNCHANGED <<profile, deletion, snapshot>>
  BY <1>2, <1>7, Stutters DEF Owing, store
<1>10. CASE DeleteChecks(c)
  <2>1. Now.at = "check" /\ UNCHANGED <<store, vault, registry>>
    BY <1>10 DEF DeleteChecks, At
  <2>2. CASE Answer(c)
    BY <1>3, <2>1, <2>2
  <2>3. CASE ~Answer(c)
    <3> DEFINE r == [Now EXCEPT !.at = "begin", !.keep = Kept(Now.drafts) \cap Bound(snapshot)]
    <3>1. cmd' = [cmd EXCEPT ![c] = r] /\ UNCHANGED page
      BY <1>1, <1>10, <2>3 DEF DeleteChecks
    <3>2. Kept(Now.drafts) \cap Bound(snapshot) \in SUBSET QueryTab
      BY DEF Kept
    <3>3. r \in Request /\ r.op = "delete" /\ r.at = "begin"
      BY <1>1, <3>2 DEF Request
    <3> HIDE DEF r
    <3>4. Settled(c)'
      BY <1>1, <3>1, <3>3 DEF Settled, Script, At, Edits
    <3>5. QED
      BY <1>1, <1>2, <1>7, <2>1, <3>1, <3>3, <3>4, AloneMoves DEF At, Simulated
  <2>4. QED
    BY <2>2, <2>3
<1>11. ASSUME deletion # Absent, TakeUp(c), Now.at \in {"begin", "reread"},
              UNCHANGED <<store, vault, registry>>
       PROVE  Simulated
  <2> DEFINE at == IF deletion.vault_deleted THEN "finalize" ELSE "vault"
  <2>1. cmd' = [cmd EXCEPT ![c].row = deletion, ![c].at = at] /\ UNCHANGED page
    BY <1>11 DEF TakeUp
  <2>2. deletion \in ProfileRow /\ at \in {"finalize", "vault"}
    BY <1>2, <1>11
  <2> HIDE DEF at
  <2>3. /\ [Now EXCEPT !.at = at, !.row = deletion] \in Request
        /\ cmd' = [cmd EXCEPT ![c] = [Now EXCEPT !.at = at, !.row = deletion]]
    BY <1>6, <2>1, <2>2
  <2>4. Fits(at, deletion)
    BY <1>7, <1>11, <2>2 DEF Fits
  <2>5. Consistent'
    BY <1>4, <1>7, <1>11, <2>1, <2>3, <2>4
  <2>6. QED
    BY <1>7, <1>11, <2>5 DEF Simulated
<1>12. CASE BeginReads(c)
  <2>1. Now.at = "begin" /\ UNCHANGED <<store, vault, registry>>
    BY <1>12 DEF BeginReads, At
  <2>2. CASE deletion # Absent
    BY <1>11, <1>12, <2>1, <2>2 DEF BeginReads
  <2>3. CASE deletion = Absent
    <3>1. Advance(c, "beginProfile") /\ UNCHANGED page /\ Fits("beginProfile", Now.row)
      BY <1>12, <2>3 DEF BeginReads, Fits
    <3>2. QED
      BY <1>4, <1>5, <1>7, <2>1, <3>1 DEF Simulated
  <2>4. QED
    BY <2>2, <2>3
<1>13. CASE BeginReadsProfile(c)
  <2>1. Now.at = "beginProfile" /\ UNCHANGED <<store, vault, registry>> /\ profile # Absent
    BY <1>2, <1>13 DEF BeginReadsProfile, At
  <2> DEFINE r == [Now EXCEPT !.row = NewRow(c), !.at = "insert"]
  <2>2. NewRow(c) \in ProfileRow
    BY <1>1, <1>2, <2>1 DEF NewRow, ProfileRow, Request
  <2>3. cmd' = [cmd EXCEPT ![c] = r] /\ UNCHANGED page
    BY <1>1, <1>13, <2>1 DEF BeginReadsProfile
  <2>4. r \in Request /\ r.op = "delete" /\ r.at = "insert" /\ r.row = NewRow(c)
    BY <1>1, <2>2 DEF Request
  <2> HIDE DEF r
  <2>5. cmd'[c] = r /\ UNCHANGED profile
    BY <1>1, <2>1, <2>3 DEF store
  <2>6. /\ r.row.secret_reference = profile' /\ r # Absent
        /\ r.row.vault_deleted => profile' = NoSecret
    <3>1. /\ NewRow(c).secret_reference = profile
          /\ NewRow(c).vault_deleted = (profile = NoSecret)
      BY DEF NewRow
    <3>2. QED
      BY <1>1, <2>4, <2>5, <3>1
  <2>7. Settled(c)'
    BY <2>4, <2>5, <2>6 DEF Settled, Script, At, Edits
  <2>8. QED
    BY <1>1, <1>2, <1>7, <2>1, <2>3, <2>4, <2>7, AloneMoves DEF At, Simulated
<1>14. CASE BeginInserts(c)
  <2>1. /\ Now.at = "insert" /\ UNCHANGED <<profile, snapshot, history, vault, registry>>
        /\ profile # Absent /\ Now.row \in ProfileRow
    BY <1>1, <1>2, <1>14 DEF BeginInserts, At, Staged
  <2>2. CASE deletion # Absent
    BY <1>3, <1>14, <2>1, <2>2 DEF BeginInserts, store
  <2>3. CASE deletion = Absent
    <3>1. deletion' = Now.row /\ Advance(c, "reread") /\ UNCHANGED page
      BY <1>14, <2>3 DEF BeginInserts
    <3>2. Owing'
      BY <1>1, <1>2, <2>1, <3>1 DEF Owing, Settled, At
    <3>3. Fits("reread", Now.row)
      BY DEF Fits
    <3>4. Consistent'
      BY <1>4, <1>5, <2>1, <3>1, <3>2, <3>3
    <3>5. Promise!Begin
      BY <1>2, <2>1, <2>3, <3>1, Begins
    <3>6. QED
      BY <3>4, <3>5 DEF Simulated, Promise!Next
  <2>4. QED
    BY <2>2, <2>3
<1>15. CASE BeginReturns(c)
  <2>1. Now.at = "reread" /\ UNCHANGED <<store, vault, registry>>
    BY <1>15 DEF BeginReturns, At
  <2>2. CASE deletion # Absent
    BY <1>11, <1>15, <2>1, <2>2 DEF BeginReturns
  <2>3. CASE deletion = Absent
    BY <1>3, <1>15, <2>1, <2>3 DEF BeginReturns
  <2>4. QED
    BY <2>2, <2>3
<1>16. CASE VaultDeletes(c)
  <2>1. /\ Now.at = "vault" /\ UNCHANGED <<store, registry>> /\ profile # Absent
        /\ deletion # Absent /\ Now.row = deletion /\ deletion.secret_reference = profile
    BY <1>1, <1>2, <1>16 DEF VaultDeletes, At, Settled, Owing
  <2>2. CASE Answer(c) /\ UNCHANGED vault
    BY <1>3, <2>1, <2>2
  <2>3. CASE ~(Answer(c) /\ UNCHANGED vault)
    <3>1. vault' = vault \ {profile} /\ Advance(c, "mark") /\ UNCHANGED page
      BY <1>16, <2>1, <2>3 DEF VaultDeletes
    <3>2. profile \notin vault' /\ UNCHANGED <<profile, deletion, snapshot, history>>
      BY <2>1, <3>1 DEF store
    <3>3. Owing'
      BY <1>2, <3>2 DEF Owing
    <3>4. Fits("mark", Now.row)
      BY <2>1, <3>2 DEF Fits
    <3>5. Consistent'
      BY <1>4, <1>5, <2>1, <3>1, <3>2, <3>3, <3>4
    <3>6. Promise!EraseSecret
      BY <1>2, <2>1, <3>2, Erases
    <3>7. QED
      BY <3>5, <3>6 DEF Simulated, Promise!Next
  <2>4. QED
    BY <2>2, <2>3
<1>17. CASE mark_profile_vault_deleted(c)
  <2>1. /\ Now.at = "mark" /\ UNCHANGED <<profile, snapshot, history, vault, registry>>
        /\ deletion \in ProfileRow /\ profile \notin vault
    BY <1>1, <1>2, <1>17 DEF mark_profile_vault_deleted, At, Settled
  <2>2. /\ deletion' = [deletion EXCEPT !.vault_deleted = TRUE]
        /\ Advance(c, "finalize") /\ UNCHANGED page
    BY <1>2, <1>17, <2>1 DEF mark_profile_vault_deleted
  <2>3. /\ deletion' \in ProfileRow /\ deletion'.secret_reference = deletion.secret_reference
        /\ deletion'.delete_drafts = deletion.delete_drafts
        /\ deletion'.delete_history = deletion.delete_history
    BY <2>1, <2>2 DEF ProfileRow
  <2>4. deletion # Absent /\ deletion' # Absent
    BY <1>2, <2>1, <2>3
  <2>5. Owing'
    BY <1>2, <2>1, <2>3, <2>4 DEF Owing
  <2>6. Fits("finalize", Now.row)
    BY DEF Fits
  <2>7. Consistent'
    BY <1>4, <1>5, <2>1, <2>2, <2>5, <2>6
  <2>8. UNCHANGED Promise!vars
    BY <1>2, <2>1, <2>3, <2>4, Stutters
  <2>9. QED
    BY <2>7, <2>8 DEF Simulated
<1>18. CASE FinalizeReads(c)
  <2>1. Now.at = "finalize" /\ UNCHANGED <<store, vault, registry>>
    BY <1>18 DEF FinalizeReads, At
  <2>2. CASE Answer(c)
    BY <1>3, <2>1, <2>2
  <2>3. CASE ~Answer(c)
    <3>1. /\ deletion \in ProfileRow /\ UNCHANGED page /\ deletion # Absent
          /\ deletion.vault_deleted
          /\ cmd' = [cmd EXCEPT ![c].row = deletion, ![c].at = "finalizeProfile"]
      BY <1>2, <1>18, <2>3 DEF FinalizeReads
    <3>2. /\ [Now EXCEPT !.at = "finalizeProfile", !.row = deletion] \in Request
          /\ cmd' = [cmd EXCEPT ![c] = [Now EXCEPT !.at = "finalizeProfile", !.row = deletion]]
      BY <1>6, <3>1
    <3>3. Fits("finalizeProfile", deletion)
      BY <1>7, <2>1, <3>1 DEF Fits
    <3>4. Consistent'
      BY <1>4, <1>7, <2>1, <3>1, <3>2, <3>3
    <3>5. QED
      BY <1>7, <2>1, <3>4 DEF Simulated
  <2>4. QED
    BY <2>2, <2>3
<1>19. CASE FinalizeReadsProfile(c)
  <2>1. /\ Now.at = "finalizeProfile" /\ UNCHANGED <<store, vault, registry>>
        /\ Advance(c, "finalizeTabs") /\ UNCHANGED page
        /\ deletion # Absent /\ Now.row = deletion /\ deletion.vault_deleted
    BY <1>1, <1>2, <1>19 DEF FinalizeReadsProfile, At, Settled
  <2>2. Fits("finalizeTabs", Now.row)
    BY <1>7, <2>1 DEF Fits
  <2>3. Consistent'
    BY <1>4, <1>5, <1>7, <2>1, <2>2
  <2>4. QED
    BY <1>7, <2>1, <2>3 DEF Simulated
<1>20. CASE FinalizeReadsTabs(c)
  <2> DEFINE ws == Release(snapshot, Kept(deletion.delete_drafts))
             r == [Now EXCEPT !.tabs = ws, !.at = "commit"]
  <2>1. /\ Now.at = "finalizeTabs" /\ UNCHANGED <<store, vault, registry, page>>
        /\ deletion # Absent /\ Now.row = deletion /\ deletion.vault_deleted
        /\ cmd' = [cmd EXCEPT ![c] = r]
    BY <1>1, <1>20 DEF FinalizeReadsTabs, At, Settled
  <2>2. ws \in Workspace /\ UNCHANGED <<deletion, snapshot>>
    BY <1>2, <2>1, Releases DEF store
  <2>3. ws' = ws
    BY <2>2
  <2> HIDE DEF ws
  <2>4. /\ r \in Request /\ r.op = "delete" /\ r.at = "commit" /\ r.row = deletion
        /\ r.tabs = ws
    BY <1>1, <2>1, <2>2 DEF Request
  <2> HIDE DEF r
  <2>5. cmd'[c] = r /\ r # Absent /\ r.tabs = Release(snapshot, Kept(deletion.delete_drafts))'
    BY <1>1, <2>1, <2>3, <2>4 DEF ws
  <2>6. Settled(c)'
    BY <2>1, <2>2, <2>4, <2>5 DEF Settled, Script, At, Edits
  <2>7. QED
    BY <1>1, <1>2, <1>7, <2>1, <2>2, <2>4, <2>6, AloneMoves DEF At, Simulated
<1>21. CASE FinalizeCommits(c)
  <2>1. /\ Now.at = "commit" /\ UNCHANGED <<vault, registry, page>>
        /\ snapshot' = Now.tabs /\ history' = Forget(history, Now.row.delete_history)
        /\ profile' = Absent /\ deletion' = Absent /\ profile # Absent
        /\ Now.row = deletion /\ deletion \in ProfileRow /\ deletion.vault_deleted
        /\ Now.tabs = Release(snapshot, Kept(deletion.delete_drafts))
    BY <1>1, <1>2, <1>21 DEF FinalizeCommits, At, Settled
  <2>2. profile \notin vault
    BY <1>2, <2>1 DEF Owing
  <2>3. Promise!Finish
    BY <1>2, <2>1, <2>2, Finishes
  <2> DEFINE r == [Now EXCEPT !.at = "unregister"]
  <2>4. /\ r \in Request /\ r.op = "delete" /\ r.at = "unregister"
        /\ cmd' = [cmd EXCEPT ![c] = r]
    BY <1>1, <1>21 DEF Request, FinalizeCommits, Advance
  <2> HIDE DEF r
  <2>5. /\ cmd'[c] = r /\ r # Absent
        /\ \A b \in Command \ {c} : cmd'[b] = Absent
    BY <1>1, <2>4, Alone
  <2>6. Unregistering' /\ Settled(c)'
    BY <2>4, <2>5 DEF Unregistering, Settled, Script, At, Edits
  <2>7. ~unsaved'
    BY <1>2 DEF Consistent
  <2>8. Consistent'
    BY <2>1, <2>5, <2>6, <2>7 DEF Consistent, Owing
  <2>9. QED
    BY <2>3, <2>8 DEF Simulated, Promise!Next
<1>22. CASE unregister_profile(c)
  <2>1. owned' = FALSE /\ UNCHANGED <<store, vault>> /\ cmd'[c] = Absent
    BY <1>1, <1>22 DEF unregister_profile, Answer, Reply
  <2>2. \A b \in Command : cmd'[b] = Absent
    BY <1>1, <1>22, <2>1, Alone DEF unregister_profile, Answer, Reply
  <2>3. ~unsaved'
    BY <1>2 DEF Consistent
  <2>4. Consistent'
    BY <1>7, <2>1, <2>2, <2>3 DEF Consistent
  <2>5. QED
    BY <1>7, <2>1, <2>4 DEF Simulated
<1>23. QED
  BY <1>10, <1>12, <1>13, <1>14, <1>15, <1>16, <1>17, <1>18, <1>19, <1>20, <1>21, <1>22
     DEF delete_profile

\* An edit changes the secret of a profile nobody is deleting.
LEMMA AloneEdit ==
  ASSUME DeletionInv, Consistent, Undisturbed, NEW c \in Command, edit_profile(c)
  PROVE  Simulated
<1> DEFINE Now == cmd[c]
<1>1. /\ Now # Absent /\ Now \in Request /\ Now.op \in Edits /\ Settled(c) /\ Staged(c)
      /\ cmd \in [Command -> Request \cup {Absent}] /\ Absent \notin Request
      /\ UNCHANGED <<deletion, snapshot, history, registry, world>>
      /\ Now.op # "bootstrap" /\ ~At(c, "delete", "unregister")
  BY Rows, Alone, DeletionAssumption
     DEF edit_profile, EditReads, SecretStores, SecretErased, save_profile, SecretUndone,
         At, Edits, DeletionInv, store, Typed
<1>2. /\ deletion = Absent /\ profile # Absent /\ UNCHANGED <<unsaved, rivals>>
      /\ profile \in Reference
  BY <1>1 DEF Settled, Staged, Script, At, Edits, world, DeletionInv, Typed
<1>3. profile' # Absent
  BY <1>1, <1>2, DeletionAssumption
     DEF edit_profile, EditReads, SecretStores, SecretErased, save_profile, SecretUndone,
         store, Request, Reference
<1>4. Promise!EditSecret /\ Owing'
  BY <1>1, <1>2, <1>3, EditsSecret DEF Owing
<1>5. CASE Answer(c)
  BY <1>1, <1>2, <1>4, <1>5, AloneAnswers DEF Simulated, Promise!Next
<1>6. ASSUME NEW r \in Request, r.op \in Edits, cmd' = [cmd EXCEPT ![c] = r], UNCHANGED page
      PROVE  Simulated
  <2>1. cmd'[c] = r /\ r # Absent /\ deletion' = Absent
    BY <1>1, <1>2, <1>6
  <2>2. Settled(c)'
    BY <1>6, <2>1 DEF Settled, Script, At, Edits
  <2>3. QED
    BY <1>1, <1>2, <1>4, <1>6, <2>2, AloneMoves DEF Simulated, Promise!Next
<1>7. CASE EditReads(c) /\ ~Answer(c)
  <2>1. PICK ref \in IF Now.op = "secret" /\ profile = NoSecret THEN Fresh(c) ELSE {profile} :
          cmd' = [cmd EXCEPT ![c].ref = ref, ![c].row = profile,
                             ![c].at = CASE Now.op = "secret" -> "store"
                                         [] Now.op = "remove" /\ ref # NoSecret -> "erase"
                                         [] OTHER -> "write"]
    BY <1>7 DEF EditReads
  <2> DEFINE at == CASE Now.op = "secret" -> "store"
                     [] Now.op = "remove" /\ ref # NoSecret -> "erase"
                     [] OTHER -> "write"
             r == [Now EXCEPT !.ref = ref, !.row = profile, !.at = at]
  <2>2. at \in {"store", "erase", "write"} /\ ref \in Reference /\ UNCHANGED page
    BY <1>2, <1>7 DEF Fresh, Reference, EditReads
  <2>3. cmd' = [cmd EXCEPT ![c] = r]
    BY <2>1
  <2> HIDE DEF at
  <2>4. r \in Request /\ r.op = Now.op
    BY <1>1, <1>2, <2>2 DEF Request
  <2> HIDE DEF r
  <2>5. QED
    BY <1>1, <1>6, <2>2, <2>3, <2>4
<1>8. CASE (SecretStores(c) \/ SecretErased(c)) /\ ~Answer(c)
  <2> DEFINE r == [Now EXCEPT !.at = "write"]
  <2>1. /\ r \in Request /\ r.op = Now.op /\ cmd' = [cmd EXCEPT ![c] = r] /\ UNCHANGED page
    BY <1>1, <1>8 DEF Request, SecretStores, SecretErased, Advance
  <2> HIDE DEF r
  <2>2. QED
    BY <1>1, <1>6, <2>1
<1>9. CASE save_profile(c) /\ ~Answer(c)
  <2> DEFINE r == [Now EXCEPT !.op = "secret", !.at = "read", !.next = "nothing"]
  <2>1. r \in Request /\ r.op = "secret"
    BY <1>1 DEF Request
  <2>2. Now.generation = page.generation
    BY <1>1 DEF DeletionInv, OnePage
  <2>3. cmd' = [cmd EXCEPT ![c] = r] /\ UNCHANGED page
    BY <1>9, <2>2 DEF save_profile, Continue
  <2> HIDE DEF r
  <2>4. QED
    BY <1>6, <2>1, <2>3 DEF Edits
<1>10. QED
  BY <1>5, <1>7, <1>8, <1>9 DEF edit_profile, SecretUndone

\* A start goes on with the deletion it finds.
LEMMA AloneBootstrap ==
  ASSUME DeletionInv, Consistent, Undisturbed, NEW c \in Command, bootstrap_workspace(c)
  PROVE  Simulated
<1> DEFINE Now == cmd[c]
<1>1. /\ Now # Absent /\ Now \in Request /\ Now.op = "bootstrap" /\ Settled(c)
      /\ cmd \in [Command -> Request \cup {Absent}] /\ Absent \notin Request
      /\ \A b \in Command \ {c} : cmd[b] = Absent
      /\ UNCHANGED <<store, vault, world>>
  BY Rows, Alone, DeletionAssumption
     DEF bootstrap_workspace, BootstrapReadsProfiles, BootstrapReadsTabs,
         BootstrapRegisters, At, DeletionInv, Typed
<1>2. UNCHANGED <<unsaved, rivals, snapshot>> /\ snapshot \in Workspace /\ ~unsaved'
  BY <1>1 DEF store, world, DeletionInv, Typed, Consistent
<1>3. UNCHANGED Promise!vars /\ Owing'
  BY <1>1, <1>2, Stutters DEF Owing, store, Consistent
<1>4. ~At(c, "delete", "unregister")
  BY <1>1 DEF At
<1>5. CASE BootstrapReadsProfiles(c)
  <2> DEFINE r == [Now EXCEPT !.listed = profile # Absent, !.at = "workspace"]
  <2>1. /\ r \in Request /\ cmd' = [cmd EXCEPT ![c] = r] /\ UNCHANGED <<page, registry>>
        /\ r.op = "bootstrap" /\ r.at = "workspace"
    BY <1>1, <1>5 DEF Request, BootstrapReadsProfiles
  <2> HIDE DEF r
  <2>2. Settled(c)'
    BY <1>1, <2>1 DEF Settled, Script, At, Edits
  <2>3. QED
    BY <1>1, <1>2, <1>3, <1>4, <2>1, <2>2, AloneMoves DEF Simulated
<1>6. CASE BootstrapReadsTabs(c)
  <2> DEFINE r == [Now EXCEPT !.tabs = snapshot, !.at = "register"]
  <2>1. /\ r \in Request /\ cmd' = [cmd EXCEPT ![c] = r] /\ UNCHANGED <<page, registry>>
        /\ r.op = "bootstrap" /\ r.at = "register" /\ r.tabs = snapshot
    BY <1>1, <1>2, <1>6 DEF Request, BootstrapReadsTabs
  <2> HIDE DEF r
  <2>2. Settled(c)'
    BY <1>1, <1>2, <2>1 DEF Settled, Script, At, Edits
  <2>3. QED
    BY <1>1, <1>2, <1>3, <1>4, <2>1, <2>2, AloneMoves DEF Simulated
<1>7. CASE BootstrapRegisters(c)
  <2>1. Now.tabs = snapshot
    BY <1>1, <1>7 DEF BootstrapRegisters, At, Settled
  <2>2. page \in PageRow /\ Now.generation = page.generation
    BY <1>1 DEF DeletionInv, Typed, OnePage
  <2>3. \A b \in Command : cmd'[b] = Absent
    BY <1>1, <1>7 DEF BootstrapRegisters, Reply
  <2>4. page'.at = "ready" => page'.tabs = snapshot
    BY <1>7, <2>1, <2>2 DEF BootstrapRegisters, Reply, PageRow
  <2>5. Consistent'
    BY <1>2, <1>3, <2>3, <2>4 DEF Consistent
  <2>6. QED
    BY <1>3, <2>5 DEF Simulated
<1>8. QED
  BY <1>5, <1>6, <1>7 DEF bootstrap_workspace

\* A store that fails has changed nothing.
LEMMA AloneFails ==
  ASSUME DeletionInv, Consistent, Undisturbed, NEW c \in Command, StoreFails(c)
  PROVE  Simulated
<1> DEFINE Now == cmd[c]
<1>1. /\ Now # Absent /\ Now \in Request /\ <<Now.op, Now.at>> \in StoreSteps /\ Settled(c)
      /\ cmd \in [Command -> Request \cup {Absent}] /\ Absent \notin Request
      /\ \A b \in Command \ {c} : cmd[b] = Absent
      /\ UNCHANGED <<store, vault, registry, world>>
  BY Rows, Alone, DeletionAssumption DEF StoreFails, DeletionInv, Typed
<1>2. UNCHANGED <<unsaved, rivals, snapshot>> /\ ~unsaved'
  BY <1>1 DEF store, world, Consistent
<1>3. UNCHANGED Promise!vars /\ Owing' /\ UNCHANGED deletion
  BY <1>1, <1>2, Stutters DEF Owing, store, Consistent
<1>4. ~At(c, "delete", "unregister")
  BY <1>1 DEF At, StoreSteps
<1>5. CASE Now.op = "secret" /\ Now.at = "write" /\ Now.row = NoSecret
  <2> DEFINE r == [Now EXCEPT !.at = "undo"]
  <2>1. /\ r \in Request /\ cmd' = [cmd EXCEPT ![c] = r] /\ UNCHANGED page
        /\ r.op = "secret" /\ r.at = "undo"
    BY <1>1, <1>5 DEF Request, StoreFails, Advance
  <2> HIDE DEF r
  <2>2. cmd'[c] = r /\ r # Absent /\ deletion' = Absent
    BY <1>1, <1>3, <1>5, <2>1 DEF Settled, Edits
  <2>3. Settled(c)'
    BY <2>1, <2>2 DEF Settled, Script, At, Edits
  <2>4. QED
    BY <1>1, <1>2, <1>3, <1>4, <2>1, <2>3, AloneMoves DEF Simulated
<1>6. CASE Now.op = "bootstrap"
  <2>1. page \in PageRow /\ Now.generation = page.generation
    BY <1>1 DEF DeletionInv, Typed, OnePage
  <2>2. \A b \in Command : cmd'[b] = Absent
    BY <1>1, <1>6 DEF StoreFails, Reply
  <2>3. page'.at = "failed"
    BY <1>6, <2>1 DEF StoreFails, Reply, PageRow
  <2>4. Consistent'
    BY <1>2, <1>3, <2>2, <2>3 DEF Consistent
  <2>5. QED
    BY <1>3, <2>4 DEF Simulated
<1>7. CASE Now.op # "bootstrap" /\ ~(Now.op = "secret" /\ Now.at = "write" /\ Now.row = NoSecret)
  <2>1. Answer(c)
    BY <1>7 DEF StoreFails, Answer
  <2>2. QED
    BY <1>1, <1>2, <1>3, <1>4, <1>7, <2>1, AloneAnswers DEF Simulated
<1>8. QED
  BY <1>5, <1>6, <1>7

(* A command of the page carries the tabs that are stored.                  *)
LEMMA AloneIssues ==
  ASSUME DeletionInv, Consistent, Undisturbed, NEW c \in Command, NEW r \in Request,
         runAction(c, r), r.tabs = page.tabs, r.op # "bootstrap", r.op # "delete",
         r.op # "save" \/ r.next # "nothing", r.op \in Edits => deletion = Absent
  PROVE  Simulated
<1>1. /\ page.at = "ready" /\ page.listed /\ cmd[c] = Absent /\ cmd' = [cmd EXCEPT ![c] = r]
      /\ UNCHANGED <<store, vault, registry, page, world>>
      /\ cmd \in [Command -> Request \cup {Absent}] /\ Absent \notin Request
  BY DeletionAssumption DEF runAction, Issue, DeletionInv, Typed
<1>2. \A b \in Command : cmd[b] = Absent
  BY DEF runAction, busy, DeletionInv, OnePage, Consistent, Settled, Script
<1>3. /\ owned /\ page.tabs = snapshot
  BY <1>1, <1>2 DEF DeletionInv, PageAgrees, Consistent, Unregistering, At
<1>4. UNCHANGED <<profile, deletion, snapshot, unsaved, rivals>>
  BY <1>1 DEF store, world
<1>5. UNCHANGED Promise!vars /\ Owing' /\ ~unsaved'
  BY <1>1, <1>4, Stutters DEF Owing, store, Consistent
<1>6. cmd'[c] = r /\ \A b \in Command \ {c} : cmd'[b] = Absent
  BY <1>1, <1>2
<1>7. Settled(c)'
  BY <1>1, <1>3, <1>4, <1>6 DEF Settled, Script, At, Edits
<1>8. Consistent'
  BY <1>1, <1>3, <1>4, <1>5, <1>6, <1>7 DEF Consistent
<1>9. QED
  BY <1>5, <1>8 DEF Simulated

\* The page changes nothing the promise sees.
LEMMA AlonePage == ASSUME DeletionInv, Consistent, Undisturbed, Page PROVE Simulated
<1>0. /\ Blank \in Request /\ Blank.op = "bootstrap" /\ Blank.next = "nothing"
      /\ Blank.tabs = page.tabs
  BY BlankTyped
<1>1. PICK c \in Command : \/ bootstrap(c) \/ deleteProfile(c) \/ submitProfile(c)
                           \/ removeSavedSecret(c)
  BY DEF Page, queueWorkspaceSave, Undisturbed
<1>2. CASE bootstrap(c)
  <2>1. /\ page.at = "loading" /\ page' = [page EXCEPT !.at = "bootstrapping"]
        /\ cmd' = [cmd EXCEPT ![c] = Blank] /\ page \in PageRow
        /\ cmd \in [Command -> Request \cup {Absent}] /\ Absent \notin Request
    BY <1>2, DeletionAssumption DEF bootstrap, DeletionInv, Typed
  <2>2. UNCHANGED <<profile, deletion, snapshot, history, vault, unsaved, rivals>>
    BY <1>2 DEF bootstrap, store, world
  <2>3. UNCHANGED Promise!vars /\ Owing' /\ ~unsaved'
    BY <2>2, Stutters DEF Owing, Consistent
  <2>4. \A b \in Command : cmd[b] = Absent
    BY <2>1 DEF DeletionInv, Staged
  <2>5. cmd'[c] = Blank /\ \A b \in Command \ {c} : cmd'[b] = Absent
    BY <2>1, <2>4
  <2>6. page'.at = "bootstrapping"
    BY <2>1 DEF PageRow
  <2>7. Settled(c)'
    BY <1>0, <2>1, <2>5 DEF Settled, Script, At, Edits, Blank
  <2>8. Consistent'
    BY <2>3, <2>5, <2>6, <2>7 DEF Consistent
  <2>9. QED
    BY <2>3, <2>8 DEF Simulated
<1>3. CASE deleteProfile(c)
  <2>1. PICK h \in BOOLEAN, d \in BOOLEAN :
          runAction(c, [Blank EXCEPT !.op = "save", !.at = "check", !.next = "delete",
                                     !.history = h, !.drafts = d, !.shown_drafts = d])
    BY <1>3 DEF deleteProfile
  <2> DEFINE r == [Blank EXCEPT !.op = "save", !.at = "check", !.next = "delete",
                                !.history = h, !.drafts = d, !.shown_drafts = d]
  <2>2. r \in Request /\ r.op = "save" /\ r.next = "delete" /\ r.tabs = page.tabs
    BY <1>0 DEF Request
  <2>3. runAction(c, r)
    BY <2>1
  <2> HIDE DEF r
  <2>4. QED
    BY <2>2, <2>3, AloneIssues DEF Edits
<1>4. CASE submitProfile(c)
  <2>1. PICK next \in {"nothing", "secret"} :
          runAction(c, [Blank EXCEPT !.op = "update", !.at = "read", !.next = next])
    BY <1>4 DEF submitProfile
  <2> DEFINE r == [Blank EXCEPT !.op = "update", !.at = "read", !.next = next]
  <2>2. r \in Request /\ r.op = "update" /\ r.tabs = page.tabs
    BY <1>0 DEF Request
  <2>3. runAction(c, r) /\ deletion = Absent
    BY <1>4, <2>1 DEF submitProfile, MayEdit, Undisturbed
  <2> HIDE DEF r
  <2>4. QED
    BY <2>2, <2>3, AloneIssues
<1>5. CASE removeSavedSecret(c)
  <2> DEFINE r == [Blank EXCEPT !.op = "remove", !.at = "read"]
  <2>1. r \in Request /\ r.op = "remove" /\ r.tabs = page.tabs
    BY <1>0 DEF Request
  <2>2. runAction(c, r) /\ deletion = Absent
    BY <1>5 DEF removeSavedSecret, MayEdit, Undisturbed
  <2> HIDE DEF r
  <2>3. QED
    BY <2>1, <2>2, AloneIssues
<1>6. QED
  BY <1>1, <1>2, <1>3, <1>4, <1>5

\* Nor do the history and a crash.
LEMMA AloneOthers ==
  ASSUME DeletionInv, Consistent, Undisturbed, save_history_entry \/ Reload \/ Crash,
         Reloads = 0
  PROVE  Simulated
<1>1. page \in PageRow /\ page.generation = 0 /\ ~unsaved /\ Owing
  BY DEF DeletionInv, Typed, OnePage, Consistent
<1>2. /\ page'.at = "loading" /\ ~unsaved' /\ \A b \in Command : cmd'[b] = Absent
      /\ UNCHANGED <<profile, deletion, snapshot, history, vault, rivals>>
  <2>1. ~save_history_entry
    BY <1>1 DEF save_history_entry
  <2>2. CASE Reload
    <3>1. page.at = "failed" /\ page' = NewPage(0)
      BY <1>1, <2>2 DEF Reload
    <3>2. \A b \in Command : cmd[b] = Absent
      BY <3>1 DEF DeletionInv, Staged
    <3>3. QED
      BY <1>1, <2>2, <3>1, <3>2 DEF Reload, NewPage, store, world
  <2>3. CASE Crash
    BY <2>3 DEF Crash, NewPage, store
  <2>4. QED
    BY <2>1, <2>2, <2>3
<1>3. UNCHANGED Promise!vars /\ Owing'
  BY <1>1, <1>2, Stutters DEF Owing
<1>4. QED
  BY <1>2, <1>3 DEF Simulated, Consistent

\* Nor does a step that changes nothing.
LEMMA AloneStutters ==
  ASSUME DeletionInv, Consistent, UNCHANGED vars
  PROVE  Simulated
<1>1. /\ UNCHANGED <<profile, deletion, snapshot, history, vault, rivals, owned, unsaved>>
      /\ UNCHANGED <<cmd, page>>
  BY DEF vars, store, registry, world
<1>2. Consistent'
  BY <1>1 DEF Consistent, Owing, Settled, Script, At, Unregistering
<1>3. UNCHANGED Promise!vars
  BY <1>1, Stutters
<1>4. QED
  BY <1>2, <1>3 DEF Simulated

\* Every step is one of the promise's, or none.
LEMMA StepIsPromised ==
  ASSUME Reloads = 0, Guarded, AloneInv, [Next]_vars
  PROVE  AloneInv' /\ [Promise!Next]_(Promise!vars)
<1>1. UNCHANGED rivals /\ Undisturbed' = Undisturbed
  BY RivalsStay DEF Undisturbed
<1>2. CASE ~Undisturbed
  BY <1>1, <1>2, Stutters DEF AloneInv
<1>3. CASE Undisturbed
  <2>1. Consistent /\ DeletionInv
    BY <1>3 DEF AloneInv, Guarded, Undisturbed
  <2>2. CASE Page
    BY <1>3, <2>1, <2>2, AlonePage DEF Simulated, AloneInv
  <2>3. ASSUME NEW c \in Command, CommandStep(c) \/ StoreFails(c) PROVE Simulated
    BY <1>3, <2>1, <2>3, AloneSave, AloneDelete, AloneEdit, AloneBootstrap, AloneFails
       DEF CommandStep
  <2>4. CASE save_history_entry \/ Reload \/ Crash
    BY <1>3, <2>1, <2>4, AloneOthers DEF Simulated, AloneInv
  <2>5. CASE UNCHANGED vars
    BY <2>1, <2>5, AloneStutters DEF Simulated, AloneInv
  <2>6. QED
    BY <2>2, <2>3, <2>4, <2>5 DEF Next, Simulated, AloneInv
<1>4. QED
  BY <1>2, <1>3

(* The commands keep the promise of DeletionPromise: a deletion is made     *)
(* durable before the credential goes, the credential is gone before the    *)
(* metadata, drafts and history fare as was chosen when it began, all at    *)
(* once, and what is gone stays gone - through failures of the store and    *)
(* of the vault, ends of the process and retries, for a user who meanwhile  *)
(* does nothing else.                                                       *)
THEOREM DeletionKeepsItsPromise == ASSUME Reloads = 0 PROVE Spec => DeletionSpec
<1>1. Init => AloneInv
  <2> SUFFICES ASSUME Init, Undisturbed PROVE Consistent
    BY DEF AloneInv
  <2>1. page.at = "loading" /\ deletion = Absent /\ \A c \in Command : cmd[c] = Absent
    BY DEF Init, NewPage
  <2>2. ~unsaved
    BY DEF Init, Undisturbed
  <2>3. QED
    BY <2>1, <2>2 DEF Consistent, Owing
<1>2. Init => Promise!Init
  BY DeletionAssumption DEF Init, Promise!Init, Undisturbed, Reference
<1>3. ASSUME Guarded, AloneInv, [Next]_vars
      PROVE  AloneInv' /\ [Promise!Next]_(Promise!vars)
  BY <1>3, StepIsPromised
<1>4. QED
  BY <1>1, <1>2, <1>3, DeletionInvariant, PTL DEF Spec, DeletionSpec, Promise!Spec
=============================================================================
