----------------------------- MODULE LocalFiles -----------------------------
(***************************************************************************)
(* SQL files, draft tabs and workspace recovery: the file commands of       *)
(* phase1.rs, atomic_write of export.rs, the tab bookkeeping of App.svelte  *)
(* that calls them, and the store (LocalStore) that keeps the workspace.    *)
(*                                                                         *)
(* Other programs write the same files at any time; files arrive on the     *)
(* command line and from second instances at any time; the process may die  *)
(* at any time and is then started again.  A step is one file operation or  *)
(* the code between two awaits.                                             *)
(*                                                                         *)
(* Identifiers are unique in the program; here one that nothing holds any   *)
(* more is used again.                                                       *)
(***************************************************************************)
EXTENDS LocalStore, Functions, SequencesExt

CONSTANTS
  File,       \* paths of .sql files
  Text,       \* what a file or a draft may contain
  Empty,      \* the text of a new tab, one of Text
  Tab,        \* tab identifiers
  Grant,      \* file grant identifiers
  MaxPending, \* files routed and not yet taken
  Settings,   \* what a behaviour may meet
  Absent

Event == {"route", "open", "new", "close", "save", "save as", "clear", "type", "write", "fail", "die",
          "restore"}

(* store: what the first start finds; tabs: how many may be open or stored; *)
(* meets: what the user, the other programs and the machine may do, and    *)
(* "restore" if the user has session restoration on.                        *)
Setting == [store : StoreFiles, tabs : Nat, meets : SUBSET Event]

(* What the page knows of a tab, and the functions from some of D to V.     *)
PageTab == [grant : Grant \cup {Absent}, text : Text,
            dirty : BOOLEAN, early : BOOLEAN, excused : BOOLEAN]
Partial(D, V) == UNION {[S -> V] : S \in SUBSET D}

(* The command of the page: the bootstrap, or one of runAction.             *)
Bootstrap == [kind : {"bootstrap"}, stage : {"reply"}, tab : {Absent}, grant : {Absent},
              tabs : Partial(Tab, PageTab)]
Action == [kind : {"open", "close", "save", "save as"},
           stage : {"granting", "check", "compare", "write", "rename", "stamp", "reply", "saving"},
           tab : Tab \cup {Absent}, grant : Grant \cup {Absent}, file : File \cup {Absent},
           text : Text \cup {Absent}, expected : Text \cup {Absent}, read : Text \cup {Absent},
           overwrite : BOOLEAN, raced : BOOLEAN]

ASSUME LocalFilesAssumption ==
  /\ Empty \in Text
  /\ Absent \notin Text \cup File \cup Tab \cup Grant \cup Bootstrap \cup Action
  /\ Absent \notin Seq([tab : Tab, grant : Grant, text : Text, early : BOOLEAN])
  /\ MaxPending \in Nat /\ Settings \subseteq Setting
  /\ Tab \subseteq Nat

VARIABLES
  disk,       \* [File -> its text, or Absent]
  registered, \* OwnershipRegistry.tabs
  grants,     \* AppRuntimeState.file_grants: [grant -> [file, stamp]]
  pending,    \* AppRuntimeState.pending_file_opens
  routing,    \* a file read by route_sql_file_paths and not yet queued
  stored,     \* the workspace row: [tab -> a tab as it is persisted]
  page,       \* [up, tabs, timer, requested, draining]
  command,    \* the command runAction waits for, or Absent
  taken,      \* the reply of take_pending_sql_files, or Absent
  saves,      \* save_workspace calls in flight, by who made them
  setting

appVars == <<registered, grants, pending, routing, stored, page, command, taken, saves>>
moving == <<storeVars, disk, appVars>>
vars == <<moving, setting>>

Caller == {"timer", "command", "drain"}

NoTabs == <<>>     \* the function with an empty domain
ClosedPage == [up |-> FALSE, tabs |-> NoTabs, timer |-> FALSE,
               requested |-> FALSE, draining |-> FALSE]

Init ==
  /\ setting \in Settings
  /\ StoreInit /\ db = setting.store
  /\ disk \in [File -> Text]
  /\ registered = {} /\ grants = NoTabs
  /\ pending = <<>> /\ routing = Absent
  /\ stored = NoTabs
  /\ page = ClosedPage /\ command = Absent /\ taken = Absent
  /\ saves = [by \in Caller |-> Absent]

Meets(event) == event \in setting.meets

-----------------------------------------------------------------------------
(* Identifiers and grants *)

Calls == {saves[by] : by \in Caller} \ {Absent}
Opened == ToSet(pending) \cup (IF taken = Absent THEN {} ELSE ToSet(taken))
Commanded(field) == IF command = Absent THEN {} ELSE {command[field]}

(* The grants somebody names outside of file_grants. *)
GrantsNamed ==
  {page.tabs[t].grant : t \in DOMAIN page.tabs} \cup {open.grant : open \in Opened}
    \cup Commanded("grant")
    \cup UNION {{call.tabs[t].grant : t \in DOMAIN call.tabs} : call \in Calls}

TabsNamed ==
  registered \cup DOMAIN page.tabs \cup DOMAIN stored \cup {open.tab : open \in Opened}
    \cup Commanded("tab") \cup UNION {DOMAIN call.tabs : call \in Calls}

FreeGrants == Grant \ (DOMAIN grants \cup GrantsNamed)
(* The tabs a behaviour may have are its bound, not the program's. *)
FreeTabs == {t \in Tab \ TabsNamed : t <= setting.tabs}

(* The next identifier is any free one. *)
FreeTab == CHOOSE t \in FreeTabs : TRUE
FreeGrant == CHOOSE g \in FreeGrants : TRUE

(* One grant for each of several tabs, none of them in use. *)
NewGrants(filed) == Injection(filed, Grant \ GrantsNamed)

With(f, x, value) == [y \in DOMAIN f \cup {x} |-> IF y = x THEN value ELSE f[y]]

(* `seen' is history: the text its tab was given, or asked to be written.   *)
grant_sql_file(g, file, stamp, seen) ==
  grants' = With(grants, g, [file |-> file, stamp |-> stamp, seen |-> seen])

resolve_granted(g) == g \in DOMAIN grants

authorize_tab(t) == t \in registered

(* A faulty form: the file is read again for its hash. *)
StampOfNow(file, bytes) == disk[file]

(* Length, path and creation time say no more than the text here: a stamp   *)
(* is the text whose bytes are hashed in it, and can be taken only of a     *)
(* file that is there.                                                      *)
sql_file_stamp(file, bytes) == IF disk[file] = Absent THEN Absent ELSE bytes

-----------------------------------------------------------------------------
(* Start, files of the command line and of second instances *)

(* initialize goes on when the store was opened or given up. *)
OpenStore ==
  /\ StoreNext \/ (Meets("fail") /\ OpenFails)
  /\ registered' = IF health' = "healthy" THEN DOMAIN stored ELSE {}
  /\ UNCHANGED <<disk, grants, pending, routing, stored, page, command, taken, saves>>

(* A faulty form: the grants are emptied after they were given. *)
cleared_grants(restored, granted) == NoTabs

(* workspace_to_view: a grant for every source file of the workspace. *)
workspace_grants(restored, granted) ==
  [g \in Range(granted) |->
    LET t == CHOOSE u \in DOMAIN granted : granted[u] = g
    IN [file |-> restored[t].file, stamp |-> restored[t].stamp, seen |-> restored[t].seen]]

(* The page loads: bootstrap_workspace builds the ownership of the window   *)
(* anew, empties the grants and grants again what the workspace names.      *)
bootstrap_workspace ==
  /\ health # "closed" /\ ~page.up /\ command = Absent
  /\ LET restored == IF health = "healthy" THEN stored ELSE NoTabs
         filed == {t \in DOMAIN restored : restored[t].file # Absent}
         granted == CHOOSE f \in NewGrants(filed) : TRUE
     IN /\ NewGrants(filed) # {}
        /\ registered' = DOMAIN restored
        /\ grants' = workspace_grants(restored, granted)
        /\ command' = [kind |-> "bootstrap", stage |-> "reply", tab |-> Absent, grant |-> Absent,
                       tabs |-> [t \in DOMAIN restored |->
                         [grant |-> IF t \in filed THEN granted[t] ELSE Absent,
                          text |-> restored[t].text, dirty |-> restored[t].dirty,
                          early |-> FALSE, excused |-> restored[t].overtaken]]]
  /\ pending' = [i \in DOMAIN pending |-> [pending[i] EXCEPT !.early = TRUE]]
  /\ UNCHANGED <<storeVars, disk, routing, stored, page, taken, saves>>

(* applyBootstrap, and the first drain. *)
ApplyBootstrap ==
  /\ command # Absent /\ command.kind = "bootstrap"
  /\ page' = [page EXCEPT !.up = TRUE, !.tabs = command.tabs, !.requested = TRUE]
  /\ command' = Absent
  /\ UNCHANGED <<storeVars, disk, registered, grants, pending, routing, stored, taken, saves>>

RouteRead(f) ==
  /\ health # "closed" /\ routing = Absent /\ Len(pending) < MaxPending
  /\ disk[f] # Absent
  /\ routing' = [file |-> f, text |-> disk[f]]
  /\ UNCHANGED <<storeVars, disk, registered, grants, pending, stored, page, command, taken, saves>>

(* The tab, the grant and the entry of the queue, then the signal.  It is   *)
(* heard once the page listens; the end of a bootstrap drains anyway.       *)
Queue(stamp) ==
  LET t == FreeTab
      g == FreeGrant
  IN /\ FreeTabs # {} /\ FreeGrants # {}
     /\ registered' = registered \cup {t}
     /\ grant_sql_file(g, routing.file, stamp, routing.text)
     /\ pending' = Append(pending, [tab |-> t, grant |-> g, text |-> routing.text,
                                    early |-> FALSE])
     /\ page' = [page EXCEPT !.requested = page.up]

RouteQueue ==
  /\ routing # Absent /\ routing' = Absent
  /\ LET stamp == sql_file_stamp(routing.file, routing.text)
     IN IF stamp = Absent THEN UNCHANGED <<registered, grants, pending, page>>
                          ELSE Queue(stamp)
  /\ UNCHANGED <<storeVars, disk, stored, command, taken, saves>>

-----------------------------------------------------------------------------
(* Workspace saves *)

Asked(tabs) == [stage |-> "asked", tabs |-> tabs]

(* saveWorkspaceNow: the call carries a copy of the tabs; there is none     *)
(* while session restoration is off.                                        *)
Save(by, tabs) ==
  saves' = [saves EXCEPT ![by] = IF Meets("restore") THEN Asked(tabs) ELSE Absent]

TimerFires ==
  /\ page.timer /\ saves["timer"] = Absent
  /\ page' = [page EXCEPT !.timer = FALSE]
  /\ Save("timer", page.tabs)
  /\ UNCHANGED <<storeVars, disk, registered, grants, pending, routing, stored, command, taken>>

(* A faulty form: the drain forgets what was asked for while it ran. *)
ForgetfulAnswer(by) ==
  /\ saves' = [saves EXCEPT ![by] = Absent]
  /\ command' = IF by = "command" THEN Absent ELSE command
  /\ page' = IF by = "drain" THEN [page EXCEPT !.draining = FALSE, !.requested = FALSE] ELSE page

(* The caller hears of the end, good or bad. *)
Answer(by) ==
  /\ saves' = [saves EXCEPT ![by] = Absent]
  /\ command' = IF by = "command" THEN Absent ELSE command
  /\ page' = IF by = "drain" THEN [page EXCEPT !.draining = FALSE] ELSE page

(* workspace_from_view: one tab that is not the window's, or one grant that *)
(* is not known, refuses the whole workspace.  Stamps are those of now.     *)
save_workspace(by) ==
  /\ saves[by] # Absent /\ saves[by].stage = "asked"
  /\ LET tabs == saves[by].tabs
         file(t) == IF tabs[t].grant = Absent THEN Absent ELSE grants[tabs[t].grant].file
         stamp(t) == IF tabs[t].grant = Absent THEN Absent ELSE grants[tabs[t].grant].stamp
         seen(t) == IF tabs[t].grant = Absent THEN Absent ELSE grants[tabs[t].grant].seen
     IN IF /\ health = "healthy"
           /\ \A t \in DOMAIN tabs : /\ authorize_tab(t)
                                     /\ tabs[t].grant = Absent \/ resolve_granted(tabs[t].grant)
        THEN /\ saves' = [saves EXCEPT ![by] = [stage |-> "resolved",
                 (* overtaken is history: the text is older than the stamp. *)
                 tabs |-> [t \in DOMAIN tabs |->
                   [file |-> file(t), stamp |-> stamp(t), seen |-> seen(t), grant |-> tabs[t].grant,
                    text |-> tabs[t].text, dirty |-> tabs[t].dirty,
                    overtaken |-> tabs[t].excused]]]]
             /\ UNCHANGED <<command, page>>
        ELSE Answer(by)
  /\ UNCHANGED <<storeVars, disk, registered, grants, pending, routing, stored, taken>>

(* The row is written, or the write fails and the old row stays. *)
StoreWorkspace(by) ==
  /\ saves[by] # Absent /\ saves[by].stage = "resolved"
  /\ LET tabs == saves[by].tabs
     IN \/ stored' = [t \in DOMAIN tabs |->
                        [f \in DOMAIN tabs[t] \ {"grant"} |-> tabs[t][f]]]
        \/ Meets("fail") /\ UNCHANGED stored
  /\ Answer(by)
  /\ UNCHANGED <<storeVars, disk, registered, grants, pending, routing, taken>>

clear_saved_workspace ==
  /\ page.up /\ command = Absent /\ health = "healthy"
  /\ stored' = NoTabs
  /\ UNCHANGED <<storeVars, disk, registered, grants, pending, routing, page, command, taken, saves>>

-----------------------------------------------------------------------------
(* The queue of routed files *)

(* requestPendingSqlFileDrain: one drain at a time, which goes on while     *)
(* another one is asked for.                                                *)
Drain ==
  /\ page.up /\ page.requested /\ ~page.draining
  /\ page' = [page EXCEPT !.requested = FALSE, !.draining = TRUE]
  /\ UNCHANGED <<storeVars, disk, registered, grants, pending, routing, stored, command, taken, saves>>

take_pending_sql_files ==
  /\ page.draining /\ taken = Absent /\ saves["drain"] = Absent
  /\ taken' = pending /\ pending' = <<>>
  /\ UNCHANGED <<storeVars, disk, registered, grants, routing, stored, page, command, saves>>

OpenedTab(open) ==
  [grant |-> open.grant, text |-> open.text, dirty |-> FALSE, early |-> open.early, excused |-> FALSE]

appendOpenedSqlFiles ==
  /\ taken # Absent /\ taken' = Absent
  /\ LET new == {open \in ToSet(taken) : open.tab \notin DOMAIN page.tabs}
         tabs == [t \in DOMAIN page.tabs \cup {open.tab : open \in new} |->
                    IF t \in DOMAIN page.tabs THEN page.tabs[t]
                    ELSE OpenedTab(CHOOSE open \in new : open.tab = t)]
     IN IF taken = <<>>
        THEN page' = [page EXCEPT !.draining = FALSE] /\ UNCHANGED saves
        ELSE /\ page' = [page EXCEPT !.tabs = tabs, !.draining = Meets("restore")]
             /\ Save("drain", tabs)
  /\ UNCHANGED <<storeVars, disk, registered, grants, pending, routing, stored, command>>
-----------------------------------------------------------------------------
(* The commands of the page: runAction lets one run at a time *)

Doing(kind, stage, t) ==
  [kind |-> kind, stage |-> stage, tab |-> t, grant |-> Absent, file |-> Absent, text |-> Absent,
   expected |-> Absent, read |-> Absent, overwrite |-> FALSE, raced |-> FALSE]

Idle == page.up /\ command = Absent

At(kinds, stage) == command # Absent /\ command.kind \in kinds /\ command.stage = stage

Reach(stage) == command' = [command EXCEPT !.stage = stage]

(* The reply was applied: the command waits for its own workspace save. *)
Applied(tabs) ==
  /\ page' = [page EXCEPT !.tabs = tabs]
  /\ Save("command", tabs)
  /\ IF Meets("restore") THEN Reach("saving") ELSE command' = Absent

(* pick_sql_file reads the file the user chose, *)
PickRead(f) ==
  /\ Idle /\ disk[f] # Absent
  /\ command' = [Doing("open", "granting", Absent) EXCEPT !.file = f, !.text = disk[f]]
  /\ UNCHANGED <<storeVars, disk, registered, grants, pending, routing, stored, page, taken, saves>>

(* then takes its stamp, grants it and registers a tab for it. *)
PickGrant ==
  /\ At({"open"}, "granting")
  /\ LET stamp == sql_file_stamp(command.file, command.text)
         t == FreeTab
         g == FreeGrant
     IN IF stamp = Absent
        THEN command' = Absent /\ UNCHANGED <<registered, grants>>
        ELSE /\ FreeTabs # {} /\ FreeGrants # {}
             /\ grant_sql_file(g, command.file, stamp, command.text)
             /\ registered' = registered \cup {t}
             /\ command' = [command EXCEPT !.stage = "reply", !.tab = t, !.grant = g]
  /\ UNCHANGED <<storeVars, disk, pending, routing, stored, page, taken, saves>>

create_offline_tab ==
  /\ Idle /\ FreeTabs # {}
  /\ LET t == FreeTab
     IN /\ registered' = registered \cup {t}
        /\ command' = [Doing("open", "reply", t) EXCEPT !.text = Empty]
  /\ UNCHANGED <<storeVars, disk, grants, pending, routing, stored, page, taken, saves>>

ApplyOpened ==
  /\ At({"open"}, "reply")
  /\ Applied(With(page.tabs, command.tab,
                  OpenedTab([grant |-> command.grant, text |-> command.text, early |-> FALSE])))
  /\ UNCHANGED <<storeVars, disk, registered, grants, pending, routing, stored, taken>>

(* The user has decided on what the tab holds.  The grant stays. *)
close_offline_tab(t) ==
  /\ Idle /\ t \in DOMAIN page.tabs
  /\ authorize_tab(t)
  /\ registered' = registered \ {t}
  /\ command' = Doing("close", "reply", t)
  /\ UNCHANGED <<storeVars, disk, grants, pending, routing, stored, page, taken, saves>>

ApplyClosed ==
  /\ At({"close"}, "reply")
  /\ Applied(Restrict(page.tabs, DOMAIN page.tabs \ {command.tab}))
  /\ UNCHANGED <<storeVars, disk, registered, grants, pending, routing, stored, taken>>

(* saveActiveSqlFile: the request carries the text of now. *)
SaveFile(t) ==
  /\ Idle /\ t \in DOMAIN page.tabs
  /\ LET tab == page.tabs[t]
     IN \/ /\ Meets("save") /\ tab.grant # Absent
           /\ command' = [Doing("save", "check", t) EXCEPT !.grant = tab.grant, !.text = tab.text]
        \/ /\ Meets("save as")
           /\ command' = [Doing("save as", "check", t) EXCEPT !.text = tab.text]
  /\ UNCHANGED <<storeVars, disk, registered, grants, pending, routing, stored, page, taken, saves>>

(* save_sql_file: the tab, the grant and the bytes of the file. *)
CheckSource ==
  /\ At({"save"}, "check")
  /\ IF /\ authorize_tab(command.tab) /\ resolve_granted(command.grant)
        /\ disk[grants[command.grant].file] # Absent
     THEN LET granted == grants[command.grant]
          IN command' = [command EXCEPT !.stage = "compare", !.file = granted.file,
                           !.expected = granted.stamp, !.read = disk[granted.file]]
     ELSE command' = Absent
  /\ UNCHANGED <<storeVars, disk, registered, grants, pending, routing, stored, page, taken, saves>>

(* A faulty form: the page takes an external change for a save. *)
UnheededStamp ==
  /\ At({"save"}, "compare")
  /\ IF sql_file_stamp(command.file, command.read) = command.expected
     THEN command' = [command EXCEPT !.stage = "write", !.overwrite = TRUE]
     ELSE Reach("reply")
  /\ UNCHANGED <<storeVars, disk, registered, grants, pending, routing, stored, page, taken, saves>>

(* Another text, or none by now: an external change, nothing is written. *)
CompareStamp ==
  /\ At({"save"}, "compare")
  /\ IF sql_file_stamp(command.file, command.read) = command.expected
     THEN command' = [command EXCEPT !.stage = "write", !.overwrite = TRUE]
     ELSE command' = Absent
  /\ UNCHANGED <<storeVars, disk, registered, grants, pending, routing, stored, page, taken, saves>>

(* save_sql_file_as: a path from the native dialog, or none. *)
ChoosePath ==
  /\ At({"save as"}, "check")
  /\ \/ /\ authorize_tab(command.tab)
        /\ \E f \in File :
             command' = [command EXCEPT !.stage = "write", !.file = f,
                                        !.overwrite = disk[f] # Absent]
     \/ command' = Absent
  /\ UNCHANGED <<storeVars, disk, registered, grants, pending, routing, stored, page, taken, saves>>

(* atomic_write: the bytes go into a temporary file next to the destination *)
(* and are synchronised; when that fails the temporary file is removed.     *)
WriteTemporary ==
  /\ At({"save", "save as"}, "write")
  /\ IF disk[command.file] # Absent /\ ~command.overwrite
     THEN command' = Absent
     ELSE Reach("rename") \/ (Meets("fail") /\ command' = Absent)
  /\ UNCHANGED <<storeVars, disk, registered, grants, pending, routing, stored, page, taken, saves>>

Rename ==
  /\ At({"save", "save as"}, "rename")
  /\ disk' = [disk EXCEPT ![command.file] = command.text]
  /\ Reach("stamp")
  /\ UNCHANGED <<storeVars, registered, grants, pending, routing, stored, page, taken, saves>>

(* A workspace save under way that holds another, clean text of the tab     *)
(* will store it with the stamp of the new one (history).                   *)
Overtake(g, text) ==
  saves' = [by \in Caller |->
    IF saves[by] = Absent \/ (saves[by] # Absent /\ saves[by].stage # "asked") THEN saves[by]
    ELSE [saves[by] EXCEPT !.tabs = [t \in DOMAIN @ |->
            IF @[t].grant = g /\ @[t].text # text THEN [@[t] EXCEPT !.excused = TRUE] ELSE @[t]]]]

(* The stamp is of the text that was asked for and the file of now. *)
Restamp ==
  /\ At({"save", "save as"}, "stamp")
  /\ LET stamp == sql_file_stamp(command.file, command.text)
         g == IF command.kind = "save" THEN command.grant ELSE FreeGrant
     IN IF stamp = Absent \/ (command.kind = "save" /\ ~resolve_granted(g))
        THEN command' = Absent /\ UNCHANGED <<grants, saves>>
        ELSE /\ command.kind = "save as" => FreeGrants # {}
             /\ grant_sql_file(g, command.file, stamp, command.text)
             /\ Overtake(g, command.text)
             /\ command' = [command EXCEPT !.stage = "reply", !.grant = g]
  /\ UNCHANGED <<storeVars, disk, registered, pending, routing, stored, page, taken>>

ApplySaved ==
  /\ At({"save", "save as"}, "reply")
  /\ Applied([page.tabs EXCEPT ![command.tab].grant = command.grant, ![command.tab].dirty = FALSE,
                               ![command.tab].excused = page.tabs[command.tab].text # command.text])
  /\ UNCHANGED <<storeVars, disk, registered, grants, pending, routing, stored, taken>>

-----------------------------------------------------------------------------
(* The user types; other programs write; the process dies *)

handleEditorChange(t, text) ==
  /\ page.up /\ t \in DOMAIN page.tabs
  /\ page' = [page EXCEPT !.timer = Meets("restore"), !.tabs[t].text = text, !.tabs[t].dirty = TRUE,
                          !.tabs[t].excused = FALSE]
  /\ UNCHANGED <<storeVars, disk, registered, grants, pending, routing, stored, command, taken, saves>>

OthersWrite(f, text) ==
  /\ disk[f] # text
  /\ disk' = [disk EXCEPT ![f] = text]
  /\ command' = IF command # Absent /\ command.kind = "save" /\ command.file = f
                   /\ command.stage \in {"compare", "write", "rename"}
                THEN [command EXCEPT !.raced = TRUE] ELSE command
  /\ UNCHANGED <<storeVars, registered, grants, pending, routing, stored, page, taken, saves>>

(* The window is destroyed (cleanup_window) or the process killed: the file *)
(* system and the store are what a later start finds.                       *)
Die ==
  /\ StoreDies
  /\ registered' = {} /\ grants' = NoTabs
  /\ pending' = <<>> /\ routing' = Absent
  /\ page' = ClosedPage /\ command' = Absent /\ taken' = Absent
  /\ saves' = [by \in Caller |-> Absent]
  /\ UNCHANGED <<disk, stored>>

Native ==
  \/ OpenStore \/ bootstrap_workspace \/ RouteQueue
  \/ \E by \in Caller : save_workspace(by) \/ StoreWorkspace(by)
  \/ take_pending_sql_files
  \/ PickGrant \/ CheckSource \/ CompareStamp \/ ChoosePath \/ WriteTemporary \/ Rename \/ Restamp

Page ==
  \/ ApplyBootstrap \/ TimerFires \/ Drain \/ appendOpenedSqlFiles
  \/ ApplyOpened \/ ApplyClosed \/ ApplySaved

User ==
  \/ Meets("route") /\ \E f \in File : RouteRead(f)
  \/ Meets("open") /\ \E f \in File : PickRead(f)
  \/ Meets("new") /\ create_offline_tab
  \/ Meets("clear") /\ clear_saved_workspace
  \/ Meets("close") /\ \E t \in Tab : close_offline_tab(t)
  \/ \E t \in Tab : SaveFile(t)
  \/ Meets("type") /\ \E t \in Tab, text \in Text : handleEditorChange(t, text)

Others == Meets("write") /\ \E f \in File, text \in Text \cup {Absent} : OthersWrite(f, text)

Machine == Meets("die") /\ Die

Next == (Native \/ Page \/ User \/ Others \/ Machine) /\ UNCHANGED setting

Spec == Init /\ [][Next]_vars

(* The event loops of the page and of the native side run every call that   *)
(* is ready; what waits on the user or on a bound of the model need not be.  *)
Fairness ==
  /\ WF_moving(OpenStore) /\ WF_moving(bootstrap_workspace) /\ WF_moving(ApplyBootstrap)
  /\ WF_moving(Drain) /\ WF_moving(take_pending_sql_files) /\ WF_moving(appendOpenedSqlFiles)
  /\ WF_moving(save_workspace("drain")) /\ WF_moving(StoreWorkspace("drain"))

FairSpec == Spec /\ Fairness

-----------------------------------------------------------------------------

TypeOK ==
  /\ StoreTypeOK
  /\ disk \in [File -> Text \cup {Absent}]
  /\ registered \subseteq Tab
  /\ DOMAIN grants \subseteq Grant
  /\ \A g \in DOMAIN grants : grants[g] \in [file : File, stamp : Text, seen : Text]
  /\ Len(pending) <= MaxPending
  /\ DOMAIN stored \subseteq Tab /\ DOMAIN page.tabs \subseteq Tab
  /\ \A t \in DOMAIN page.tabs : page.tabs[t] \in PageTab
  /\ DOMAIN saves = Caller

(* Save replaces a text its tab was given or has written, whoever wrote the *)
(* file since, in this run of the program or in an earlier one.  Excepted   *)
(* is a write that falls between the reading of the file for the comparison *)
(* of save_sql_file and the rename: nothing holds the file there            *)
(* (phase1.rs:686).                                                          *)
NothingOverwrittenUnseen ==
  [][(At({"save"}, "rename") /\ command' # Absent /\ command'.stage = "stamp")
       => command.raced \/ disk[command.file] = grants[command.grant].seen]_vars

(* What a tab shows belongs to the window and its grant is known, so that   *)
(* saving, closing and the recovery of the whole workspace go through.      *)
(* Excepted is a file that was routed before the page was bootstrapped.     *)
TabsStayUsable ==
  \A t \in DOMAIN page.tabs :
    \/ page.tabs[t].early
    \/ At({"close"}, "reply") /\ command.tab = t
    \/ /\ authorize_tab(t)
       /\ page.tabs[t].grant = Absent \/ resolve_granted(page.tabs[t].grant)

(* A tab that is not marked dirty holds the text its file was read or       *)
(* written with, after a restart too: closing it asks nothing.  Excepted is *)
(* a text typed while its save was under way, whose mark ApplySaved clears, *)
(* and one stored by a workspace save that a file save overtook.            *)
CleanMeansSaved ==
  \A t \in DOMAIN page.tabs :
    LET tab == page.tabs[t]
    IN (~tab.dirty /\ ~tab.excused /\ ~tab.early /\ tab.grant # Absent)
         => tab.text = grants[tab.grant].seen

(* A routed file is shown, if the program lives: no signal of               *)
(* route_sql_file_paths is lost on a page that is draining or starting.     *)
RoutedFilesOpen ==
  \A t \in Tab : (\E i \in DOMAIN pending : pending[i].tab = t)
                   ~> (t \in DOMAIN page.tabs \/ health = "closed")

(* What RoutedFilesOpen rests on.  While a routed file waits for a page     *)
(* that is up, the page has a drain to begin, or the one under way has not  *)
(* looked into the queue yet (requestPendingSqlFileDrain);                  *)
SignalKept ==
  (page.up /\ pending # <<>>)
    => page.requested \/ (page.draining /\ taken = Absent /\ saves["drain"] = Absent)

(* and no step but the end of the process loses a routed file on its way    *)
(* from the queue to the page.                                              *)
RoutedFilesStay ==
  [][Die \/ {open.tab : open \in Opened} \subseteq {open.tab : open \in Opened'} \cup DOMAIN page'.tabs]_vars
=============================================================================
