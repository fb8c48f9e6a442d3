# QueryNot in TLA+

QueryNot is a desktop SQL client: a Svelte page in one Tauri webview, and a Rust
process that owns connections, native sessions, executions, results, credentials
and files. This directory models the parts of it where several actors share state
(the page, the Tauri commands, each a future on a multi-threaded runtime, the tasks
that run a query and bridge its events to the page, health checks, other programs,
a reload of the page, the end of the process) and the two places where it reads
what somebody else will read again: SQL text and transaction state. TLC checks the
models on small instances; TLAPS proves for all instances the central invariants of the
ownership registry, that the commands implement it, when an execution's outcome is true
and final, that health checks keep to their connection, that approvals and plans are used
once and as reviewed, that a deleted profile goes as was promised, what a native session
may say of its results, batches and transactions, and that the local store stays whole.

Conventions: an action has the name of the function or method it stands for, or
names one step of it; a definition marked `Faulty:` is a plausible bug of the
definition after it, used to test that a property notices. `PROJECT.json` maps
every definition to the lines of the source it models.

## Inventory

| Component | Source | State | Operations | What makes it correct |
|---|---|---|---|---|
| Ownership registry | `querynot-core/src/ownership.rs` | five tables: profiles, tabs, sessions, executions, terminal executions | register, authorise, unregister, mark terminal, clean up a window | the chain window/profile/tab/session/execution is never broken; terminal executions stay refused |
| Query execution | `sqlite.rs` `execute`, `result.rs`, `phase2.rs` `bridge_execution_events`, `App.svelte` `handleExecutionEvent` | cursor, batch, tranche limit, cancel flag, two bounded channels, result registry, the page's results | start, batch, acknowledge, pause, load more, discard, expire, cancel, fail, end | backpressure holds the three copies of the rows together; an outcome is reported once and is true; late events are dropped; every wait ends |
| Connections, sessions, reload | `phase2.rs`, `phase1.rs` `bootstrap_workspace`, `App.svelte` | `connected`, `sessions`, `executions`, `connection_attempts`, epoch; the page's copies | bootstrap, connect, cancel, disconnect, open, close, start; a lost connection | two registries under different locks agree; no attempt or session leaks; one job per session; a replaced page starts nothing |
| Health and recovery | `phase2.rs` `check_profile_health_inner` | cached sessions, certainty, generation | ping, reconnect, replace a lost session | a session with a transaction, a plan or a job is never replaced; a disconnected profile does not come back |
| Transactions | `sqlite.rs`, `postgres.rs`, `mysql.rs` | certainty, mode | begin, commit, roll back, reconcile after each statement | Clean is never reported while a transaction is open |
| Approvals and mutation plans | `phase2.rs`, `table.rs` | pending approvals, plans | issue, consume, preview, apply, discard | each is used at most once, by the session, context and text it was made for |
| Profile deletion, vault | `store.rs`, `vault.rs`, `phase1.rs` `delete_profile` | store rows, deletion marker, vault entry, owners | begin, delete secret, mark, finalise, retry | every interruption is retriable and never looks complete |
| Local store | `store.rs`, `history.rs`, `settings.rs`, `workspace.rs` | schema version, rows | migrate, save, prune | the last valid version survives a fault |
| SQL files, export | `phase1.rs`, `export.rs` | grants with file stamps | open, save, save as, drop, atomic write | an external change is not overwritten |
| Explain | `explain.rs`, `phase2.rs` `run_explain` | job, plan | start, cancel, end | started, then exactly one end |
| Adapters | `mysql.rs`, `postgres.rs`, `adapter.rs` | connection, cancel side channel | as for SQLite | as for SQLite |
| SQL splitting and safety | `sql.rs` | none | split, classify, fingerprint | conservative classification |
| Table planning, values | `table.rs`, `value.rs` | none | plan statements | keyed, typed statements |
| Diagnostics, errors | `diagnostics.rs`, `error.rs` | bounded log | append, rotate | bounded, redacted |
| Updates, window, platform | `updates.rs`, `window_state.rs`, `window-close.ts` | pending update, geometry | check, install, close guard | nothing active is closed over |
| Editor, grids, completion | `src/lib` | presentation | | |
| Contracts, fixtures, scripts | `generated/`, `querynot-fixture-harness`, `scripts/` | | | generated or build tooling |

How they interact. A command authorises itself against the ownership registry
(one mutex), then works on the maps of `Phase2Runtime` (a mutex each) and awaits an
adapter in between. `start_execution` spawns two tasks: the producer inside the
adapter session and the bridge. They share the event channel (32), the control
channel (32) and, through `executions`, the cancel flag of the session. The bridge
validates each event in the result registry and emits it to the page, which handles
events one at a time and acknowledges each batch with a command. A reload of the
page runs `cleanup`, which increments the epoch, cancels and empties the maps, and
then rebuilds ownership from the store.

The hard behaviours, each at its line, are `hazards` in `PROJECT.json`: refused
waits, late replies, check-then-act across an await, two registries under two
locks, reloads between any two steps, clean-up by an outdated command.

## Plan

Done, in this order:

1. `ExecutionStream`: the life of one execution.
2. `OwnershipRegistry`: the ownership graph.
3. `SessionLifecycle`: the commands, shown to implement `OwnershipRegistry`.
4. `ProfileDeletion`, shown to implement `DeletionPromise`.
5. `ServerConnection`, `ResultStream`, `MySqlSession`, `PostgresSession`,
   `SqliteSession`, composed in `AdapterSessions`: a native session against its server.
6. `Workbench`: health checks, approvals, plans, explain, contexts and modes.
7. `SqlText`, `SqlPredicate`, composed in `SqlPlan`: splitting and classification.
8. `LocalStore`; `LocalFiles`, which runs on it.
9. The proofs: `OwnershipRegistryProofs`, `ExecutionStreamProofs`,
   `SessionLifecycleProofs`, `WorkbenchProofs`, `ProfileDeletionProofs`,
   `AdapterSessionsProofs`, `LocalFilesProofs`, `SqlPlanProofs`.

Left, most important first:

* two executions that overlap on one session (the cancel slot is cleared after the
  terminal event), in `ResultStream`;
* the composition of `ProfileDeletion` with `SessionLifecycle`: a profile that is
  connected while its deletion awaits the store;
* byte limits of batches and results (`ResultLimits`), retention of history.

A recursive definition is a recursive function (`predicate_effectiveness`), which can be
reasoned about. Every module states a
`TypeOK` that says which values its variables take; it is an invariant of a run where
the proofs use it, and holds in the other runs too (add it to their cfg).

## ExecutionStream

One execution from the moment `start_execution` has registered it. Producer,
bridge, page, commands and reload are the actors; their variables are grouped as in
`producer_vars`, `shared_vars`, `bridge_vars`, `ui_vars`.

* Producer (`SqliteSession::execute`): `pc` names the place between two awaits.
  `FetchRow`/`PushRow` fill a batch, `FlushFullBatch`, `FlushTranche` and
  `DrainBatch` send it (`send_batch_and_wait`), `Acknowledged`, `AckRefused` and
  `DropControl` are the wait, `SendPaused`, `Continue`, `LeavePause` and
  `ExpirePause` the pause at a tranche, `StatementFails`, `SendResultTerminal`,
  `EndStatement`, `EndExecution`, `ClearActiveCancel` the ends.
* Bridge: `SpawnBridge` reads the epoch; `Receive` validates, retains and emits one
  event, the lock of the epoch held throughout, which is why a reload falls before
  or after it; `RejectEvent`, `LateEpoch`, `RemoveExecution`, `CloseBridge`.
* Page: `handleExecutionEvent` takes events from `inbox` one at a time and waits
  for its acknowledgement; the buttons are `ClickCancel` and `ClickMore`; the
  replies of the commands are steps of their own (`CancelReply`, `MoreReply`).
* `Reload` is `cleanup` and the new page.

Data: rows are counted. Column metadata is a flag (it decides whether an empty
first batch is sent). The byte limits appear as the choice to flush or to stop
early at any row. A statement has one result set.

Bounds: `Statements`, `BatchRows`, `TrancheRows`, `RetainedRows` scale
`MAX_BATCH_ROWS` 1,000, the tranche setting and `MAX_RETAINED_ROWS`; at 1/2/4 a result
has several batches, a pause, a resumption that ends in the cap, and rows left in
the last batch at 2/3/7. The channels have room for 2 in place of 32, so both fill
up. One reload, as many cancels as there are states in which the button is shown,
one or two clicks of Load more or Discard.

Fairness (`Spec`): the bridge, the page's queue and every command in flight are weakly fair, for they
are tasks of a runtime that polls what is ready and a webview that drains its
queue. The producer is weakly fair except inside a statement that nobody
cancelled: a query may run for ever, and only the progress handler that finds the
flag cleared ends it. The user and the reload owe nothing.

| Run | Question | Instance | Result |
|---|---|---|---|
| `execution_safety` | do the three copies agree (`Lockstep`), is a completed result complete (`CompletedIsComplete`), is the outcome true (`OutcomeIsTrue`), do late events stay out (`LateEventsDropped`, `NothingAfterTerminal`) | 2 statements, 1/2/4, one click, cancel, reload, faults | holds, 2.9M states |
| `load_more` | do two racing clicks fetch more than was asked (`TrancheAuthorized`) | 1 statement, 2/3/7, two clicks, reload | holds, 213k |
| `execution_liveness` | do waits end (`AckWaitEnds`), do cancelled jobs stop (`CancelStops`), is the execution released (`ExecutionReleased`) | 1 statement, 1/2/3, one click, cancel, reload, faults | holds, 197k |

`Lockstep` speaks of a producer that nobody cancelled, in the epoch of its page:
outside it the copies do part, which is what the counterexample `CancelIsNotAFailure` shows.

## OwnershipRegistry

Every mutating method is an action and every authorisation an operator; a HashMap
is a function into owners and `Absent`. A method that fails without a change is a
stuttering step. Two details of the code matter: `register_*` inserts before it
reports a duplicate, and `unregister_profile` rebinds tabs before it finds the
profile missing. Both are modelled; `Register` says what the callers guarantee
(identifiers are fresh, `cleanup_window` comes before restored ones).

`ownership` runs two windows, profiles, tabs, sessions and executions (5140
states): one more of any kind adds no new pair of rivals, for each property
relates at most two owners of a kind.

## SessionLifecycle

The commands of one window. `cmd` holds a record per command in flight with the
place it has reached; an action runs one command to its next await, or to its next
lock where it changes two registries. `O` is an instance of `OwnershipRegistry` on
the same variables, and `OwnerSpec` (`O!Spec`) is checked as a property: what is
proved of the registry holds of the commands. `OwnershipHeld` is the registry's
mutex where the code keeps it over several changes.

* `cleanup`, `cleanup_window`, `RegisterProfiles`, `RegisterTabs`: `bootstrap_workspace`.
* `ConnectChecks` ... `Connected`: `connect_profile`, with the attempt it registers.
  `finish_connection_attempt` removes the entry of the profile whoever made it.
* `OpenChecks`, `OpenRegisters`, `OpenInserts`: `open_tab_session`.
* `SessionChecks`, `CloseUnregisters`, `CloseRemoves`; `StartRegisters`,
  `StartInserts`: the common checks, then the close or the start.
* `EmitTerminal` ... `DropLost`: the end of the bridge, with or without a lost
  connection.
* The page: what it knows (`page.connected`, `page.session`) and when it may ask.
  `setting.serialises` says whether the page's `busy` flag and its table of pending
  opens are kept; without it the native side must cope with any order.

One run asks everything of three settings: any two commands at once, with a reload
and lost connections; three commands from a page that keeps its flag, with both;
three in any order without either. `OneJobPerSession` is said of the second,
`RegistriesAgree` of the third: the counterexamples `OneJob` and `RegistriesMatch` show that
neither holds without its condition.

Bounds: one profile and tab (the registry run covers rivals), two sessions and two
executions over the whole behaviour, at most three commands in flight, one reload.
Behaviours end when identifiers and reloads are used up, so deadlock is not
checked. Sessions, executions and command slots are symmetric; all properties are
safety properties that treat them alike. No fairness is assumed.

| Run | Question | Result |
|---|---|---|
| `session_lifecycle` | is every step one of the ownership graph (`OwnerSpec`), are attempts released (`AttemptsAreLive`), one job per session (`OneJobPerSession`), does a replaced page start nothing (`OldStartsRefused`), do the registries and the page agree once settled (`RegistriesAgree`) | holds, 507k states |

## ProfileDeletion

One profile with a query tab and a table tab, deleted in the two steps of
`delete_profile_two_step`. `profile`, `deletion`, `snapshot` and `history` are rows
of the local store, `vault` the items of the operating system, `owned` and `tabs`
what the ownership registry holds, `page` what the page shows. A command in flight is
a record in `cmd`; each await on the store is a step, a transaction is one step.

* `bootstrap`, `deleteProfile`, `submitProfile`, `removeSavedSecret` and
  `queueWorkspaceSave`: the page. `busy` keeps its scripts apart; the timer of
  `queueWorkspaceSave` is no script and may fire during one. `deleteProfile` saves
  the workspace first and continues with the command.
* `DeleteChecks` ... `BeginReturns`, `VaultDeletes`, `mark_profile_vault_deleted`,
  `FinalizeReads` ... `FinalizeCommits`, `unregister_profile`: `delete_profile`.
* `EditReads`, `SecretStores`, `SecretErased`, `save_profile`, `SecretUndone`:
  `update_profile`, `save_profile_secret`, `remove_profile_secret`; the last write is
  an upsert.
* `workspace_from_view`, `save_workspace`; `BootstrapReadsProfiles` ...
  `BootstrapRegisters`.
* `StoreFails` is an error of any statement (nothing is written), the second
  disjuncts of the vault steps are errors of the vault; `Crash` ends the process
  and `initialize` registers what the store holds; `Reload` loads the page again.

`DeletionPromise` is the abstract specification, written from CON-15: present,
pending, gone; the credential is erased before the metadata goes; drafts and history
are kept or deleted in one step, as was chosen when the deletion began.
`DeletionSpec` is this specification under the refinement mapping `Promise`.

`Rivals` says what else may happen: nothing, or edits, the autosave timer and a late
history entry. `DeletionSpec` and `PendingEnds` are said of the first kind of
behaviour, for nothing is promised to rivals; `RegistryFollowsStore` of both. Bounds:
one profile, one tab of each kind (the deletion treats tabs of a kind alike), two
names of vault items (one in use, one fresh), two commands (a script and the timer),
two failures and two crashes (a retry may fail like the first attempt), no reload;
with reloads the replaced page's commands go on unseen, which the counterexample `GoneForGood`
shows.

Fairness: a command runs on and a page that is loading calls `bootstrap_workspace`
(weak); the user reloads a page that failed to load (weak) and confirms a pending
deletion again as often as it fails (strong, for the button is disabled while a
script runs). `PendingEnds` is a promise to this user only: nothing in the code
resumes a deletion by itself. A behaviour may end when the profile is gone, so
deadlock is not checked.

| Run | Question | Result |
|---|---|---|
| `deletion` | do the two steps keep the promise (`DeletionSpec`), does a begun deletion end (`PendingEnds`), do registry, page and store agree at rest and can a pending deletion be asked for again (`RegistryFollowsStore`) | holds, 459k states |

## Workbench

The session of one tab, and what happens to it while health checks look at it. The
registries of `Phase2Runtime` are the variables `connected`, `resource`, `plans`,
`approvals`, `jobs` and `attempt`; `native` holds the connections themselves, for a
session keeps its identifier when a check gives it another connection. Commands and
checks go on with the clones they made (`cmd[c]`, `check[k]`). A step is what
runs between two awaits; `SessionLifecycle` splits these at each lock.

* `connect_profile`, `disconnect_profile`, `open_tab_session`, `close_tab_session`,
  `cleanup`: what makes and ends a session.
* `start_execution` with its three outcomes (unflagged, asks for approval, approved),
  `start_explain`, `JobEnds`, `JobLost`; `issue_approval`, `consume_approval`.
* `change_tab_context`, `set_transaction_mode`, `commit_or_rollback`, each with the step
  after its await; `preview_table_mutations` ... `discard_mutation_plan`; `load_schema`
  stands for the metadata commands, which withdraw the plans of the profile.
* `begin_connection_attempt`, `PingMetadata`, `ReopenMetadata`, `CloneSessions`,
  `SkipInUse`, `PingOk`, `PingFails`, `ReopenSession`, `ReplaceSession`,
  `finish_own_attempt`: `check_profile_health`. `PingOk` may be the answer of a ping that
  found the session's lock held and did not ask the server.

`setting` bounds a behaviour: what the client sends (`sends`), how many of each
identifier, which connections are lost, whether pings may time out on a connection
that is well. `MCWorkbench` has ten: five for a query tab, four for a table tab, one
with two pages. Each pairs the hazards that meet (an approval and a reconnection, a
plan and a context, an execution and a replacement); all at once is out of reach. The
native side must cope with any request, so the page's `busy` flag is not assumed.
A handwritten `USE` or `SET search_path` is not tracked by the program nor here.

Fairness: every started check is weakly fair at each of its steps (`Fairness`), since all
its awaits have timeouts or a cancel channel (`phase2.rs:417`); commands and users owe
nothing. `HealthEnds` needs
no more.

| Run | Question | Result |
|---|---|---|
| `workbench` | does a check only touch the connection it was started for (`OwnGeneration`) and give back its own entry (`OneLiveCheck`), is no open transaction of a connection that really was lost passed over in silence (`NothingLost`), is an approval or a plan used once and as reviewed (`UsedAsReviewed`), does every check end (`HealthEnds`) | holds, 260k states |

`NothingLost` holds without timeouts only: with them, the counterexample `TransactionKept` shows
a transaction that goes with a connection that was alive.

## Native sessions

`ServerConnection` is the far end of a session, external to the repository: the
transaction the server has, its autocommit variable, what was written and saved, and
the control requests on their way. `Ask` is one round trip: answered, refused,
interrupted by a control request, or lost, before or after the statement took effect.

`ResultStream` holds what the adapters share: the connection lock, the slot of the
running execution (`active_cancel`), `request_cancel` and its control connection, the
gate of read-only sessions, staged batches, explain, browse, describe and ping, and the
stream of rows with batches, pauses and result ends. `MySqlSession`, `PostgresSession`
and `SqliteSession` are the three `execute` loops with the mode and transaction
commands of each; they follow their own file where it differs, and `PROJECT.json`
names its lines where it says the same. `AdapterSessions` is the disjunction of the
three. The page's answers to a batch or a pause are choices here; the channels they
travel on are `ExecutionStream`'s.

Statements are kinds (`write`, `begin`, `rollback_to`, `ddl`, `unclassified`, ...) whose
effect on the server is `MySqlEffect`, `PostgresEffect` or `SqliteEffect`. "mysql57" is a
server without the transaction variable, where the adapter falls back to keywords.

Bounds: one session; a script draws any number of statements from one of seven sets,
each about one hazard; batches of 1, tranches of 2, 3 retained rows, two staged
changes. No fairness; a session may rest, so deadlock is not checked.

| Run | Question | Result |
|---|---|---|
| `adapters` | does a clean session hide no work of the user's (`CleanHidesNothing`), is a staged batch all or nothing and its answer true (`BatchIsAtomic`), is a completed result whole (`CompletedResultIsWhole`), does manual mode commit nothing on its own (`ManualWritesWait`) | holds, 5.0M states |

`CleanHidesNothing` is said of servers that are asked and of SQLite without handwritten
control, `ManualWritesWait` of the MySQL family; the counterexamples show why not of the others.

## SQL text

`SqlText` reads a document three times, symbol by symbol and side by side: by the
splitter of its dialect, by `code_tokens`, which decides the flags, and by the server.
The next symbol is chosen as they go, so documents of every length are covered by
finitely many states. `Serve` is external:
how the three engines delimit statements. `IsOdd` names the texts on which
the dialects are known to differ from the splitters and stops the comparison there;
a `strict` setting does not.

`SqlPredicate` is `classify_destructive` with `predicate_effectiveness`, a recursive function on tokens,
against what the predicate means on rows of two columns (`Restricts`). It is given the tokens
of the whole statement, whatever stands before its own WHERE and behind its predicate:
like the code it takes the first WHERE (`where_index`), whosever that is. `SqlPlan`
composes both: every statement is classified after the document was split.
`UnflaggedRestricts` is said of the statements that are `Plain`: the first word is UPDATE or
DELETE, and no query in it has a WHERE before its own. What is not plain is refuted
(`QueriesSeenThrough`, `UnflaggedIsSafe`).

Bounds: the alphabet of each dialect (about sixteen symbols: quotes, comment signs, two
dollar tags, two delimiters, letters, a DROP, a SELECT, blanks), comments nested to
depth two; predicates of up to three comparisons over two columns and two numbers,
with groups, NOT, AND, OR, IN and BETWEEN; a few of them within an UPDATE whose SET has a
query, with RETURNING or ORDER BY and LIMIT behind them, or behind a WITH. The columns of a
predicate are those of the table that is changed: joins (`FROM`, `USING`, `JOIN`) are
in `JoinsFlagged` only. Left out: queries in a predicate (`a IN (SELECT ...)`, which counts as a
restriction whatever the query returns), other statements that change rows (MERGE,
REPLACE, EXPLAIN ANALYZE of one), which are judged by their first word alone, selections and the
statement at the cursor, object names, the fingerprint, executable comments of MySQL, NO_BACKSLASH_ESCAPES.

| Run | Question | Result |
|---|---|---|
| `sql_plan` | is what is judged one statement for the server (`OneStatementEach`), are DROPs flagged and reads reads (`FlagsAreTrue`), does a plain UPDATE or DELETE that is not flagged leave a row alone (`UnflaggedRestricts`) | holds, 710k states |
| `claim_comments` | does a comment of any dialect hide nothing (`CommentsAreSeenThrough`) | violated |

## Local store and files

`LocalStore` is `LocalStore::open` and `migrate`, a statement at a time: `Connect`,
`QuickCheck`, `SetAutoVacuum`, `ReadVersion`, `RunStatement`, `CommitVersion`, `OpenPool`.
Any of them may fail (`OpenFails`), and the process may die between any two
(`StoreDies`). `db` is what a later start finds; `opening.made` is what the transaction
of a migration has done and not committed.

`LocalFiles` runs on it: the file commands of `phase1.rs`, `atomic_write`, and the
bookkeeping of `App.svelte` that calls them.

* Native state: `registered` (tabs of the window), `grants` (file and stamp),
  `pending` and `routing` (files of the command line and of second instances), `stored`
  (the workspace row). Page: tabs with text and mark, the timer of workspace saves, the
  drain of routed files.
* `RouteRead`, `RouteQueue`, `Drain`, `take_pending_sql_files`, `appendOpenedSqlFiles`;
  `PickRead`, `PickGrant`; `SaveFile`, `CheckSource`, `CompareStamp` (or `ChoosePath`),
  `WriteTemporary`, `Rename`, `Restamp`, `ApplySaved`; `save_workspace`, `StoreWorkspace`;
  `bootstrap_workspace`, `ApplyBootstrap`. `OthersWrite` is any other program, `Die` the end
  of the process, after which it is started again.

The stamp of a file (time, length, hash) is its text; a write that restores all of
them goes unseen by the program too. The time and the length are taken after the bytes, so
the program notices a write between the two; the model does not and excepts it. A page is
bootstrapped once per process: reloads are `SessionLifecycle`'s, and one between the reply of
`take_pending_sql_files` and its append loses the file. `bootstrap_workspace` and `RouteQueue` take
the locks of ownership, grants and queue one after the other; here each is one step, so a
file that is routed across the bootstrap is one that was routed before it. Fields that only remember (`seen`, `raced`, `early`,
`excused`, `overtaken`) are history. `setting.meets` lists what a behaviour may meet.

Bounds: one file, two texts, two tabs, three grants, one pending file, nine settings of
two to seven events and every store a first start may find (none, damaged, versions 1
to 4). One file is enough for two tabs to share, and a second one adds no
relation a property speaks of. A closed tab leaves its grant behind in the program, so
three grants bound a behaviour. Identifiers nobody holds are used again.

Fairness: the native and the page's event loops run every call that is ready, up to
the queue of routed files and the saves made for it; dialogs, users and the timer owe nothing.

| Run | Question | Result |
|---|---|---|
| `local_files` | does a save replace only what its tab has seen (`NothingOverwrittenUnseen`), can every tab be saved, closed and recovered (`TabsStayUsable`), is an unmarked tab saved, after a restart too (`CleanMeansSaved`), are routed files shown (`RoutedFilesOpen`), is the store whole (`SchemaWhole`) and an old one kept (`OldStoreKept`) | holds, 304k states |
| `claim_routed` | is a tab of the command line usable (`RoutedFilesUsable`) | violated |

## Proofs

Eight modules, each about one module of the model. The theorems hold for every value
of the constants that its `ASSUME` admits: any number of tabs, sessions, executions,
commands and checks in flight, statements, clicks, connections, files, reloads and crashes.

| Module | Theorems | Assumption |
|---|---|---|
| `OwnershipRegistryProofs` | `TypeCorrect`, `OwnershipChainHolds`, `TerminalExecutionsStayDead`, `NoExecutionVanishes`, `WindowsAreIsolated` (`WindowIsolation`) | `OwnershipAssumption`: the markers are none of the values they stand beside |
| `SessionLifecycleProofs` | `NoAttemptIsForgotten` (`AttemptsAreLive`), `CommandsImplementOwnership` (`OwnerSpec`), `OneExecutionPerSession` (`OneJobPerSession`), `OldPagesStartNothing` (`OldStartsRefused`), `RegistriesEndInAgreement` (`RegistriesAgree`) | `LifecycleAssumption`: the same, and every tab has a home |
| `ExecutionStreamProofs` | `TheOutcomeIsTrue`, `NothingFollowsTheTerminal`, `LateEventsAreDropped`, `CompletedResultsAreComplete` (`CompletedIsComplete`), `CopiesInLockstep` (`Lockstep`), `RowsAreAskedFor` (`TrancheAuthorized`), `AcksAreNotLost` (`AckOnItsWay`), `ReleaseIsDue` (`ReleaseDue`) | `StreamAssumption`: limits are positive, the markers are none of the values they stand beside |
| `WorkbenchProofs` | `ChecksAreReleased` (`OneLiveCheck`), `ChecksKeepTheirGeneration` (`OwnGeneration`), `ReplacementsAreClean` (`NothingLost`), `UsedOnceAsReviewed` (`UsedAsReviewed`) | `WorkbenchAssumption`: the marker is none of the values it stands beside, the home context is one |
| `ProfileDeletionProofs` | `DeletionLeavesThemAgreeing` (`RegistryFollowsStore`), `DeletionKeepsItsPromise` (`DeletionSpec`) | `DeletionAssumption`: the markers are none of the values they stand beside; both with `Reloads = 0`, the first where no checkbox changes after the click |
| `AdapterSessionsProofs` | `CompletedIsWhole` (`CompletedResultIsWhole`), `ManualWriteIsHeld` (`ManualWritesWait`), `BatchesAreAtomic` (`BatchIsAtomic`), `CleanSessionsHideNothing` (`CleanHidesNothing`) | `BoundsAssumption`: limits are positive |
| `LocalFilesProofs` | `TabsAlwaysUsable` (`TabsStayUsable`), `CleanIsSaved` (`CleanMeansSaved`), `SavesOverwriteWhatWasSeen` (`NothingOverwrittenUnseen`), `SchemaIsWhole`, `OldStoreIsKept`, `SignalsAreKept` (`SignalKept`), `RoutedFilesAreKept` (`RoutedFilesStay`) | `StoreAssumption`: a start finds no store, a damaged one, or one of some version; `LocalFilesAssumption`: the markers are none of the values they stand beside, nor a reply, tabs are numbered (a setting bounds them), a setting is one of `Setting` |
| `SqlPlanProofs` | `StatementsAreWhole` (`OneStatementEach`), `FlagsAreRight` (`FlagsAreTrue`), `UnflaggedLeavesRows` (`UnflaggedRestricts`) | `SqlTextAssumption`: dialects and alphabets are known, and only a MySQL script has DELIMITER lines; the first two where no setting is `strict`, the third where every statement is one of `Statements` |

None of the invariants is inductive as it stands.

* Ownership: `TypeOK /\ OwnershipChain /\ TerminalIsNotLive`. The chain needs `TypeOK` (an
  owner must be a record with the fields the guards compare). The guard of
  `unregister_session` only protects an execution because the chain says that it carries
  the owner of its session: the code compares all four identifiers, so an execution
  filed under another tab would slip past it. `ChainInductive` has a step per method.
  `WindowsAreIsolated` needs the chain as well: `unregister_profile` rebinds the tabs of a
  profile whatever their window, and only the chain says that it is one.
* Commands: `LifeInv` says what a command in flight has learned by its stage (`Flights`: an
  "insert" names what was registered for it) and that a session identifier not yet
  issued owns nothing (`Fresh`), without which `register_session` could overwrite an owner.
  From it follow `AttemptsAreLive`, one step per action, and `OwnerSteps`: every action is a
  method of the registry or leaves its five tables alone. With the theorems about the
  registry this carries the chain over to the commands.
* One execution for each session: a start that has passed its checks owns its session until
  its execution is inserted (`Exclusive`), though the commands of other tabs and pages run
  in between. Starts of one page follow each other (`Serial`, by its busy flag). A start of
  a page that was replaced may still be anywhere between its checks and its insert, but its
  session was released by the bootstrap of the page that came after (`Buried`), and
  `register_execution` authorises the session again. `OldStartsRefused` is that second
  authorisation; `Generations` and `Issued` (identifiers are not issued twice) carry both.
* The two registries: `Registered` says which command stands between them, an open that is
  about to insert the session it registered or a close about to remove what it
  unregistered, and `Running` the same of executions, with the start that launches one and
  the bridge that ends it and knows its owner exactly. `Named` keeps two commands from
  meeting at one session. All of it is said of runs with no reload and no loss, as the
  property is (`Undisturbed`): the claim `RegistriesMatch` shows what a reload leaves.
* Streaming: `OutcomeInv` says where the producer stands from the moment it has sent a
  terminal event, and that what the event tells of `stmt`, `flags` and `cancelled` no longer
  changes: the bridge may read it much later, with cancellations and reloads between.
  `LateEventsDropped` needs `MoreTyped` and `LateInv` (a page that was replaced has no Cancel
  button and no click that could still ask for the old result).
* Counting rows: `StreamTyped` types what goes through the channels, and a lemma for each
  side says what a step does to the counts: what the producer sends (`ProducerSends`), what
  the registry makes of an event (`Retains`), what the page makes of it (`Shows`), that
  commands only move marks (`CommandSteps`). `CompleteInv` follows the end of a result to
  the page, which learns of it when the producer is statements ahead: an end under way that
  says completed is about a result whose counts no longer change (`Over`), and a cursor
  being drained was read out or has a `Reason` not to complete. `Lockstep` rests on three
  invariants. `FreshInv`: a statement that has not begun left nothing in the pipe.
  `Ordered`, as long as no reload disturbed the execution: page, registry and producer run
  in this order, and an acknowledgement under way is of a batch the page counted.
  `FlowInv`, as long as nobody cancelled either: level while the producer reads, and
  while it waits either copy lacks at most the batch under way, which makes up the
  difference. An acknowledgement of the batch it waits for puts the page at its end, and the
  registry between page and producer, so all three are level.
* Load more: `RowsInv` bounds what the registry retains by what the producer counted and no
  longer holds. `TrancheInv` bounds that: `limit` is a number of tranches, and that number
  together with the Load more controls still in the channel (`Asks`) is at most one more
  than the clicks that were sent (`Asked`). So a control dropped by another wait, or one of
  another result, only loses its tranche. `AsksTaken` and `AsksAppended` count the
  controls of a channel by their positions, as a fold would need induction.
* Health checks: `HealthInv` says what a check still knows of what it cloned several awaits
  ago (`Knows`). A check whose generation is current was not cancelled, so it holds the
  entry and no other check is at work on the session. While the session of the tab is the
  one it cloned, it is on the connection the check cloned, for only another live check
  could have moved it. And if pings fail for lost connections only, what it is about to
  replace was lost and clean when it looked, and stays so: nothing brings a lost connection
  back or changes its certainty (`Grows`), though commands run meanwhile. Session
  identifiers are never issued twice (`Owned`), so a late check finds its own session or
  none. A cancelled check that finishes its step has nothing to touch.
* Approvals and plans: `Shown` says that what is left in the tables names either a session
  that is gone for good or what its user was shown last, that there is one plan at a time,
  and that nothing that started is in the tables any more. Four steps give out or start
  something and have a lemma each (`ApprovalsAreAsked`, `ApprovalsStartOnce`,
  `PlansArePreviewed`, `PlansStartOnce`); all others withdraw (`OthersWithdraw`), and
  `WithdrawsKeeps` covers them together.
* Deletion: a script of the page is alone with the profile (`OneScript`), for `busy` keeps
  its scripts apart, and the timer's save is the only other command. `DeletionInv` says
  what the script still knows at each of its awaits (`Staged`: the profile is there until
  the transaction that deletes it, its registration until the end). The theorem needs
  `Reloads = 0`: after a reload the script of the replaced page and that of the new one
  both run, and the claim `GoneForGood` shows what comes of it. `AloneInv` adds, for a user
  who does nothing else, that the stored deletion names the credential of the profile, that
  the vault has obeyed where the store says so (`Owing`), and that the script works on what
  is stored (`Settled`). With it every step is one of the promise: `EditsSecret`, `Begins`,
  `Erases` and `Finishes` name the four kinds of step that are, one per action of
  `DeletionPromise`; all others stutter (`Stutters`), the failures, the end of the process
  and the retries among them. `StepIsPromised` joins them.
* Adapters: each adapter is an instance of the shared modules, so their steps are copies,
  and `MySqlShares`, `PostgresShares` and `SqliteShares` show that they agree with
  `ResultStream`: what is proved of a shared step is proved once. `StreamInv` says that what
  was passed over is owed to a flag of the result or to the error of its statement. `LockInv`
  has one call at a time on the connection of a MySQL session: a mode switch cannot slip
  between the lock and the write. `ManualInv`, that manual mode is the server's, holds
  because a switch changes what the session shows only after the server has answered.
  `TableInv` tells step by step what a batch has done to the server. `AskedInv` follows the
  question MySQL is asked after each statement, `LedgerInv` the book SQLite keeps by itself.
* Store: `StoreInv` has the version and the parts agree at every committed point (`Whole`),
  says what each stage of an opening knows (`Migratable`), and that only a file that was
  not there is made (`NewIsEmpty`). `OnlyTheOpenWrites` shows that no file command, page step
  or other program writes the store, so the theorems hold of all of `LocalFiles`.
* Tabs and files: `FilesInv` follows each copy of a tab from step to step: what the page
  shows (`ShownFit`), what was routed and is not shown yet (`OpenedFit`), the replies of the
  bootstrap and of an open (`BootFit`, `NewFit`), what a workspace save carries (`AskedFit`)
  and what is stored (`Books`). Each is of a registered tab with a granted file and has the
  text its grant says, or a mark. A save changes what a grant says, so `Restamp` needs `Sole`
  (a grant is given for one tab) to leave all other copies alone, and `SaveKnows`, what the
  save still knows of its tab, grant and file after each await. A close takes a tab off
  the registry while the page still shows it; `Apart` has no second copy of it under way.
  A workspace save resolves its copies after the page may have moved on: they are as
  their grants say, or a save overtook them and `Overtake` records the race that
  `CleanMeansSaved` names. The bootstrap empties the registry, which is sound only because
  nothing but routed files can be there by then (`Resting`); those are the tabs marked
  `early`, which `TabsStayUsable` excepts and `claim_routed` shows to be unusable.

* SQL text: three automata read one text, and `TextInv` says how far apart they may be.
  Splitter and server are at the same place (`Level`), but after MySQL's `--` the server
  waits for a blank (`Dashes`) while the splitter is in a comment, and in a PostgreSQL literal
  that may or may not take escapes the server may pass over what follows a backslash: where that is a
  quote the splitter refuses the script (`Ambiguous`). That they agree on the E before a
  literal and on dollar tags needs what the server knows of the identifier it is in
  (`Words`). `code_tokens` knows no dialect, so it is not level with the server; but it is
  until the first word is known (`Unread`), and from then on what the server knows of that
  word stays (`Grown`): both have the same, or the server had it behind a comment that only the dialect
  has, or it was a sign (`Judged`). Where both are level, a delimiter ends the statement for both or for
  neither (`EndsTogether`). The steps
  of `SqlPlan` are on these variables those of `SqlText` (`PlanIsText`).
* Predicates: `Formulas` is the smallest set that has the comparisons, IN, BETWEEN, IS NULL,
  TRUE and FALSE (`Leaves`) and is closed under group, NOT, AND and OR, so what holds of
  the leaves and is kept by the four holds of all (`FormulasAreSure`); it is closed itself
  (`FormulasAreClosed`), so there are some of every size. `Leaves` lacks `x <= x`, `x >= x`
  and `x IN (x)`, which the code takes for restrictions (`ConstantTrueFlagged`). A recursive
  function stands for a CHOOSE: that it is what its definition says
  (`PredicateEffectiveness`) is proved for tokens of each length in turn, by the least
  counterexample (`LeastNumber`). So is what makes a predicate effective: no OR, and a
  comparison that restricts behind nothing but opening parentheses (`EffectiveLeads`; the
  code strips them without matching them). That such a predicate leaves a row alone is
  `Sure`: what an AND adds only takes rows away, an OR is refused, a NOT is no comparison.
* Statements: `Statements` puts any tokens before the own WHERE of a change and any clauses (RETURNING,
  ORDER BY, LIMIT) behind its predicate. In a plain one the first WHERE is its own
  (`FirstWhere`); the tokens behind it are the predicate and the clauses (`Behind`), and what
  leads these leads the predicate, for it ends in no operator and no clause starts with one
  (`LeadsInFront`).

* What three of the liveness properties rest on is safety, and proved. `AckWaitEnds`: while the
  producer waits, the batch it waits for is in `events` or `inbox`, or its
  acknowledgement, or the Cancel of a page that refused an event, is in `ack`, `controls` or
  `cancel_cmd` (`AcksAreNotLost`): each hand-over puts the next in place before it takes the
  last one away, and the page that must answer still shows the execution (`AckInv`).
  `ExecutionReleased`: a bridge that listens to a producer that is done has a terminal event
  to read, and one that stopped has taken the execution, with the sender of its controls, out of the
  map (`ReleaseIsDue`). `RoutedFilesOpen`: while a file waits in the queue a drain is
  requested or the one under way has not looked yet (`SignalsAreKept`, by `DrainInv`), and a
  file leaves queue and reply only for the page, or with the process
  (`RoutedFilesAreKept`). What is missing is that each of these steps is taken: that is
  fairness, and `execution_liveness` and `local_files` check it. The four are in no cfg;
  added to those of `execution_safety` and `local_files` they hold there.

Every invariant and action property of the passing runs but the `~>` ones is a theorem.
Only model-checked are those six: `AckWaitEnds`, `CancelStops`, `ExecutionReleased`,
`PendingEnds`, `HealthEnds` and `RoutedFilesOpen`. Liveness, and the ENABLED that fairness
stands for, is out of the provers' reach. So are the counterexamples of the two claims.

## Where the code and the documents part

Each of these has a run that finds a shortest counterexample; quotes and lines are in
`findings`.

1. `code_tokens` reads comments alike in every dialect, so the first token of a statement
   below a MySQL `#` comment is `#`, and a DROP there is not flagged (`claim_comments`). A
   nested PostgreSQL comment ends too early with the same effect.
2. The files of the command line are routed before the page asks for its workspace, and
   `bootstrap_workspace` forgets their tabs and grants: such a tab can be neither saved nor
   closed, and the workspace not saved while it is open (`claim_routed`).

More statements of the documents and comments that the code does not keep in every
interleaving are in the seven Claims modules, each with its quotation. Its `.cfg` checks
one and lists what to change for the others; they are run by hand.

| Property | What TLC finds |
|---|---|
| **ExecutionStreamClaims** | |
| `CancelIsNotAFailure` | Cancel during the wait for an acknowledgement: the producer does not count the batch, the registry did, and the terminal event is rejected as an integrity failure |
| `ShownResultsEnd` | a statement fails after its first batch: `Failed` comes before the terminal event of its result and ends the bridge |
| `TerminalStateStays` | the reply of `cancel_execution` overwrites a terminal state on the page |
| `PauseIsShown` | the reply of Load more clears the mark of the next pause |
| `ReloadForgetsResults` | the epoch of the bridge is read after a reload that came right after the registration; its results fill the new registry |
| `ReloadEndsJob` | a clean-up before the producer's first step finds no flag; a long statement runs on |
| **SessionLifecycleClaims** | |
| `OneSessionPerTab` | an open from before a reload and one from after it both register |
| `DisconnectedMeansIdle` | a tab opens its session while its profile is being disconnected |
| `CancelledStaysOut` | a cancellation accepted after the `select!` has resolved does not keep the connection out |
| `ConnectCanBeCancelled` | the failing connect of the old page removes the attempt of the new one |
| `RegistriesMatch` | a reload between registration and insertion leaves one registry with a session the other does not have |
| `OneJob` | two `start_execution` commands both pass the idle check; only the page's busy flag prevents it |
| **ProfileDeletionClaims** | |
| `WorkspaceRestored` | an autosave overtaken by the deletion stores a tab of the profile; the next `bootstrap_workspace` fails on it |
| `CredentialGone` | a credential saved while the deletion is pending outlives the profile |
| `ChoiceHonoured` | a retry carries out the choices of the first confirmation |
| `HistoryReleased` | the entry of the last job is saved after the deletion and names the deleted profile |
| `RegistryFollowsStore` | with `toggle`: a checkbox changed between the click and the request parts the page from the registry |
| `GoneForGood` | an edit from a reloaded page, read before the deletion's transaction, writes the profile back |
| **WorkbenchClaims** | |
| `TransactionKept` | a ping times out on a connection that is well; an execution that runs while its replacement opens leaves a transaction, which goes with the old connection |
| `ContextPreserved`, `ModePreserved` | the check replaces a session with the context and the mode it cloned before a command changed them |
| `PlanProtected` | a plan made after the check looked for one does not protect its session |
| `ReconnectInvalidates`, `ContextInvalidates` | an approval survives the replacement of its connection, or a change of context |
| **AdapterSessionsClaims** | |
| `TransactionShown` | PostgreSQL: a write after a handwritten BEGIN shows a clean session; a change to automatic mode races the lazy BEGIN; MySQL 5.7: a cancelled write |
| `UnclassifiableIsUnknown` | MySQL 5.7: what cannot be classified leaves the certainty as it was |
| `ManualWriteWaits` | SQLite rolls back on an interrupt, the certainty stays active, and the next write is committed on its own |
| `CancelledOnRequest` | a late KILL of one execution cancels the next |
| **SqlPlanClaims** | |
| `CommentsAreSeenThrough` | nested comments of PostgreSQL, beside the finding |
| `RoutineBodiesWhole` | the body of a trigger is cut at its first semicolon |
| `CommentsAsServer` | `--` not followed by a blank is a comment to the splitter and two minus signs to MySQL |
| `QueriesSeenThrough` | `classify_destructive` takes the first WHERE of a statement for its own: `UPDATE t SET a = (SELECT b FROM u WHERE a = 1)` changes every row and is not flagged |
| `UnflaggedIsSafe` | an UPDATE or DELETE behind a WITH has another first word and is not flagged |
| `JoinsFlagged` | a predicate on the other table of a join counts as a restriction |
| `ConstantTrueFlagged` | a comparison of a column with itself, other than by `=`, counts as a restriction |
| **LocalFilesClaims** | |
| `ExternalChangeStops` | another program writes after the comparison of the stamps and before the rename |
| `UnsavedIsMarked` | what was typed while a save was under way is marked saved by its reply |
| `PagesAreReturned` | the first start dies between creating the store and the pragma; the next one leaves it out |

## Not modelled

* `state.rs`: two state machines that only their own unit tests use. The states the program
  keeps are those of `ExecutionStream`.
* `table.rs` and `value.rs`: pure construction of statements and values from a definition. What
  is stateful about them, the one-use plan, is in `Workbench`.
* `explain.rs`: normalisation parses the plans of three servers; the job is in `Workbench` and
  its round trips in `ResultStream`.
* Opening connections, TLS, catalogue queries and the decoding of values in the three
  adapters: sequences of requests whose failure ends the command.
* Byte limits of batches and results: they show as the choice to flush or to stop early.
  That `accept_batch` and the producer count column metadata differently is a hazard
  without a property.
* Diagnostics, updates, window geometry, the close guard, editor, grids, completion: one
  actor, or presentation. Generated contracts, fixtures and scripts: build tooling.
* Two executions that overlap on one session, and a profile that is connected while its
  deletion awaits the store: see the plan.
