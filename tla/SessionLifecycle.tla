-------------------------- MODULE SessionLifecycle --------------------------
(***************************************************************************)
(* The life of a profile's connection, of the dedicated session of a tab   *)
(* and of the executions that run on it (src-tauri/src/phase2.rs), through *)
(* the reload of the page (bootstrap_workspace in phase1.rs).              *)
(*                                                                         *)
(* Every Tauri command is a future of its own on a multi-threaded runtime: *)
(* it gives way to all the others at each await, and between the changes   *)
(* it makes under two locks; the checks up to the first of these are one   *)
(* step.  A command is a slot of cmd; an action takes one command from one *)
(* such point to the next.  The ownership graph is OwnershipRegistry; the  *)
(* registries of Phase2Runtime are kept beside it, under other locks.      *)
(* Approvals, results, mutation plans and transactions are left out: they  *)
(* only add refusals to the commands modelled here.                        *)
(***************************************************************************)
EXTENDS Naturals, FiniteSets

CONSTANTS
  Main,             \* AppRuntimeState.window_id: the program has one window
  Profile, Tab, Session, Execution,
  Home,             \* [Tab -> Profile]: the profile a stored tab is bound to
  Command,          \* slots for the commands in flight
  Settings,         \* what the behaviours of an instance may hold, see Setting
  NoProfile, Absent

(* commands: bound on the commands in flight; reloads: bound on reloads of *)
(* the page; losses: a connection may be lost under an execution;          *)
(* serialises: the page keeps its busy flag (App.svelte).                  *)
Setting == [commands : Nat, reloads : Nat, losses : BOOLEAN, serialises : BOOLEAN]

(* A command in flight: where it is, and what it was asked and has learned. *)
Request ==
  [op : {"none", "bootstrap", "connect", "disconnect", "open", "start", "close"},
   at : {"check", "reading", "profiles", "tabs", "secrets", "opening", "opened",
         "checked", "insert", "remove"},
   profile : Profile \cup {Absent}, tab : Tab \cup {Absent},
   session : Session \cup {Absent}, execution : Execution \cup {Absent},
   cancelled : BOOLEAN, generation : Nat]

(* The task that ends an execution, and the epoch it was spawned in.        *)
Bridge == [at : {"running", "remove", "mark", "unregister", "drop", "done"},
           tab : Tab, session : Session, epoch : Nat, lost : BOOLEAN]

(* What the ownership graph keeps of a session and of an execution.         *)
Owner == [window : {Main}, profile : Profile, tab : Tab]
JobOwner == [window : {Main}, profile : Profile, tab : Tab, session : Session]

ASSUME LifecycleAssumption ==
  /\ Home \in [Tab -> Profile]
  /\ Settings \subseteq Setting
  /\ Absent \notin Profile \cup Tab \cup Session \cup Execution \cup Command
  /\ Absent \notin Request \cup Bridge \cup Owner \cup JobOwner

VARIABLES
  profiles, tabs, sessions, executions, terminal_executions,  \* the ownership graph
  connected,         \* Phase2Runtime.connected: the profiles it holds
  native_sessions,   \* Phase2Runtime.sessions: [Session -> Tab or Absent]
  jobs,              \* Phase2Runtime.executions: [Execution -> Session or Absent]
  attempts,          \* Connect attempts: [Profile -> Command or Absent]
  lifecycle_epoch,   \* clean-ups so far
  bridge,            \* [Execution -> Bridge or Absent]: bridge_execution_events
  minted,            \* session identifiers already issued
  cmd,               \* [Command -> a command in flight, or Absent]
  page,              \* what the page of the current generation knows
  setting            \* the member of Settings this behaviour keeps to

registry == <<profiles, tabs, sessions, executions, terminal_executions>>
runtime == <<connected, native_sessions, jobs, attempts, lifecycle_epoch>>
vars == <<registry, runtime, bridge, minted, cmd, page, setting>>

O == INSTANCE OwnershipRegistry WITH Window <- {Main}

NewPage(generation) ==
  [generation |-> generation, at |-> "loading",
   connected |-> {}, session |-> [t \in Tab |-> Absent]]

Init ==
  /\ O!Init
  /\ connected = {}
  /\ native_sessions = [s \in Session |-> Absent]
  /\ jobs = [e \in Execution |-> Absent]
  /\ attempts = [p \in Profile |-> Absent]
  /\ lifecycle_epoch = 0
  /\ bridge = [e \in Execution |-> Absent]
  /\ minted = {}
  /\ cmd = [c \in Command |-> Absent]
  /\ page = NewPage(0)
  /\ setting \in Settings

-----------------------------------------------------------------------------
(* A command in flight.                                                    *)

Blank == [op |-> "none", at |-> "check", profile |-> Absent, tab |-> Absent,
          session |-> Absent, execution |-> Absent, cancelled |-> FALSE,
          generation |-> page.generation]

At(c, op, at) == cmd[c] # Absent /\ cmd[c].op = op /\ cmd[c].at = at

Advance(c, at) == cmd' = [cmd EXCEPT ![c].at = at]

(* The promise of a page that was replaced is gone: its reply is dropped.  *)
Reply(c, learned) ==
  /\ cmd' = [cmd EXCEPT ![c] = Absent]
  /\ page' = IF cmd[c].generation = page.generation THEN learned ELSE page

Answer(c) == Reply(c, page)

(* State<Mutex<OwnershipRegistry>>: some commands keep it over several     *)
(* changes.                                                                *)
OwnershipHeld ==
  \/ \E c \in Command : cmd[c] # Absent /\ cmd[c].at \in {"profiles", "tabs"}
  \/ \E e \in Execution : bridge[e] # Absent /\ bridge[e].at = "unregister"

Connects(p) == [page EXCEPT !.connected = @ \cup {p}]
Disconnects(p) == [page EXCEPT !.connected = @ \ {p}]
Learns(t, s) == [page EXCEPT !.session[t] = s]

-----------------------------------------------------------------------------
(* The page.  runAction refuses an action while another is under way, and  *)
(* ensureTabSession shares the open of a tab that is still pending.  With   *)
(* serialises FALSE the native side meets every order of requests.         *)

Mine(op) == {c \in Command : /\ cmd[c] # Absent
                             /\ cmd[c].op \in op
                             /\ cmd[c].generation = page.generation}

busy == Mine({"bootstrap", "connect", "disconnect", "start", "close"}) # {}

Opening(p) == \E c \in Mine({"open"}) : cmd[c].profile = p

Issue(c, command) ==
  /\ cmd[c] = Absent
  /\ Cardinality({d \in Command : cmd[d] # Absent}) < setting.commands
  /\ cmd' = [cmd EXCEPT ![c] = command]
  /\ UNCHANGED <<registry, runtime, bridge, minted>>

runAction(c, command) ==
  /\ page.at = "ready"
  /\ setting.serialises => ~busy
  /\ Issue(c, command)
  /\ UNCHANGED page

(* Identifiers are fresh; a request is made while there are enough left.   *)
Spare(ids, op) ==
  Cardinality(ids) > Cardinality({c \in Command : cmd[c] # Absent /\ cmd[c].op = op})

bootstrap(c) ==
  /\ page.at = "loading"
  /\ page' = [page EXCEPT !.at = "bootstrapping"]
  /\ Issue(c, [Blank EXCEPT !.op = "bootstrap"])

connectProfile(c, p) == runAction(c, [Blank EXCEPT !.op = "connect", !.profile = p])

(* disconnectProfile closes the sessions it knows before it disconnects,   *)
(* and does not start while the session of a tab is being opened.          *)
disconnectProfile(c, p) ==
  /\ setting.serialises => ~Opening(p)
  /\ \A t \in Tab : Home[t] = p => page.session[t] = Absent
  /\ runAction(c, [Blank EXCEPT !.op = "disconnect", !.profile = p])

ensureTabSession(c, t) ==
  /\ page.at = "ready"
  /\ Home[t] \in page.connected
  /\ page.session[t] = Absent
  /\ setting.serialises => \A d \in Mine({"open"}) : cmd[d].tab # t
  /\ Spare(Session \ minted, "open")
  /\ Issue(c, [Blank EXCEPT !.op = "open", !.profile = Home[t], !.tab = t])
  /\ UNCHANGED page

startExecutionRequest(c, t) ==
  /\ page.session[t] # Absent
  /\ Spare({e \in Execution : executions[e] = Absent} \ terminal_executions, "start")
  /\ runAction(c, [Blank EXCEPT !.op = "start", !.profile = Home[t], !.tab = t,
                                !.session = page.session[t]])

closeProfileSessions(c, t) ==
  /\ page.session[t] # Absent
  /\ runAction(c, [Blank EXCEPT !.op = "close", !.profile = Home[t], !.tab = t,
                                !.session = page.session[t]])

Page ==
  \E c \in Command :
    \/ bootstrap(c)
    \/ \E p \in Profile : connectProfile(c, p) \/ disconnectProfile(c, p)
    \/ \E t \in Tab :
         ensureTabSession(c, t) \/ startExecutionRequest(c, t) \/ closeProfileSessions(c, t)

Reload ==
  /\ page.generation < setting.reloads
  /\ page' = NewPage(page.generation + 1)
  /\ UNCHANGED <<registry, runtime, bridge, minted, cmd>>

-----------------------------------------------------------------------------
(* bootstrap_workspace: clean-up, an await on the store, then the graph is *)
(* rebuilt under one lock.                                                 *)

cleanup(c) ==
  /\ At(c, "bootstrap", "check")
  /\ lifecycle_epoch' = lifecycle_epoch + 1
  /\ jobs' = [e \in Execution |-> Absent]
  /\ native_sessions' = [s \in Session |-> Absent]
  /\ connected' = {}
  /\ attempts' = [p \in Profile |-> Absent]
  /\ cmd' = [d \in Command |->
               CASE d = c -> [cmd[d] EXCEPT !.at = "reading"]
                 [] d # c /\ (\E p \in Profile : attempts[p] = d) ->
                       [cmd[d] EXCEPT !.cancelled = TRUE]
                 [] OTHER -> cmd[d]]
  /\ UNCHANGED <<registry, bridge, minted, page>>

cleanup_window(c) ==
  /\ At(c, "bootstrap", "reading")
  /\ ~OwnershipHeld
  /\ O!cleanup_window(Main)
  /\ Advance(c, "profiles")
  /\ UNCHANGED <<runtime, bridge, minted, page>>

RegisterProfiles(c) ==
  /\ At(c, "bootstrap", "profiles")
  /\ \/ \E p \in Profile :
          /\ profiles[p] = Absent
          /\ O!register_profile(Main, p)
          /\ UNCHANGED cmd
     \/ /\ \A p \in Profile : profiles[p] # Absent
        /\ Advance(c, "tabs")
        /\ UNCHANGED registry
  /\ UNCHANGED <<runtime, bridge, minted, page>>

RegisterTabs(c) ==
  /\ At(c, "bootstrap", "tabs")
  /\ \/ \E t \in Tab :
          /\ tabs[t] = Absent
          /\ O!register_tab(Main, Home[t], t)
          /\ UNCHANGED <<cmd, page>>
     \/ /\ \A t \in Tab : tabs[t] # Absent
        /\ Reply(c, [page EXCEPT !.at = "ready"])
        /\ UNCHANGED registry
  /\ UNCHANGED <<runtime, bridge, minted>>

bootstrap_workspace(c) ==
  cleanup(c) \/ cleanup_window(c) \/ RegisterProfiles(c) \/ RegisterTabs(c)

-----------------------------------------------------------------------------
(* connect_profile.                                                        *)

ConnectChecks(c) ==
  LET p == cmd[c].profile IN
  /\ At(c, "connect", "check")
  /\ ~OwnershipHeld
  /\ \/ ~O!authorize_profile(Main, p) /\ Answer(c)
     \/ O!authorize_profile(Main, p) /\ p \in connected /\ Reply(c, Connects(p))
     \/ /\ O!authorize_profile(Main, p) /\ p \notin connected
        /\ Advance(c, "secrets")
        /\ UNCHANGED page
  /\ UNCHANGED <<registry, runtime, bridge, minted>>

(* After the profile and its secrets were read.                            *)
begin_connection_attempt(c) ==
  LET p == cmd[c].profile IN
  /\ At(c, "connect", "secrets")
  /\ \/ attempts[p] # Absent /\ Answer(c) /\ UNCHANGED attempts
     \/ /\ attempts[p] = Absent
        /\ attempts' = [attempts EXCEPT ![p] = c]
        /\ Advance(c, "opening")
        /\ UNCHANGED page
  /\ UNCHANGED <<registry, connected, native_sessions, jobs, lifecycle_epoch, bridge, minted>>

(* The select! polls the cancellation first.                               *)
ConnectOpens(c) ==
  /\ At(c, "connect", "opening")
  /\ ~cmd[c].cancelled
  /\ Advance(c, "opened")
  /\ UNCHANGED <<registry, runtime, bridge, minted, page>>

(* finish_connection_attempt removes the entry of the profile, whoever     *)
(* made it.                                                                *)
finish_connection_attempt(p) == attempts' = [attempts EXCEPT ![p] = Absent]

(* Faulty: an error returns before the attempt is finished.                *)
ConnectFailsEarly(c) ==
  /\ At(c, "connect", "opening")
  /\ Answer(c)
  /\ UNCHANGED <<registry, runtime, bridge, minted>>

(* Cancelled, timed out or refused by the database.                        *)
ConnectFails(c) ==
  /\ At(c, "connect", "opening")
  /\ finish_connection_attempt(cmd[c].profile)
  /\ Answer(c)
  /\ UNCHANGED <<registry, connected, native_sessions, jobs, lifecycle_epoch, bridge, minted>>

Connected(c) ==
  LET p == cmd[c].profile IN
  /\ At(c, "connect", "opened")
  /\ finish_connection_attempt(p)
  /\ connected' = connected \cup {p}
  /\ Reply(c, Connects(p))
  /\ UNCHANGED <<registry, native_sessions, jobs, lifecycle_epoch, bridge, minted>>

connect_profile(c) ==
  \/ ConnectChecks(c) \/ begin_connection_attempt(c)
  \/ ConnectOpens(c) \/ ConnectFails(c) \/ Connected(c)

(* The user presses Cancel while connectionOperations has the profile.  The *)
(* command has no await; its answer says that the attempt was cancelled.   *)
cancel_profile_connection(p) ==
  /\ Mine({"connect"}) # {}
  /\ ~OwnershipHeld
  /\ O!authorize_profile(Main, p)
  /\ attempts[p] # Absent
  /\ cmd[attempts[p]] # Absent
  /\ cmd' = [cmd EXCEPT ![attempts[p]].cancelled = TRUE]
  /\ UNCHANGED <<registry, runtime, bridge, minted, page>>

(* disconnect_profile has no await between its checks and its removal.     *)
disconnect_profile(c) ==
  LET p == cmd[c].profile
      InUse == \E s \in Session : native_sessions[s] # Absent /\ Home[native_sessions[s]] = p
      Allowed == O!authorize_profile(Main, p) /\ ~InUse
  IN
  /\ At(c, "disconnect", "check")
  /\ ~OwnershipHeld
  /\ \/ ~Allowed /\ Answer(c) /\ UNCHANGED connected
     \/ Allowed /\ connected' = connected \ {p} /\ Reply(c, Disconnects(p))
  /\ UNCHANGED <<registry, native_sessions, jobs, attempts, lifecycle_epoch, bridge, minted>>

-----------------------------------------------------------------------------
(* open_tab_session.                                                       *)

OpenChecks(c) ==
  LET t == cmd[c].tab
      p == cmd[c].profile
      Allowed == O!authorize_tab(Main, p, t) /\ p \in connected
      Existing == {s \in Session : native_sessions[s] = t}
  IN
  /\ At(c, "open", "check")
  /\ ~OwnershipHeld
  /\ \/ ~Allowed /\ Answer(c)
     \/ Allowed /\ \E s \in Existing : Reply(c, Learns(t, s))
     \/ Allowed /\ Existing = {} /\ Advance(c, "opening") /\ UNCHANGED page
  /\ UNCHANGED <<registry, runtime, bridge, minted>>

(* The adapter has opened a session, or has failed to; the tab must still  *)
(* be owned.                                                               *)
OpenRegisters(c) ==
  LET t == cmd[c].tab
      p == cmd[c].profile IN
  /\ At(c, "open", "opening")
  /\ ~OwnershipHeld
  /\ \/ Answer(c) /\ UNCHANGED <<registry, minted>>
     \/ \E s \in Session \ minted :
          /\ O!register_session(Main, p, t, s)
          /\ minted' = minted \cup {s}
          /\ cmd' = [cmd EXCEPT ![c].at = "insert", ![c].session = s]
          /\ UNCHANGED page
  /\ UNCHANGED <<runtime, bridge>>

OpenInserts(c) ==
  LET t == cmd[c].tab
      s == cmd[c].session IN
  /\ At(c, "open", "insert")
  /\ native_sessions' = [native_sessions EXCEPT ![s] = t]
  /\ Reply(c, Learns(t, s))
  /\ UNCHANGED <<registry, connected, jobs, attempts, lifecycle_epoch, bridge, minted>>

open_tab_session(c) == OpenChecks(c) \/ OpenRegisters(c) \/ OpenInserts(c)

-----------------------------------------------------------------------------
(* close_tab_session and start_execution begin with the same checks:       *)
(* authorize_session, session_resource and ensure_session_idle, and then   *)
(* wait for the transaction state of the session.  What they refuse after  *)
(* that (an open transaction, a staged plan, a missing approval, a session *)
(* that is no longer owned or that is in use) is one disjunct.             *)

(* Faulty: ensure_session_idle is forgotten.                               *)
SessionOwned(c) ==
  LET s == cmd[c].session IN
  /\ O!authorize_session(Main, cmd[c].profile, cmd[c].tab, s)
  /\ native_sessions[s] = cmd[c].tab
  /\ cmd[c].op = "start" => cmd[c].profile \in connected

SessionReady(c) ==
  LET s == cmd[c].session IN
  /\ O!authorize_session(Main, cmd[c].profile, cmd[c].tab, s)
  /\ native_sessions[s] = cmd[c].tab
  /\ \A e \in Execution : jobs[e] # s
  /\ cmd[c].op = "start" => cmd[c].profile \in connected

SessionChecks(c, op) ==
  /\ At(c, op, "check")
  /\ ~OwnershipHeld
  /\ \/ ~SessionReady(c) /\ Answer(c)
     \/ SessionReady(c) /\ Advance(c, "checked") /\ UNCHANGED page
  /\ UNCHANGED <<registry, runtime, bridge, minted>>

(* Faulty: the refusal of the registry is ignored.                         *)
CloseUnregistersAnyway(c) ==
  LET s == cmd[c].session IN
  /\ At(c, "close", "checked")
  /\ ~OwnershipHeld
  /\ O!unregister_session(Main, cmd[c].profile, cmd[c].tab, s) \/ UNCHANGED registry
  /\ Advance(c, "remove")
  /\ UNCHANGED <<runtime, bridge, minted, page>>

CloseUnregisters(c) ==
  LET s == cmd[c].session IN
  /\ At(c, "close", "checked")
  /\ ~OwnershipHeld
  /\ \/ /\ O!unregister_session(Main, cmd[c].profile, cmd[c].tab, s)
        /\ Advance(c, "remove")
        /\ UNCHANGED page
     \/ Answer(c) /\ UNCHANGED registry
  /\ UNCHANGED <<runtime, bridge, minted>>

CloseRemoves(c) ==
  /\ At(c, "close", "remove")
  /\ native_sessions' = [native_sessions EXCEPT ![cmd[c].session] = Absent]
  /\ Reply(c, Learns(cmd[c].tab, Absent))
  /\ UNCHANGED <<registry, connected, jobs, attempts, lifecycle_epoch, bridge, minted>>

close_tab_session(c) ==
  SessionChecks(c, "close") \/ CloseUnregisters(c) \/ CloseRemoves(c)

(* Faulty: the session is not authorised again after the await.            *)
StartRegistersUnchecked(c) ==
  /\ At(c, "start", "checked")
  /\ ~OwnershipHeld
  /\ \E e \in Execution :
       /\ executions[e] = Absent /\ e \notin terminal_executions
       /\ executions' = [executions EXCEPT ![e] =
            [window |-> Main, profile |-> cmd[c].profile, tab |-> cmd[c].tab,
             session |-> cmd[c].session]]
       /\ cmd' = [cmd EXCEPT ![c].at = "insert", ![c].execution = e]
  /\ UNCHANGED <<profiles, tabs, sessions, terminal_executions, runtime, bridge, minted, page>>

StartRegisters(c) ==
  LET s == cmd[c].session IN
  /\ At(c, "start", "checked")
  /\ ~OwnershipHeld
  /\ \/ \E e \in Execution :
          /\ executions[e] = Absent /\ e \notin terminal_executions
          /\ O!register_execution(Main, cmd[c].profile, cmd[c].tab, s, e)
          /\ cmd' = [cmd EXCEPT ![c].at = "insert", ![c].execution = e]
          /\ UNCHANGED page
     \/ Answer(c) /\ UNCHANGED registry
  /\ UNCHANGED <<runtime, bridge, minted>>

(* The execution is inserted, and its producer and its bridge are spawned. *)
StartInserts(c) ==
  LET e == cmd[c].execution
      s == cmd[c].session IN
  /\ At(c, "start", "insert")
  /\ jobs' = [jobs EXCEPT ![e] = s]
  /\ bridge' = [bridge EXCEPT ![e] =
       [at |-> "running", tab |-> cmd[c].tab, session |-> s,
        epoch |-> lifecycle_epoch, lost |-> FALSE]]
  /\ Answer(c)
  /\ UNCHANGED <<registry, connected, native_sessions, attempts, lifecycle_epoch, minted>>

start_execution(c) ==
  SessionChecks(c, "start") \/ StartRegisters(c) \/ StartInserts(c)

-----------------------------------------------------------------------------
(* The end of bridge_execution_events.                                     *)

BridgeAt(e, at) == bridge[e] # Absent /\ bridge[e].at = at

BridgeTo(e, at) == bridge' = [bridge EXCEPT ![e].at = at]

(* The last event is emitted; an event of an older epoch is not.  On a lost *)
(* connection the page forgets the session of the tab.                     *)
EmitTerminal(e) ==
  /\ BridgeAt(e, "running")
  /\ \E lost \in BOOLEAN :
       /\ lost => setting.losses /\ bridge[e].epoch = lifecycle_epoch
       /\ bridge' = [bridge EXCEPT ![e].at = "remove", ![e].lost = lost]
       /\ page' = IF lost /\ page.session[bridge[e].tab] = bridge[e].session
                    THEN Learns(bridge[e].tab, Absent)
                    ELSE page
  /\ UNCHANGED <<registry, runtime, minted, cmd>>

RemoveExecution(e) ==
  /\ BridgeAt(e, "remove")
  /\ jobs' = [jobs EXCEPT ![e] = Absent]
  /\ BridgeTo(e, "mark")
  /\ UNCHANGED <<registry, connected, native_sessions, attempts, lifecycle_epoch,
                  minted, cmd, page>>

(* Both calls are made under one lock; the error of either is ignored.     *)
MarkTerminal(e) ==
  LET b == bridge[e]
      t == b.tab IN
  /\ BridgeAt(e, "mark")
  /\ ~OwnershipHeld
  /\ BridgeTo(e, IF b.lost THEN "unregister" ELSE "done")
  /\ \/ O!mark_execution_terminal(Main, Home[t], t, b.session, e)
     \/ ~O!authorize_execution(Main, Home[t], t, b.session, e) /\ UNCHANGED registry
  /\ UNCHANGED <<runtime, minted, cmd, page>>

(* Faulty: the owner is released under a newer execution.                  *)
UnregisterLostInUse(e) ==
  /\ BridgeAt(e, "unregister")
  /\ BridgeTo(e, "drop")
  /\ sessions' = [sessions EXCEPT ![bridge[e].session] = Absent]
  /\ UNCHANGED <<profiles, tabs, executions, terminal_executions, runtime, minted, cmd, page>>

UnregisterLost(e) ==
  LET b == bridge[e]
      t == b.tab IN
  /\ BridgeAt(e, "unregister")
  /\ BridgeTo(e, "drop")
  /\ \/ O!unregister_session(Main, Home[t], t, b.session)
     \/ /\ \/ ~O!authorize_session(Main, Home[t], t, b.session)
           \/ O!SessionInUse(Main, Home[t], t, b.session)
        /\ UNCHANGED registry
  /\ UNCHANGED <<runtime, minted, cmd, page>>

DropLost(e) ==
  /\ BridgeAt(e, "drop")
  /\ native_sessions' = [native_sessions EXCEPT ![bridge[e].session] = Absent]
  /\ BridgeTo(e, "done")
  /\ UNCHANGED <<registry, connected, jobs, attempts, lifecycle_epoch, minted, cmd, page>>

bridge_execution_events(e) ==
  \/ EmitTerminal(e) \/ RemoveExecution(e) \/ MarkTerminal(e)
  \/ UnregisterLost(e) \/ DropLost(e)

Native ==
  \/ \E c \in Command :
       \/ bootstrap_workspace(c) \/ connect_profile(c) \/ disconnect_profile(c)
       \/ open_tab_session(c) \/ close_tab_session(c) \/ start_execution(c)
  \/ \E p \in Profile : cancel_profile_connection(p)
  \/ \E e \in Execution : bridge_execution_events(e)

Next == (Page \/ Reload \/ Native) /\ UNCHANGED setting

Spec == Init /\ [][Next]_vars

-----------------------------------------------------------------------------
(* The types of the runtime's registries; O!TypeOK has those of the graph. *)
TypeOK ==
  /\ O!TypeOK
  /\ connected \subseteq Profile
  /\ native_sessions \in [Session -> Tab \cup {Absent}]
  /\ jobs \in [Execution -> Session \cup {Absent}]
  /\ attempts \in [Profile -> Command \cup {Absent}]
  /\ lifecycle_epoch \in 0..(setting.reloads + 1)
  /\ bridge \in [Execution -> Bridge \cup {Absent}]
  /\ minted \subseteq Session
  /\ cmd \in [Command -> Request \cup {Absent}]
  /\ page \in [generation : 0..setting.reloads, at : {"loading", "bootstrapping", "ready"},
                connected : SUBSET Profile, session : [Tab -> Session \cup {Absent}]]

(* Every step of the commands is a step of the ownership graph or leaves   *)
(* it alone: no interleaving registers an identifier that is in use, and   *)
(* so what is proved of OwnershipRegistry holds of the running program.    *)
OwnerSpec == O!Spec

(* "A tab accepts at most one active execution" (EXE-8): two executions    *)
(* never share a native session.                                           *)
OneJob ==
  \A d, e \in Execution : d # e /\ jobs[d] # Absent => jobs[d] # jobs[e]

(* It takes a page that lost its busy flag to break it (the claim OneJob). *)
OneJobPerSession == setting.serialises => OneJob

(* Nothing runs and no command is in flight.                               *)
AtRest ==
  /\ page.at = "ready"
  /\ \A c \in Command : cmd[c] = Absent
  /\ \A e \in Execution : bridge[e] = Absent \/ bridge[e].at = "done"

Undisturbed == setting.reloads = 0 /\ ~setting.losses

(* At rest, the two registries hold the same sessions, and no execution is *)
(* left in either: a session without an owner could not be closed, and an  *)
(* owner without a session could not be released before the next reload.   *)
RegistriesMatch ==
  AtRest =>
    /\ \A s \in Session :
         /\ native_sessions[s] # Absent <=> sessions[s] # Absent
         /\ sessions[s] # Absent => sessions[s].tab = native_sessions[s]
    /\ \A e \in Execution : executions[e] = Absent /\ jobs[e] = Absent

(* At rest, what the page believes of its tabs and connections is what the *)
(* program holds.                                                          *)
PageMatches ==
  AtRest =>
    /\ page.connected = connected
    /\ \A t \in Tab : page.session[t] # Absent => native_sessions[page.session[t]] = t

(* The registries and the page agree whatever the commands interleave: it   *)
(* takes a reload or a lost connection to part them (the claim             *)
(* RegistriesMatch).                                                       *)
RegistriesAgree == Undisturbed => RegistriesMatch /\ PageMatches

(* Every entry of connection_attempts belongs to a command that is still   *)
(* opening the profile's connection: a forgotten entry would refuse every  *)
(* later Connect as "already in progress".                                 *)
AttemptsAreLive ==
  \A p \in Profile : attempts[p] # Absent =>
    /\ At(attempts[p], "connect", "opening") \/ At(attempts[p], "connect", "opened")
    /\ cmd[attempts[p]].profile = p

(* A page that was replaced starts nothing once its successor is ready: an *)
(* execution is registered only for a session that the last bootstrap has  *)
(* not released, whatever the command checked before.                      *)
OldStartsRefused ==
  [][\A c \in Command :
       /\ cmd[c] # Absent /\ cmd'[c] # Absent
       /\ cmd[c].execution = Absent /\ cmd'[c].execution # Absent
       => cmd[c].generation = page.generation \/ page.at # "ready"]_vars
=============================================================================
