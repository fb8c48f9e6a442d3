------------------------- MODULE OwnershipRegistry -------------------------
(***************************************************************************)
(* The native ownership graph of QueryNot                                  *)
(* (crates/querynot-core/src/ownership.rs): which window owns a profile,   *)
(* which profile a tab is bound to, which tab a native session serves and  *)
(* which session runs an execution.  Every Tauri command is authorised     *)
(* against it.                                                             *)
(*                                                                         *)
(* One action per mutating method.  A method that returns Err without      *)
(* having changed anything is a stuttering step and needs no action; its   *)
(* early return is a conjunct of the action.  The HashMaps are functions   *)
(* that map an identifier which is not a key to Absent.                    *)
(***************************************************************************)
EXTENDS Naturals

CONSTANTS
  Window,     \* webview windows
  Profile,    \* connection profiles
  Tab,        \* workspace tabs
  Session,    \* native session identifiers
  Execution,  \* execution identifiers
  NoProfile,  \* the None of Option<ProfileId>: an unbound tab
  Absent      \* not a key of the HashMap

TabOwner == [window : Window, profile : Profile \cup {NoProfile}]

SessionOwner == [window : Window, profile : Profile, tab : Tab]

ExecutionOwner ==
  [window : Window, profile : Profile, tab : Tab, session : Session]

ASSUME OwnershipAssumption ==
  /\ NoProfile \notin Profile
  /\ Absent \notin Window
  /\ Absent \notin TabOwner
  /\ Absent \notin SessionOwner
  /\ Absent \notin ExecutionOwner

VARIABLES
  profiles,             \* [Profile -> Window or Absent]
  tabs,                 \* [Tab -> TabOwner or Absent]
  sessions,             \* [Session -> SessionOwner or Absent]
  executions,           \* [Execution -> ExecutionOwner or Absent]
  terminal_executions   \* executions that can accept no further event

vars == <<profiles, tabs, sessions, executions, terminal_executions>>

Init ==
  /\ profiles = [p \in Profile |-> Absent]
  /\ tabs = [t \in Tab |-> Absent]
  /\ sessions = [s \in Session |-> Absent]
  /\ executions = [e \in Execution |-> Absent]
  /\ terminal_executions = {}

-----------------------------------------------------------------------------
(* Authorisation: the checks that every command makes first.               *)

authorize_profile(w, p) == profiles[p] = w

authorize_tab(w, p, t) == tabs[t] = [window |-> w, profile |-> p]

authorize_session(w, p, t, s) ==
  sessions[s] = [window |-> w, profile |-> p, tab |-> t]

authorize_execution(w, p, t, s, e) ==
  /\ e \notin terminal_executions
  /\ executions[e] = [window |-> w, profile |-> p, tab |-> t, session |-> s]

has_active_profile_resources(p) ==
  \/ \E s \in Session : sessions[s] # Absent /\ sessions[s].profile = p
  \/ \E e \in Execution : executions[e] # Absent /\ executions[e].profile = p

profile_tab_ids(p) == {t \in Tab : tabs[t] # Absent /\ tabs[t].profile = p}

-----------------------------------------------------------------------------
(* Registration.  HashMap::insert replaces the owner of a key that is      *)
(* already registered before the method reports AlreadyRegistered: the     *)
(* insertion happens in both cases.                                        *)

register_profile(w, p) ==
  /\ profiles' = [profiles EXCEPT ![p] = w]
  /\ UNCHANGED <<tabs, sessions, executions, terminal_executions>>

(* Faulty: the tab is stored under its profile alone.                      *)
register_tab_unowned(w, p, t) ==
  /\ p # NoProfile => authorize_profile(w, p)
  /\ tabs' = [tabs EXCEPT ![t] = p]
  /\ UNCHANGED <<profiles, sessions, executions, terminal_executions>>

register_tab(w, p, t) ==
  /\ p # NoProfile => authorize_profile(w, p)
  /\ tabs' = [tabs EXCEPT ![t] = [window |-> w, profile |-> p]]
  /\ UNCHANGED <<profiles, sessions, executions, terminal_executions>>

register_session(w, p, t, s) ==
  /\ authorize_tab(w, p, t)
  /\ sessions' =
       [sessions EXCEPT ![s] = [window |-> w, profile |-> p, tab |-> t]]
  /\ UNCHANGED <<profiles, tabs, executions, terminal_executions>>

register_execution(w, p, t, s, e) ==
  /\ authorize_session(w, p, t, s)
  /\ executions' =
       [executions EXCEPT
          ![e] = [window |-> w, profile |-> p, tab |-> t, session |-> s]]
  /\ UNCHANGED <<profiles, tabs, sessions, terminal_executions>>

-----------------------------------------------------------------------------
(* Release.                                                                *)

TabInUse(w, t) ==
  \E s \in Session :
    sessions[s] # Absent /\ sessions[s].window = w /\ sessions[s].tab = t

unregister_tab(w, t) ==
  /\ ~TabInUse(w, t)
  /\ tabs[t] # Absent
  /\ tabs[t].window = w
  /\ tabs' = [tabs EXCEPT ![t] = Absent]
  /\ UNCHANGED <<profiles, sessions, executions, terminal_executions>>

(* The tabs are rebound before the profile is found to be unregistered, so *)
(* the error leaves them changed.                                          *)
unregister_profile(p, retained_tabs) ==
  /\ ~has_active_profile_resources(p)
  /\ tabs' = [t \in Tab |->
                CASE t \notin profile_tab_ids(p) -> tabs[t]
                  [] t \in profile_tab_ids(p) /\ t \in retained_tabs ->
                       [tabs[t] EXCEPT !.profile = NoProfile]
                  [] OTHER -> Absent]
  /\ profiles' = [profiles EXCEPT ![p] = Absent]
  /\ UNCHANGED <<sessions, executions, terminal_executions>>

(* Faulty: the guard asks for an execution that is already terminal.       *)
SessionInTerminalUse(w, p, t, s) ==
  \E e \in terminal_executions :
    executions[e] = [window |-> w, profile |-> p, tab |-> t, session |-> s]

SessionInUse(w, p, t, s) ==
  \E e \in Execution :
    executions[e] = [window |-> w, profile |-> p, tab |-> t, session |-> s]

unregister_session(w, p, t, s) ==
  /\ authorize_session(w, p, t, s)
  /\ ~SessionInUse(w, p, t, s)
  /\ sessions' = [sessions EXCEPT ![s] = Absent]
  /\ UNCHANGED <<profiles, tabs, executions, terminal_executions>>

(* Faulty: the execution keeps its owner.                                  *)
mark_execution_kept(w, p, t, s, e) ==
  /\ authorize_execution(w, p, t, s, e)
  /\ terminal_executions' = terminal_executions \cup {e}
  /\ UNCHANGED <<profiles, tabs, sessions, executions>>

mark_execution_terminal(w, p, t, s, e) ==
  /\ authorize_execution(w, p, t, s, e)
  /\ executions' = [executions EXCEPT ![e] = Absent]
  /\ terminal_executions' = terminal_executions \cup {e}
  /\ UNCHANGED <<profiles, tabs, sessions>>

(* Faulty: every window's resources.                                       *)
AnyOwned(owner, w) == {k \in DOMAIN owner : owner[k] # Absent}

Owned(owner, w) == {k \in DOMAIN owner : owner[k] # Absent /\ owner[k].window = w}

(* Faulty: the executions are forgotten, not made terminal.                *)
cleanup_window_forgets(w) ==
  LET Release(owner) ==
        [k \in DOMAIN owner |-> IF k \in Owned(owner, w) THEN Absent ELSE owner[k]]
  IN  /\ executions' = Release(executions)
      /\ sessions' = Release(sessions)
      /\ tabs' = Release(tabs)
      /\ profiles' = [p \in Profile |-> IF profiles[p] = w THEN Absent ELSE profiles[p]]
      /\ UNCHANGED terminal_executions

cleanup_window(w) ==
  LET Release(owner) ==
        [k \in DOMAIN owner |-> IF k \in Owned(owner, w) THEN Absent ELSE owner[k]]
  IN  /\ executions' = Release(executions)
      /\ terminal_executions' = terminal_executions \cup Owned(executions, w)
      /\ sessions' = Release(sessions)
      /\ tabs' = Release(tabs)
      /\ profiles' = [p \in Profile |-> IF profiles[p] = w THEN Absent ELSE profiles[p]]

-----------------------------------------------------------------------------
(* The callers.  NativeSessionId, ExecutionId, TabId and ProfileId are     *)
(* fresh UUIDs (ids.rs) when the resource is created, and the restored ones *)
(* are registered after cleanup_window, so no identifier is registered     *)
(* while it is in use and no execution identifier is used twice.           *)

Register ==
  \E w \in Window :
    \/ \E p \in Profile : profiles[p] = Absent /\ register_profile(w, p)
    \/ \E p \in Profile \cup {NoProfile}, t \in Tab :
         tabs[t] = Absent /\ register_tab(w, p, t)
    \/ \E p \in Profile, t \in Tab, s \in Session :
         \/ sessions[s] = Absent /\ register_session(w, p, t, s)
         \/ \E e \in Execution :
              /\ executions[e] = Absent /\ e \notin terminal_executions
              /\ register_execution(w, p, t, s, e)

Release ==
  \E w \in Window :
    \/ \E t \in Tab : unregister_tab(w, t)
    \/ \E p \in Profile, t \in Tab, s \in Session :
         \/ unregister_session(w, p, t, s)
         \/ \E e \in Execution : mark_execution_terminal(w, p, t, s, e)
    \/ cleanup_window(w)

Next ==
  \/ Register
  \/ Release
  \/ \E p \in Profile, retained_tabs \in SUBSET Tab : unregister_profile(p, retained_tabs)

Spec == Init /\ [][Next]_vars

-----------------------------------------------------------------------------
(* Every table holds owners of its own kind.                               *)
TypeOK ==
  /\ profiles \in [Profile -> Window \cup {Absent}]
  /\ tabs \in [Tab -> TabOwner \cup {Absent}]
  /\ sessions \in [Session -> SessionOwner \cup {Absent}]
  /\ executions \in [Execution -> ExecutionOwner \cup {Absent}]
  /\ terminal_executions \in SUBSET Execution

(* "Profiles, offline tabs, native sessions, and executions form a         *)
(* window/profile/tab/session chain" (docs/architecture/0003, line 33): a  *)
(* request that may touch a resource may touch everything the resource     *)
(* hangs on.  A release that forgets one of the guards leaves a running    *)
(* execution whose session, tab or profile somebody else can take.         *)
ExecutionChain ==
  \A e \in Execution : executions[e] # Absent =>
    LET o == executions[e]
    IN authorize_session(o.window, o.profile, o.tab, o.session)

SessionChain ==
  \A s \in Session : sessions[s] # Absent =>
    LET o == sessions[s] IN authorize_tab(o.window, o.profile, o.tab)

TabChain ==
  \A t \in Tab : tabs[t] # Absent /\ tabs[t].profile # NoProfile =>
    authorize_profile(tabs[t].window, tabs[t].profile)

OwnershipChain == ExecutionChain /\ SessionChain /\ TabChain

(* "terminal jobs reject late access" (docs/architecture/0003, line 33):   *)
(* the two tables that decide whether an event of an execution is accepted *)
(* never disagree about it.                                                *)
TerminalIsNotLive ==
  \A e \in terminal_executions : executions[e] = Absent

(* An execution leaves the registry only by becoming terminal, and a       *)
(* terminal execution stays terminal: no cleanup or release loses a job    *)
(* without recording that its late events must be refused.                 *)
ExecutionsEndTerminal ==
  [][/\ terminal_executions \subseteq terminal_executions'
     /\ \A e \in Execution :
          executions[e] # Absent /\ executions'[e] = Absent
            => e \in terminal_executions']_vars

(* A step changes the resources of one window at most: neither a reload    *)
(* nor a release takes anything from, or gives anything to, a second       *)
(* window.                                                                 *)
WindowOf(o) == IF o = Absent THEN {} ELSE {o.window}

Touched ==
  (UNION {WindowOf(tabs[t]) \cup WindowOf(tabs'[t]) : t \in {u \in Tab : tabs'[u] # tabs[u]}})
  \cup (UNION {WindowOf(sessions[s]) \cup WindowOf(sessions'[s]) :
                 s \in {r \in Session : sessions'[r] # sessions[r]}})
  \cup (UNION {WindowOf(executions[e]) \cup WindowOf(executions'[e]) :
                 e \in {d \in Execution : executions'[d] # executions[d]}})

WindowIsolation ==
  [][\A v, w \in Touched : v = w]_vars
=============================================================================
