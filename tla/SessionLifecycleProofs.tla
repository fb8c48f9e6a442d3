---------------------- MODULE SessionLifecycleProofs -----------------------
(* Proofs about SessionLifecycle for any number of profiles, tabs, sessions,*)
(* executions, commands in flight and reloads.                              *)
EXTENDS SessionLifecycle, TLAPS

(* What the registries and the commands hold.  A command names what its     *)
(* kind needs from the moment it is issued, an "insert" what was registered *)
(* for it.                                                                  *)
PageRow == [generation : Nat, at : {"loading", "bootstrapping", "ready"},
            connected : SUBSET Profile, session : [Tab -> Session \cup {Absent}]]

Typed ==
  /\ sessions \in [Session -> O!SessionOwner \cup {Absent}]
  /\ attempts \in [Profile -> Command \cup {Absent}]
  /\ lifecycle_epoch \in Nat
  /\ bridge \in [Execution -> Bridge \cup {Absent}]
  /\ cmd \in [Command -> Request \cup {Absent}]
  /\ page \in PageRow

Complete(request) ==
  /\ request.op \in {"connect", "disconnect"} => request.profile \in Profile
  /\ request.op \in {"open", "start", "close"} =>
       request.profile \in Profile /\ request.tab \in Tab
  /\ request.op \in {"start", "close"} => request.session \in Session
  /\ request.op = "open" /\ request.at = "insert" => request.session \in Session
  /\ request.op = "start" /\ request.at = "insert" => request.execution \in Execution

Flights == \A c \in Command : cmd[c] # Absent => Complete(cmd[c])

(* A session identifier that was never issued owns nothing.                 *)
Fresh == \A s \in Session : sessions[s] # Absent => s \in minted

LifeInv == Typed /\ Flights /\ Fresh

LEMMA BlankTyped == ASSUME page \in PageRow
                    PROVE  Blank \in Request /\ Blank.at = "check"
  BY DEF Blank, PageRow, Request

(* A request of the page.                                                   *)
LEMMA IssueKeeps == ASSUME LifeInv, NEW c \in Command, NEW request \in Request,
                           Complete(request), Issue(c, request), page' \in PageRow
                    PROVE  LifeInv'
  BY DEF LifeInv, Typed, Flights, Fresh, Issue, registry, runtime

LEMMA PageKeeps == ASSUME LifeInv, Page PROVE LifeInv'
<1>1. PICK c \in Command :
        \/ bootstrap(c)
        \/ \E p \in Profile : connectProfile(c, p) \/ disconnectProfile(c, p)
        \/ \E t \in Tab :
             ensureTabSession(c, t) \/ startExecutionRequest(c, t) \/ closeProfileSessions(c, t)
  BY DEF Page
<1>2. page \in PageRow /\ Blank \in Request /\ Blank.at = "check"
  BY BlankTyped DEF LifeInv, Typed
<1>3. CASE bootstrap(c)
  <2>1. page' \in PageRow
    BY <1>2, <1>3 DEF bootstrap, PageRow
  <2>2. [Blank EXCEPT !.op = "bootstrap"] \in Request
    BY <1>2 DEF Request
  <2>3. Complete([Blank EXCEPT !.op = "bootstrap"])
    BY <1>2 DEF Request, Complete
  <2>4. QED
    BY <1>3, <2>1, <2>2, <2>3, IssueKeeps DEF bootstrap
<1>4. ASSUME NEW p \in Profile, connectProfile(c, p) PROVE LifeInv'
  <2> DEFINE request == [Blank EXCEPT !.op = "connect", !.profile = p]
  <2>1. request \in Request /\ Complete(request)
    BY <1>2 DEF Request, Complete
  <2>2. Issue(c, request) /\ page' = page
    BY <1>4 DEF connectProfile, runAction
  <2>3. QED
    BY <1>2, <2>1, <2>2, IssueKeeps
<1>5. ASSUME NEW p \in Profile, disconnectProfile(c, p) PROVE LifeInv'
  <2> DEFINE request == [Blank EXCEPT !.op = "disconnect", !.profile = p]
  <2>1. request \in Request /\ Complete(request)
    BY <1>2 DEF Request, Complete
  <2>2. Issue(c, request) /\ page' = page
    BY <1>5 DEF disconnectProfile, runAction
  <2>3. QED
    BY <1>2, <2>1, <2>2, IssueKeeps
<1>6. ASSUME NEW t \in Tab, ensureTabSession(c, t) PROVE LifeInv'
  <2> DEFINE request == [Blank EXCEPT !.op = "open", !.profile = Home[t], !.tab = t]
  <2>1. Home[t] \in Profile
    BY LifecycleAssumption
  <2>2. request \in Request /\ Complete(request)
    BY <1>2, <2>1 DEF Request, Complete
  <2>3. Issue(c, request) /\ page' = page
    BY <1>6 DEF ensureTabSession
  <2>4. QED
    BY <1>2, <2>2, <2>3, IssueKeeps
<1>7. ASSUME NEW t \in Tab, NEW op \in {"start", "close"},
             page.session[t] # Absent,
             runAction(c, [Blank EXCEPT !.op = op, !.profile = Home[t], !.tab = t,
                                        !.session = page.session[t]])
      PROVE  LifeInv'
  <2> DEFINE request == [Blank EXCEPT !.op = op, !.profile = Home[t], !.tab = t,
                                      !.session = page.session[t]]
  <2>1. Home[t] \in Profile /\ page.session[t] \in Session
    BY <1>2, <1>7, LifecycleAssumption DEF PageRow
  <2>2. request \in Request /\ Complete(request)
    BY <1>2, <2>1 DEF Request, Complete
  <2>3. Issue(c, request) /\ page' = page
    BY <1>7 DEF runAction
  <2>4. QED
    BY <1>2, <2>2, <2>3, IssueKeeps
<1>8. QED
  BY <1>1, <1>3, <1>4, <1>5, <1>6, <1>7 DEF startExecutionRequest, closeProfileSessions

-----------------------------------------------------------------------------
(* The commands.                                                            *)
LEMMA Replies == ASSUME LifeInv, NEW c \in Command, NEW learned \in PageRow, Reply(c, learned)
                 PROVE  /\ page' \in PageRow
                        /\ cmd' \in [Command -> Request \cup {Absent}] /\ Flights'
  BY DEF LifeInv, Typed, Flights, Reply

LEMMA Advances == ASSUME LifeInv, NEW c \in Command, cmd[c] # Absent,
                         NEW at \in {"reading", "profiles", "tabs", "secrets", "opening",
                                     "opened", "checked", "remove"},
                         Advance(c, at)
                  PROVE  cmd' \in [Command -> Request \cup {Absent}] /\ Flights'
  BY DEF LifeInv, Typed, Flights, Advance, Request, Complete

LEMMA PageLearns == ASSUME page \in PageRow, NEW p \in Profile, NEW t \in Tab,
                           NEW s \in Session \cup {Absent}
                    PROVE  /\ Connects(p) \in PageRow /\ Disconnects(p) \in PageRow
                           /\ Learns(t, s) \in PageRow
                           /\ [page EXCEPT !.at = "ready"] \in PageRow
  BY DEF PageRow, Connects, Disconnects, Learns

LEMMA BootstrapKeeps == ASSUME LifeInv, AttemptsAreLive, NEW c \in Command, bootstrap_workspace(c)
                        PROVE  LifeInv'
<1>1. CASE cleanup(c)
  <2>1. cmd' \in [Command -> Request \cup {Absent}] /\ Flights'
    <3>1. cmd' = [d \in Command |-> cmd'[d]] /\ cmd[c] # Absent
      BY <1>1 DEF cleanup, At
    <3>2. ASSUME NEW d \in Command
          PROVE  \/ cmd'[d] = cmd[d]
                 \/ cmd[d] # Absent /\ cmd'[d] = [cmd[d] EXCEPT !.at = "reading"]
                 \/ cmd'[d] = [cmd[d] EXCEPT !.cancelled = TRUE]
      BY <1>1, <3>1 DEF cleanup
    <3>3. ASSUME NEW d \in Command, cmd[d] # Absent
          PROVE  /\ [cmd[d] EXCEPT !.at = "reading"] \in Request
                 /\ Complete([cmd[d] EXCEPT !.at = "reading"])
                 /\ [cmd[d] EXCEPT !.cancelled = TRUE] \in Request
                 /\ Complete([cmd[d] EXCEPT !.cancelled = TRUE])
      <4>1. cmd[d] \in Request /\ Complete(cmd[d])
        BY <3>3 DEF LifeInv, Typed, Flights
      <4>2. QED
        BY <4>1 DEF Request, Complete
    <3>4. ASSUME NEW d \in Command, cmd[d] = Absent
          PROVE  cmd'[d] = cmd[d]
      <4>1. d # Absent
        BY LifecycleAssumption
      <4>2. d # c /\ ~\E p \in Profile : attempts[p] = d
        BY <3>1, <3>4, <4>1 DEF AttemptsAreLive, At
      <4>3. QED
        BY <1>1, <3>1, <4>2 DEF cleanup
    <3>5. QED
      BY <3>1, <3>2, <3>3, <3>4 DEF LifeInv, Typed, Flights
  <2>2. QED
    BY <1>1, <2>1 DEF cleanup, registry, LifeInv, Typed, Fresh
<1>2. CASE cleanup_window(c)
  <2>1. cmd' \in [Command -> Request \cup {Absent}] /\ Flights'
    BY <1>2, Advances DEF cleanup_window, At
  <2>2. /\ sessions' \in [Session -> O!SessionOwner \cup {Absent}]
        /\ \A s \in Session : sessions'[s] # Absent => sessions[s] # Absent
    BY <1>2 DEF cleanup_window, O!cleanup_window, LifeInv, Typed
  <2>3. QED
    BY <1>2, <2>1, <2>2 DEF cleanup_window, runtime, LifeInv, Typed, Fresh
<1>3. CASE RegisterProfiles(c)
  <2>1. cmd' \in [Command -> Request \cup {Absent}] /\ Flights'
    BY <1>3, Advances DEF RegisterProfiles, At, LifeInv, Typed, Flights
  <2>2. UNCHANGED sessions
    BY <1>3 DEF RegisterProfiles, O!register_profile, registry
  <2>3. QED
    BY <1>3, <2>1, <2>2 DEF RegisterProfiles, runtime, LifeInv, Typed, Fresh
<1>4. CASE RegisterTabs(c)
  <2>1. UNCHANGED sessions
    BY <1>4 DEF RegisterTabs, O!register_tab, registry
  <2>2. /\ page' \in PageRow
        /\ cmd' \in [Command -> Request \cup {Absent}] /\ Flights'
    <3>1. CASE UNCHANGED <<cmd, page>>
      BY <3>1 DEF LifeInv, Typed, Flights
    <3>2. CASE Reply(c, [page EXCEPT !.at = "ready"])
      <4>1. [page EXCEPT !.at = "ready"] \in PageRow
        BY DEF LifeInv, Typed, PageRow
      <4>2. QED
        BY <3>2, <4>1, Replies
    <3>3. QED
      BY <1>4, <3>1, <3>2 DEF RegisterTabs
  <2>3. QED
    BY <1>4, <2>1, <2>2 DEF RegisterTabs, runtime, LifeInv, Typed, Fresh
<1>5. QED
  BY <1>1, <1>2, <1>3, <1>4 DEF bootstrap_workspace

LEMMA ConnectionsKeep == ASSUME LifeInv, NEW c \in Command,
                                connect_profile(c) \/ disconnect_profile(c)
                         PROVE  LifeInv'
<1>1. UNCHANGED <<sessions, lifecycle_epoch, bridge, minted>>
  BY DEF connect_profile, ConnectChecks, begin_connection_attempt, ConnectOpens,
     ConnectFails, Connected, disconnect_profile, registry, runtime
<1>2. cmd[c] # Absent /\ cmd[c].profile \in Profile
  BY DEF connect_profile, ConnectChecks, begin_connection_attempt, ConnectOpens,
     ConnectFails, Connected, disconnect_profile, At, LifeInv, Flights, Complete
<1>3. attempts' \in [Profile -> Command \cup {Absent}]
  BY <1>2 DEF connect_profile, ConnectChecks, begin_connection_attempt, ConnectOpens,
     ConnectFails, Connected, disconnect_profile, finish_connection_attempt, runtime,
     LifeInv, Typed
<1>4. page \in PageRow /\ Connects(cmd[c].profile) \in PageRow
      /\ Disconnects(cmd[c].profile) \in PageRow
  BY <1>2 DEF LifeInv, Typed, PageRow, Connects, Disconnects
<1>5. /\ page' \in PageRow
      /\ cmd' \in [Command -> Request \cup {Absent}] /\ Flights'
  <2>1. \/ \E learned \in PageRow : Reply(c, learned)
        \/ UNCHANGED page /\ \E at \in {"secrets", "opening", "opened"} : Advance(c, at)
    BY <1>4 DEF connect_profile, ConnectChecks, begin_connection_attempt, ConnectOpens,
       ConnectFails, Connected, disconnect_profile, Answer
  <2>2. QED
    BY <1>2, <1>4, <2>1, Replies, Advances
<1>6. QED
  BY <1>1, <1>3, <1>5 DEF LifeInv, Typed, Fresh

LEMMA CancelKeeps == ASSUME LifeInv, NEW p \in Profile, cancel_profile_connection(p)
                     PROVE  LifeInv'
<1>1. attempts[p] \in Command /\ cmd[attempts[p]] \in Request
  BY DEF cancel_profile_connection, LifeInv, Typed
<1>2. cmd' \in [Command -> Request \cup {Absent}] /\ Flights'
  BY <1>1 DEF cancel_profile_connection, LifeInv, Typed, Flights, Request, Complete
<1>3. QED
  BY <1>2 DEF cancel_profile_connection, registry, runtime, LifeInv, Typed, Fresh

LEMMA OpenKeeps == ASSUME LifeInv, NEW c \in Command, open_tab_session(c)
                   PROVE  LifeInv'
<1>1. cmd[c] # Absent /\ cmd[c].op = "open" /\ cmd[c] \in Request /\ Complete(cmd[c])
  BY DEF open_tab_session, OpenChecks, OpenRegisters, OpenInserts, At, LifeInv, Typed,
     Flights
<1>2. cmd[c].tab \in Tab /\ cmd[c].profile \in Profile
  BY <1>1 DEF Complete
<1>3. page \in PageRow
  BY DEF LifeInv, Typed
<1>4. CASE OpenChecks(c)
  <2>1. \/ \E learned \in PageRow : Reply(c, learned)
        \/ UNCHANGED page /\ Advance(c, "opening")
    <3>1. \A s \in Session : Learns(cmd[c].tab, s) \in PageRow
      BY <1>2, <1>3 DEF Learns, PageRow
    <3>2. QED
      BY <1>3, <1>4, <3>1 DEF OpenChecks, Answer
  <2>2. /\ page' \in PageRow
        /\ cmd' \in [Command -> Request \cup {Absent}] /\ Flights'
    BY <1>1, <1>3, <2>1, Replies, Advances
  <2>3. QED
    BY <1>4, <2>2 DEF OpenChecks, registry, runtime, LifeInv, Typed, Fresh
<1>5. CASE OpenRegisters(c)
  <2>1. CASE Answer(c) /\ UNCHANGED <<registry, minted>>
    <3>1. /\ page' \in PageRow
          /\ cmd' \in [Command -> Request \cup {Absent}] /\ Flights'
      BY <1>3, <2>1, Replies DEF Answer
    <3>2. QED
      BY <1>5, <2>1, <3>1 DEF OpenRegisters, registry, runtime, LifeInv, Typed, Fresh
  <2>2. ASSUME NEW s \in Session, O!register_session(Main, cmd[c].profile, cmd[c].tab, s),
               minted' = minted \cup {s},
               cmd' = [cmd EXCEPT ![c].at = "insert", ![c].session = s], UNCHANGED page
        PROVE  LifeInv'
    <3>1. [window |-> Main, profile |-> cmd[c].profile, tab |-> cmd[c].tab] \in O!SessionOwner
      BY <1>2 DEF O!SessionOwner
    <3>2. /\ sessions' \in [Session -> O!SessionOwner \cup {Absent}]
          /\ \A r \in Session : sessions'[r] # Absent => r = s \/ sessions[r] # Absent
      BY <2>2, <3>1 DEF O!register_session, LifeInv, Typed
    <3>3. cmd' \in [Command -> Request \cup {Absent}] /\ Flights'
      BY <1>1, <2>2 DEF LifeInv, Typed, Flights, Request, Complete
    <3>4. QED
      BY <1>5, <2>2, <3>2, <3>3 DEF OpenRegisters, runtime, LifeInv, Typed, Fresh
  <2>3. QED
    BY <1>5, <2>1, <2>2 DEF OpenRegisters
<1>6. CASE OpenInserts(c)
  <2>1. cmd[c].session \in Session
    BY <1>1, <1>6 DEF OpenInserts, At, Complete
  <2>2. Learns(cmd[c].tab, cmd[c].session) \in PageRow
    BY <1>2, <1>3, <2>1 DEF Learns, PageRow
  <2>3. /\ page' \in PageRow
        /\ cmd' \in [Command -> Request \cup {Absent}] /\ Flights'
    BY <1>6, <2>2, Replies DEF OpenInserts
  <2>4. QED
    BY <1>6, <2>3 DEF OpenInserts, registry, LifeInv, Typed, Fresh
<1>7. QED
  BY <1>4, <1>5, <1>6 DEF open_tab_session

LEMMA UnregisterSession == ASSUME LifeInv, NEW p, NEW t, NEW s, O!unregister_session(Main, p, t, s)
                           PROVE  /\ sessions' \in [Session -> O!SessionOwner \cup {Absent}]
                                  /\ \A r \in Session : sessions'[r] # Absent
                                       => sessions[r] # Absent
  BY DEF O!unregister_session, LifeInv, Typed

LEMMA CloseKeeps == ASSUME LifeInv, NEW c \in Command, close_tab_session(c)
                    PROVE  LifeInv'
<1>1. cmd[c] # Absent /\ Complete(cmd[c]) /\ cmd[c].op = "close"
  BY DEF close_tab_session, SessionChecks, CloseUnregisters, CloseRemoves, At, LifeInv,
     Flights
<1>2. page \in PageRow /\ Learns(cmd[c].tab, Absent) \in PageRow
  BY <1>1 DEF LifeInv, Typed, Complete, Learns, PageRow
<1>3. /\ page' \in PageRow
      /\ cmd' \in [Command -> Request \cup {Absent}] /\ Flights'
  <2>1. \/ \E learned \in PageRow : Reply(c, learned)
        \/ UNCHANGED page /\ \E at \in {"checked", "remove"} : Advance(c, at)
    BY <1>2 DEF close_tab_session, SessionChecks, CloseUnregisters, CloseRemoves, Answer
  <2>2. QED
    BY <1>1, <1>2, <2>1, Replies, Advances
<1>4. /\ sessions' \in [Session -> O!SessionOwner \cup {Absent}]
      /\ \A r \in Session : sessions'[r] # Absent => sessions[r] # Absent
  <2>1. UNCHANGED sessions \/ O!unregister_session(Main, cmd[c].profile, cmd[c].tab, cmd[c].session)
    BY DEF close_tab_session, SessionChecks, CloseUnregisters, CloseRemoves, registry
  <2>2. QED
    BY <2>1, UnregisterSession DEF LifeInv, Typed
<1>5. UNCHANGED <<attempts, lifecycle_epoch, bridge, minted>>
  BY DEF close_tab_session, SessionChecks, CloseUnregisters, CloseRemoves, runtime
<1>6. QED
  BY <1>3, <1>4, <1>5 DEF LifeInv, Typed, Fresh

LEMMA StartKeeps == ASSUME LifeInv, NEW c \in Command, start_execution(c)
                    PROVE  LifeInv'
<1>1. cmd[c] # Absent /\ cmd[c] \in Request /\ Complete(cmd[c]) /\ cmd[c].op = "start"
  BY DEF start_execution, SessionChecks, StartRegisters, StartInserts, At, LifeInv,
     Typed, Flights
<1>2. UNCHANGED <<sessions, attempts, lifecycle_epoch, minted>>
  BY DEF start_execution, SessionChecks, StartRegisters, StartInserts,
     O!register_execution, registry, runtime
<1>3. page \in PageRow
  BY DEF LifeInv, Typed
<1>4. /\ page' \in PageRow
      /\ cmd' \in [Command -> Request \cup {Absent}] /\ Flights'
  <2>1. CASE \E learned \in PageRow : Reply(c, learned)
    BY <2>1, Replies
  <2>2. CASE UNCHANGED page /\ Advance(c, "checked")
    BY <1>1, <1>3, <2>2, Advances
  <2>3. ASSUME NEW e \in Execution, UNCHANGED page,
               cmd' = [cmd EXCEPT ![c].at = "insert", ![c].execution = e]
        PROVE  /\ page' \in PageRow
               /\ cmd' \in [Command -> Request \cup {Absent}] /\ Flights'
    BY <1>1, <1>3, <2>3 DEF LifeInv, Typed, Flights, Request, Complete
  <2>4. QED
    BY <1>3, <2>1, <2>2, <2>3 DEF start_execution, SessionChecks, StartRegisters,
       StartInserts, Answer
<1>5. bridge' \in [Execution -> Bridge \cup {Absent}]
  <2>1. CASE StartInserts(c)
    <3>1. [at |-> "running", tab |-> cmd[c].tab, session |-> cmd[c].session,
           epoch |-> lifecycle_epoch, lost |-> FALSE] \in Bridge
      BY <1>1 DEF Complete, Bridge, LifeInv, Typed
    <3>2. QED
      BY <2>1, <3>1 DEF StartInserts, LifeInv, Typed
  <2>2. CASE UNCHANGED bridge
    BY <2>2 DEF LifeInv, Typed
  <2>3. QED
    BY <2>1, <2>2 DEF start_execution, SessionChecks, StartRegisters
<1>6. QED
  BY <1>2, <1>4, <1>5 DEF LifeInv, Typed, Fresh

LEMMA BridgeEventsKeep == ASSUME LifeInv, NEW e \in Execution, bridge_execution_events(e)
                          PROVE  LifeInv'
<1>1. UNCHANGED <<attempts, lifecycle_epoch, minted, cmd>>
  BY DEF bridge_execution_events, EmitTerminal, RemoveExecution, MarkTerminal,
     UnregisterLost, DropLost, runtime
<1>2. bridge[e] \in Bridge /\ page \in PageRow
  BY DEF bridge_execution_events, EmitTerminal, RemoveExecution, MarkTerminal,
     UnregisterLost, DropLost, BridgeAt, LifeInv, Typed
<1>3. bridge' \in [Execution -> Bridge \cup {Absent}]
  <2>1. \E at \in {"remove", "mark", "unregister", "drop", "done"}, lost \in BOOLEAN :
          bridge' = [bridge EXCEPT ![e].at = at]
            \/ bridge' = [bridge EXCEPT ![e].at = at, ![e].lost = lost]
    BY DEF bridge_execution_events, EmitTerminal, RemoveExecution, MarkTerminal,
       UnregisterLost, DropLost, BridgeTo
  <2>2. QED
    BY <1>2, <2>1 DEF LifeInv, Typed, Bridge
<1>4. page' \in PageRow
  <2>1. Learns(bridge[e].tab, Absent) \in PageRow
    BY <1>2 DEF Learns, PageRow, Bridge
  <2>2. QED
    BY <1>2, <2>1 DEF bridge_execution_events, EmitTerminal, RemoveExecution,
       MarkTerminal, UnregisterLost, DropLost
<1>5. /\ sessions' \in [Session -> O!SessionOwner \cup {Absent}]
      /\ \A r \in Session : sessions'[r] # Absent => sessions[r] # Absent
  <2>1. \/ UNCHANGED sessions
        \/ O!unregister_session(Main, Home[bridge[e].tab], bridge[e].tab, bridge[e].session)
    BY DEF bridge_execution_events, EmitTerminal, RemoveExecution, MarkTerminal,
       UnregisterLost, DropLost, O!mark_execution_terminal, registry
  <2>2. QED
    BY <2>1, UnregisterSession DEF LifeInv, Typed
<1>6. QED
  BY <1>1, <1>3, <1>4, <1>5 DEF LifeInv, Typed, Fresh, Flights

LEMMA LifeInitially == Init => LifeInv
  BY DEF Init, O!Init, NewPage, PageRow, LifeInv, Typed, Flights, Fresh

LEMMA LifeInductive == LifeInv /\ AttemptsAreLive /\ [Next]_vars => LifeInv'
<1> SUFFICES ASSUME LifeInv, AttemptsAreLive, [Next]_vars PROVE LifeInv'
  OBVIOUS
<1>1. CASE UNCHANGED vars
  BY <1>1 DEF vars, registry, runtime, LifeInv, Typed, Flights, Fresh
<1>2. CASE Page
  BY <1>2, PageKeeps
<1>3. CASE Reload
  <2>1. page' \in PageRow
    BY <1>3 DEF Reload, NewPage, LifeInv, Typed, PageRow
  <2>2. QED
    BY <1>3, <2>1 DEF Reload, registry, runtime, LifeInv, Typed, Flights, Fresh
<1>4. CASE Native
  BY <1>4, BootstrapKeeps, ConnectionsKeep, CancelKeeps, OpenKeeps, CloseKeeps,
     StartKeeps, BridgeEventsKeep DEF Native
<1>5. QED
  BY <1>1, <1>2, <1>3, <1>4 DEF Next

-----------------------------------------------------------------------------
(* A Connect attempt ends with its command.                                 *)
Opens(c) == At(c, "connect", "opening") \/ At(c, "connect", "opened")

LEMMA OthersStayLive ==
  ASSUME LifeInv, AttemptsAreLive, UNCHANGED attempts, NEW c \in Command, ~Opens(c),
         \A d \in Command \ {c} : cmd'[d] = cmd[d]
  PROVE  AttemptsAreLive'
<1> SUFFICES ASSUME NEW p \in Profile, attempts[p] # Absent
             PROVE  cmd'[attempts[p]] = cmd[attempts[p]]
  BY DEF AttemptsAreLive, At
<1>1. attempts[p] \in Command
  BY DEF LifeInv, Typed
<1>2. Opens(attempts[p])
  BY DEF AttemptsAreLive, Opens
<1>3. QED
  BY <1>1, <1>2

LEMMA ConnectStaysLive == ASSUME LifeInv, AttemptsAreLive, NEW c \in Command, connect_profile(c)
                          PROVE  AttemptsAreLive'
<1>1. cmd[c] \in Request /\ cmd \in [Command -> Request \cup {Absent}] /\ cmd[c].op = "connect"
      /\ cmd[c].profile \in Profile /\ Absent \notin Request /\ c # Absent
      /\ attempts \in [Profile -> Command \cup {Absent}]
  BY LifecycleAssumption DEF connect_profile, ConnectChecks, begin_connection_attempt,
     ConnectOpens, ConnectFails, Connected, At, LifeInv, Typed, Flights, Complete
<1>2. CASE UNCHANGED attempts /\ ~Opens(c)
  <2>1. \A d \in Command \ {c} : cmd'[d] = cmd[d]
    BY <1>1 DEF connect_profile, ConnectChecks, begin_connection_attempt, ConnectOpens,
       ConnectFails, Connected, Advance, Answer, Reply
  <2>2. QED
    BY <1>2, <2>1, OthersStayLive
<1>3. CASE /\ ~Opens(c)
           /\ attempts' = [attempts EXCEPT ![cmd[c].profile] = c]
           /\ Advance(c, "opening")
  <2>1. cmd'[c] \in Request /\ At(c, "connect", "opening")' /\ cmd'[c].profile = cmd[c].profile
    BY <1>1, <1>3 DEF Advance, Request, At
  <2>2. ASSUME NEW p \in Profile, p # cmd[c].profile, attempts[p] # Absent
        PROVE  attempts[p] # c /\ attempts[p] \in Command /\ attempts'[p] = attempts[p]
    BY <1>1, <1>3, <2>2 DEF AttemptsAreLive, Opens
  <2>3. \A d \in Command \ {c} : cmd'[d] = cmd[d]
    BY <1>1, <1>3 DEF Advance
  <2>4. QED
    BY <1>1, <1>3, <2>1, <2>2, <2>3 DEF AttemptsAreLive, At
<1>4. CASE ConnectOpens(c)
  <2>1. cmd'[c] \in Request /\ At(c, "connect", "opened")' /\ cmd'[c].profile = cmd[c].profile
    BY <1>1, <1>4 DEF ConnectOpens, Advance, Request, At
  <2>2. UNCHANGED attempts /\ \A d \in Command \ {c} : cmd'[d] = cmd[d]
    BY <1>1, <1>4 DEF ConnectOpens, Advance, runtime
  <2>3. QED
    BY <1>1, <2>1, <2>2 DEF AttemptsAreLive, At
<1>5. CASE ConnectFails(c) \/ Connected(c)
  <2>1. attempts' = [attempts EXCEPT ![cmd[c].profile] = Absent]
    BY <1>5 DEF ConnectFails, Connected, finish_connection_attempt
  <2>2. \A d \in Command \ {c} : cmd'[d] = cmd[d]
    BY <1>1, <1>5 DEF ConnectFails, Connected, Answer, Reply
  <2>3. ASSUME NEW p \in Profile, attempts'[p] # Absent
        PROVE  attempts'[p] = attempts[p] /\ attempts[p] # c /\ attempts[p] \in Command
    BY <1>1, <2>1, <2>3 DEF AttemptsAreLive
  <2>4. QED
    BY <2>2, <2>3 DEF AttemptsAreLive, At
<1>6. QED
  <2>1. ConnectChecks(c) => UNCHANGED attempts /\ ~Opens(c)
    BY DEF ConnectChecks, runtime, Opens, At
  <2>2. begin_connection_attempt(c) => ~Opens(c)
    BY DEF begin_connection_attempt, Opens, At
  <2>3. QED
    BY <1>2, <1>3, <1>4, <1>5, <2>1, <2>2 DEF connect_profile, begin_connection_attempt

LEMMA LiveInductive == LifeInv /\ AttemptsAreLive /\ [Next]_vars => AttemptsAreLive'
<1> SUFFICES ASSUME LifeInv, AttemptsAreLive, [Next]_vars PROVE AttemptsAreLive'
  OBVIOUS
<1>t. cmd \in [Command -> Request \cup {Absent}] /\ Absent \notin Request
  BY LifecycleAssumption DEF LifeInv, Typed
<1>1. CASE UNCHANGED <<attempts, cmd>>
  BY <1>1 DEF AttemptsAreLive, At
<1>2. CASE Page
  <2>1. PICK c \in Command : \E request : Issue(c, request)
    BY <1>2 DEF Page, bootstrap, connectProfile, disconnectProfile, ensureTabSession,
       startExecutionRequest, closeProfileSessions, runAction
  <2>2. PICK request : Issue(c, request)
    BY <2>1
  <2>3. ~Opens(c) /\ UNCHANGED attempts /\ \A d \in Command \ {c} : cmd'[d] = cmd[d]
    BY <1>t, <2>2 DEF Issue, Opens, At, runtime
  <2>4. QED
    BY <2>3, OthersStayLive
<1>3. ASSUME NEW c \in Command, bootstrap_workspace(c) PROVE AttemptsAreLive'
  <2>1. CASE cleanup(c)
    BY <2>1 DEF cleanup, AttemptsAreLive
  <2>2. CASE ~cleanup(c)
    <3>1. ~Opens(c) /\ UNCHANGED attempts
      BY <1>3, <2>2 DEF bootstrap_workspace, cleanup_window, RegisterProfiles,
         RegisterTabs, Opens, At, runtime
    <3>2. \A d \in Command \ {c} : cmd'[d] = cmd[d]
      BY <1>t, <1>3, <2>2 DEF bootstrap_workspace, cleanup_window, RegisterProfiles,
         RegisterTabs, Advance, Reply
    <3>3. QED
      BY <3>1, <3>2, OthersStayLive
  <2>3. QED
    BY <2>1, <2>2
<1>4. ASSUME NEW c \in Command, connect_profile(c) PROVE AttemptsAreLive'
  BY <1>4, ConnectStaysLive
<1>5. ASSUME NEW c \in Command,
             disconnect_profile(c) \/ open_tab_session(c) \/ close_tab_session(c)
               \/ start_execution(c)
      PROVE  AttemptsAreLive'
  <2>1. ~Opens(c) /\ UNCHANGED attempts
    BY <1>5 DEF disconnect_profile, open_tab_session, OpenChecks, OpenRegisters,
       OpenInserts, close_tab_session, SessionChecks, CloseUnregisters, CloseRemoves,
       start_execution, StartRegisters, StartInserts, Opens, At, runtime
  <2>2. \A d \in Command \ {c} : cmd'[d] = cmd[d]
    BY <1>t, <1>5 DEF disconnect_profile, open_tab_session, OpenChecks, OpenRegisters,
       OpenInserts, close_tab_session, SessionChecks, CloseUnregisters, CloseRemoves,
       start_execution, StartRegisters, StartInserts, Advance, Answer, Reply
  <2>3. QED
    BY <2>1, <2>2, OthersStayLive
<1>6. ASSUME NEW p \in Profile, cancel_profile_connection(p) PROVE AttemptsAreLive'
  <2>1. attempts[p] \in Command /\ cmd[attempts[p]] \in Request /\ UNCHANGED attempts
    BY <1>t, <1>6 DEF cancel_profile_connection, LifeInv, Typed, runtime
  <2>2. cmd' = [cmd EXCEPT ![attempts[p]].cancelled = TRUE]
    BY <1>6 DEF cancel_profile_connection
  <2>3. \A d \in Command : d # attempts[p] => cmd'[d] = cmd[d]
    BY <1>t, <2>2
  <2>4. /\ cmd'[attempts[p]] \in Request
        /\ cmd'[attempts[p]].op = cmd[attempts[p]].op
        /\ cmd'[attempts[p]].at = cmd[attempts[p]].at
        /\ cmd'[attempts[p]].profile = cmd[attempts[p]].profile
    BY <1>t, <2>1, <2>2 DEF Request
  <2>5. attempts \in [Profile -> Command \cup {Absent}]
    BY DEF LifeInv, Typed
  <2>6. QED
    BY <1>t, <2>1, <2>3, <2>4, <2>5 DEF AttemptsAreLive, At
<1>7. ASSUME NEW e \in Execution, bridge_execution_events(e) PROVE UNCHANGED <<attempts, cmd>>
  BY <1>7 DEF bridge_execution_events, EmitTerminal, RemoveExecution, MarkTerminal,
     UnregisterLost, DropLost, runtime
<1>8. Reload \/ UNCHANGED vars => UNCHANGED <<attempts, cmd>>
  BY DEF Reload, vars, runtime
<1>9. QED
  BY <1>1, <1>2, <1>3, <1>4, <1>5, <1>6, <1>7, <1>8 DEF Next, Native

LEMMA LifeInvHolds == Spec => [](LifeInv /\ AttemptsAreLive)
<1>1. Init => LifeInv /\ AttemptsAreLive
  BY LifeInitially DEF Init, AttemptsAreLive
<1>2. LifeInv /\ AttemptsAreLive /\ [Next]_vars => (LifeInv /\ AttemptsAreLive)'
  BY LifeInductive, LiveInductive
<1>3. QED
  BY <1>1, <1>2, PTL DEF Spec

(* Whatever fails, is cancelled or is reloaded while a connection opens,    *)
(* the attempt is finished by the command that began it: a profile never    *)
(* stays "already in progress".                                             *)
THEOREM NoAttemptIsForgotten == Spec => []AttemptsAreLive
  BY LifeInvHolds, PTL

-----------------------------------------------------------------------------
(* The commands only ever take steps the ownership registry allows: the     *)
(* guards of the two modules fit.  Identifiers are the difficulty: that one *)
(* is fresh when it is registered follows from Fresh, that a bridge names   *)
(* what it did when it was spawned from Typed.                              *)
LEMMA OwnerSteps == LifeInv /\ [Next]_vars => [O!Next]_(O!vars)
<1> SUFFICES ASSUME LifeInv, Next
             PROVE  O!Next \/ UNCHANGED registry
  BY DEF vars, registry, O!vars
<1>1. ASSUME NEW c \in Command, bootstrap_workspace(c)
      PROVE  O!Next \/ UNCHANGED registry
  <2>1. CASE O!cleanup_window(Main)
    BY <2>1 DEF O!Next, O!Release
  <2>2. ASSUME NEW p \in Profile, profiles[p] = Absent, O!register_profile(Main, p)
        PROVE  O!Next
    BY <2>2 DEF O!Next, O!Register
  <2>3. ASSUME NEW t \in Tab, tabs[t] = Absent, O!register_tab(Main, Home[t], t)
        PROVE  O!Next
    <3>1. Home[t] \in Profile
      BY LifecycleAssumption
    <3>2. QED
      BY <2>3, <3>1 DEF O!Next, O!Register
  <2>4. QED
    BY <1>1, <2>1, <2>2, <2>3 DEF bootstrap_workspace, cleanup, cleanup_window,
       RegisterProfiles, RegisterTabs
<1>2. ASSUME NEW c \in Command, open_tab_session(c)
      PROVE  O!Next \/ UNCHANGED registry
  <2>1. ASSUME NEW s \in Session \ minted, O!register_session(Main, cmd[c].profile, cmd[c].tab, s),
               At(c, "open", "opening")
        PROVE  O!Next
    <3>1. sessions[s] = Absent
      BY <2>1 DEF LifeInv, Fresh
    <3>2. cmd[c].profile \in Profile /\ cmd[c].tab \in Tab
      BY <2>1 DEF At, LifeInv, Flights, Complete
    <3>3. QED
      BY <2>1, <3>1, <3>2 DEF O!Next, O!Register
  <2>2. QED
    BY <1>2, <2>1 DEF open_tab_session, OpenChecks, OpenRegisters, OpenInserts
<1>3. ASSUME NEW p \in Profile, NEW t \in Tab, NEW s \in Session,
             O!unregister_session(Main, p, t, s)
      PROVE  O!Next
  BY <1>3 DEF O!Next, O!Release
<1>4. ASSUME NEW c \in Command, close_tab_session(c) \/ start_execution(c)
      PROVE  O!Next \/ UNCHANGED registry
  <2>1. cmd[c].profile \in Profile /\ cmd[c].tab \in Tab /\ cmd[c].session \in Session
    BY <1>4 DEF close_tab_session, start_execution, SessionChecks, CloseUnregisters,
       CloseRemoves, StartRegisters, StartInserts, At, LifeInv, Flights, Complete
  <2>2. ASSUME NEW e \in Execution, executions[e] = Absent, e \notin terminal_executions,
               O!register_execution(Main, cmd[c].profile, cmd[c].tab, cmd[c].session, e)
        PROVE  O!Next
    BY <2>1, <2>2 DEF O!Next, O!Register
  <2>3. QED
    BY <1>3, <1>4, <2>1, <2>2 DEF close_tab_session, start_execution, SessionChecks,
       CloseUnregisters, CloseRemoves, StartRegisters, StartInserts
<1>5. ASSUME NEW e \in Execution, bridge_execution_events(e)
      PROVE  O!Next \/ UNCHANGED registry
  <2>1. bridge[e].tab \in Tab /\ bridge[e].session \in Session /\ Home[bridge[e].tab] \in Profile
    <3>1. bridge[e] \in Bridge
      BY <1>5 DEF bridge_execution_events, EmitTerminal, RemoveExecution, MarkTerminal,
         UnregisterLost, DropLost, BridgeAt, LifeInv, Typed
    <3>2. QED
      BY <3>1, LifecycleAssumption DEF Bridge
  <2>2. CASE O!mark_execution_terminal(Main, Home[bridge[e].tab], bridge[e].tab, bridge[e].session, e)
    BY <2>1, <2>2 DEF O!Next, O!Release
  <2>3. QED
    BY <1>3, <1>5, <2>1, <2>2 DEF bridge_execution_events, EmitTerminal,
       RemoveExecution, MarkTerminal, UnregisterLost, DropLost
<1>6. Page \/ Reload => UNCHANGED registry
  BY DEF Page, bootstrap, connectProfile, disconnectProfile, ensureTabSession,
     startExecutionRequest, closeProfileSessions, runAction, Issue, Reload
<1>7. \A c \in Command : connect_profile(c) \/ disconnect_profile(c) => UNCHANGED registry
  BY DEF connect_profile, ConnectChecks, begin_connection_attempt, ConnectOpens,
     ConnectFails, Connected, disconnect_profile
<1>8. \A p \in Profile : cancel_profile_connection(p) => UNCHANGED registry
  BY DEF cancel_profile_connection
<1>9. QED
  BY <1>1, <1>2, <1>4, <1>5, <1>6, <1>7, <1>8 DEF Next, Native

(* Every behaviour of the commands is a behaviour of OwnershipRegistry, for *)
(* every number of commands in flight, so what is proved of the registry    *)
(* alone holds of it in the program.                                        *)
THEOREM CommandsImplementOwnership == Spec => OwnerSpec
<1>1. Init => O!Init
  BY DEF Init
<1>2. QED
  BY <1>1, OwnerSteps, LifeInvHolds, PTL DEF Spec, OwnerSpec, O!Spec

-----------------------------------------------------------------------------
(* One execution for each session, whatever page asks and whatever reload   *)
(* comes in between.  A start that passed its checks owns its session until *)
(* its execution is inserted (Exclusive).  Starts of one page are one after *)
(* another (Serial); a start of an earlier page names a session whose owner *)
(* the last bootstrap released (Buried), so register_execution refuses it.  *)
(* First, what one step may do to a command in flight.                      *)
SameRequest(d) ==
  /\ cmd'[d].op = cmd[d].op /\ cmd'[d].generation = cmd[d].generation
  /\ cmd'[d].tab = cmd[d].tab /\ cmd'[d].profile = cmd[d].profile

Moves(d) ==
  \/ cleanup(d) \/ cleanup_window(d) \/ RegisterProfiles(d)
  \/ ConnectChecks(d) \/ begin_connection_attempt(d) \/ ConnectOpens(d)
  \/ OpenChecks(d) \/ OpenRegisters(d)
  \/ SessionChecks(d, "close") \/ CloseUnregisters(d)
  \/ SessionChecks(d, "start") \/ StartRegisters(d)

Kept(d) ==
  /\ SameRequest(d)
  /\ cmd'[d].session = cmd[d].session \/ OpenRegisters(d)
  /\ cmd'[d].execution = cmd[d].execution \/ StartRegisters(d)
  /\ cmd'[d].at = cmd[d].at \/ Moves(d)

LEMMA CommandsMove ==
  ASSUME LifeInv, AttemptsAreLive, Next, NEW d \in Command, cmd[d] # Absent, cmd'[d] # Absent
  PROVE  Kept(d)
<1>t. cmd \in [Command -> Request \cup {Absent}] /\ cmd[d] \in Request
  BY DEF LifeInv, Typed
<1>a. cmd'[d] = cmd[d] => Kept(d)
  BY DEF Kept, SameRequest
<1>b. ASSUME NEW at, Advance(d, at) PROVE SameRequest(d) /\ cmd'[d].session = cmd[d].session
         /\ cmd'[d].execution = cmd[d].execution
  BY <1>t, <1>b DEF Advance, SameRequest, Request
<1>c. ASSUME NEW c \in Command, c # d, NEW at, Advance(c, at) PROVE cmd'[d] = cmd[d]
  BY <1>t, <1>c DEF Advance
<1>d. ASSUME NEW c \in Command, NEW learned, Reply(c, learned)
      PROVE  cmd'[d] = cmd[d] \/ cmd'[d] = Absent
  BY <1>t, <1>d DEF Reply
<1>1. CASE UNCHANGED cmd
  BY <1>1, <1>a
<1>2. CASE Page
  <2>1. PICK c \in Command : \E request : Issue(c, request)
    BY <1>2 DEF Page, bootstrap, connectProfile, disconnectProfile, ensureTabSession,
       startExecutionRequest, closeProfileSessions, runAction
  <2>2. cmd'[d] = cmd[d]
    BY <1>t, <2>1 DEF Issue
  <2>3. QED
    BY <2>2, <1>a
<1>3. ASSUME NEW c \in Command, cleanup(c) PROVE Kept(d)
  <2>1. \/ d = c /\ cmd'[d] = [cmd[d] EXCEPT !.at = "reading"]
        \/ cmd'[d] = [cmd[d] EXCEPT !.cancelled = TRUE]
        \/ cmd'[d] = cmd[d]
    BY <1>3 DEF cleanup
  <2>2. CASE d = c /\ cmd'[d] = [cmd[d] EXCEPT !.at = "reading"]
    BY <1>t, <1>3, <2>2 DEF Kept, SameRequest, Request, Moves
  <2>3. CASE cmd'[d] = [cmd[d] EXCEPT !.cancelled = TRUE]
    BY <1>t, <2>3 DEF Kept, SameRequest, Request
  <2>4. QED
    BY <1>a, <2>1, <2>2, <2>3
<1>4. ASSUME NEW c \in Command, NEW at, Advance(c, at), Moves(c) PROVE Kept(d)
  <2>1. CASE c # d
    BY <2>1, <1>4, <1>c, <1>a
  <2>2. CASE c = d
    BY <2>2, <1>4, <1>b DEF Kept
  <2>3. QED
    BY <2>1, <2>2
<1>5. ASSUME NEW c \in Command, NEW learned, Reply(c, learned) PROVE Kept(d)
  BY <1>5, <1>d, <1>a
<1>6. ASSUME NEW c \in Command, bootstrap_workspace(c) PROVE Kept(d)
  BY <1>1, <1>3, <1>4, <1>5, <1>6 DEF bootstrap_workspace, cleanup_window,
     RegisterProfiles, RegisterTabs, Moves
<1>7. ASSUME NEW c \in Command, connect_profile(c) \/ disconnect_profile(c) PROVE Kept(d)
  BY <1>1, <1>4, <1>5, <1>7 DEF connect_profile, ConnectChecks,
     begin_connection_attempt, ConnectOpens, ConnectFails, Connected,
     disconnect_profile, Answer, Moves
<1>8. ASSUME NEW c \in Command, open_tab_session(c) PROVE Kept(d)
  <2>1. ASSUME NEW s, cmd' = [cmd EXCEPT ![c].at = "insert", ![c].session = s], OpenRegisters(c)
        PROVE  Kept(d)
    <3>1. CASE c = d
      <4>1. cmd'[d] = [cmd[d] EXCEPT !.at = "insert", !.session = s]
        BY <1>t, <2>1, <3>1
      <4>2. QED
        BY <1>t, <2>1, <3>1, <4>1 DEF Kept, SameRequest, Moves, Request
    <3>2. CASE c # d
      BY <1>t, <2>1, <3>2, <1>a
    <3>3. QED
      BY <3>1, <3>2
  <2>2. CASE OpenChecks(c)
    BY <1>4, <1>5, <2>2 DEF OpenChecks, Answer, Moves
  <2>3. CASE OpenRegisters(c)
    BY <1>5, <2>1, <2>3 DEF OpenRegisters, Answer
  <2>4. CASE OpenInserts(c)
    BY <1>5, <2>4 DEF OpenInserts
  <2>5. QED
    BY <1>8, <2>2, <2>3, <2>4 DEF open_tab_session
<1>9. ASSUME NEW c \in Command, close_tab_session(c) PROVE Kept(d)
  <2>1. CASE SessionChecks(c, "close")
    BY <2>1, <1>4, <1>5 DEF SessionChecks, Answer, Moves
  <2>2. CASE CloseUnregisters(c)
    BY <2>2, <1>4, <1>5 DEF CloseUnregisters, Answer, Moves
  <2>3. CASE CloseRemoves(c)
    BY <2>3, <1>5 DEF CloseRemoves
  <2>4. QED
    BY <1>9, <2>1, <2>2, <2>3 DEF close_tab_session
<1>10. ASSUME NEW c \in Command, start_execution(c) PROVE Kept(d)
  <2>1. ASSUME NEW e, cmd' = [cmd EXCEPT ![c].at = "insert", ![c].execution = e], StartRegisters(c)
        PROVE  Kept(d)
    <3>1. CASE c = d
      <4>1. cmd'[d] = [cmd[d] EXCEPT !.at = "insert", !.execution = e]
        BY <1>t, <2>1, <3>1
      <4>2. QED
        BY <1>t, <2>1, <3>1, <4>1 DEF Kept, SameRequest, Moves, Request
    <3>2. CASE c # d
      BY <1>t, <2>1, <3>2, <1>a
    <3>3. QED
      BY <3>1, <3>2
  <2>2. CASE SessionChecks(c, "start")
    BY <2>2, <1>4, <1>5 DEF SessionChecks, Answer, Moves
  <2>3. CASE StartRegisters(c)
    BY <2>1, <2>3, <1>5 DEF StartRegisters, Answer
  <2>4. CASE StartInserts(c)
    BY <2>4, <1>5 DEF StartInserts, Answer
  <2>5. QED
    BY <1>10, <2>2, <2>3, <2>4 DEF start_execution
<1>11. ASSUME NEW p \in Profile, cancel_profile_connection(p) PROVE Kept(d)
  <2>1. attempts[p] \in Command /\ cmd' = [cmd EXCEPT ![attempts[p]].cancelled = TRUE]
    BY <1>11 DEF cancel_profile_connection, LifeInv, Typed
  <2>2. cmd'[d] = cmd[d] \/ cmd'[d] = [cmd[d] EXCEPT !.cancelled = TRUE]
    BY <1>t, <2>1
  <2>3. CASE cmd'[d] = [cmd[d] EXCEPT !.cancelled = TRUE]
    BY <1>t, <2>3 DEF Kept, SameRequest, Request
  <2>4. QED
    BY <1>a, <2>2, <2>3
<1>12. ASSUME NEW e \in Execution, bridge_execution_events(e) PROVE UNCHANGED cmd
  BY <1>12 DEF bridge_execution_events, EmitTerminal, RemoveExecution, MarkTerminal,
     UnregisterLost, DropLost
<1>13. Reload => UNCHANGED cmd
  BY DEF Reload
<1>14. QED
  BY <1>1, <1>2, <1>6, <1>7, <1>8, <1>9, <1>10, <1>11, <1>12, <1>13 DEF Next, Native

(* What a request says when the page makes it.                              *)
Asked(c) ==
  /\ cmd'[c] # Absent => /\ cmd'[c].generation = page.generation
                         /\ cmd'[c].at = "check" /\ cmd'[c].execution = Absent
  /\ \A d \in Command \ {c} : cmd'[d] = cmd[d]
  /\ \/ /\ cmd'[c].op = "bootstrap" /\ page.at = "loading"
        /\ page' = [page EXCEPT !.at = "bootstrapping"]
     \/ /\ page.at = "ready" /\ UNCHANGED page
        /\ \/ cmd'[c].op = "open"
           \/ setting.serialises => ~busy
        /\ cmd'[c].op \in {"connect", "disconnect", "open", "start", "close"}
        /\ cmd'[c].op \in {"start", "close"} =>
             /\ page.session[cmd'[c].tab] # Absent
             /\ cmd'[c].session = page.session[cmd'[c].tab]
             /\ cmd'[c].profile = Home[cmd'[c].tab]

LEMMA PageAsks ==
  ASSUME LifeInv, Page
  PROVE  /\ UNCHANGED <<registry, runtime, bridge, minted>>
         /\ \E c \in Command : cmd[c] = Absent /\ cmd'[c] # Absent /\ Asked(c)
<1>t. /\ cmd \in [Command -> Request \cup {Absent}] /\ Absent \notin Request
      /\ Blank \in Request /\ Blank.generation = page.generation /\ Blank.at = "check"
      /\ Blank.execution = Absent /\ page \in PageRow
  BY BlankTyped, LifecycleAssumption DEF LifeInv, Typed, Blank
<1>1. PICK c \in Command :
        \/ bootstrap(c)
        \/ \E p \in Profile : connectProfile(c, p) \/ disconnectProfile(c, p)
        \/ \E t \in Tab :
             ensureTabSession(c, t) \/ startExecutionRequest(c, t) \/ closeProfileSessions(c, t)
  BY DEF Page
<1>2. ASSUME NEW request \in Request, Issue(c, request)
      PROVE  /\ cmd[c] = Absent /\ cmd'[c] = request /\ request # Absent
             /\ \A d \in Command \ {c} : cmd'[d] = cmd[d]
             /\ UNCHANGED <<registry, runtime, bridge, minted>>
  BY <1>t, <1>2 DEF Issue
<1>3. CASE bootstrap(c)
  <2> DEFINE request == [Blank EXCEPT !.op = "bootstrap"]
  <2>1. request \in Request /\ request.op = "bootstrap" /\ request.generation = page.generation
        /\ request.at = "check" /\ request.execution = Absent
    BY <1>t DEF Request
  <2>2. Issue(c, request) /\ page.at = "loading" /\ page' = [page EXCEPT !.at = "bootstrapping"]
    BY <1>3 DEF bootstrap
  <2> HIDE DEF request
  <2>3. QED
    BY <1>2, <2>1, <2>2 DEF Asked
<1>4. ASSUME NEW p \in Profile, NEW op \in {"connect", "disconnect"},
             runAction(c, [Blank EXCEPT !.op = op, !.profile = p])
      PROVE  UNCHANGED <<registry, runtime, bridge, minted>>
             /\ \E x \in Command : cmd[x] = Absent /\ cmd'[x] # Absent /\ Asked(x)
  <2> DEFINE request == [Blank EXCEPT !.op = op, !.profile = p]
  <2>1. request \in Request /\ request.op = op /\ request.generation = page.generation
        /\ request.at = "check" /\ request.execution = Absent
    BY <1>t DEF Request
  <2>2. Issue(c, request) /\ page.at = "ready" /\ UNCHANGED page /\ (setting.serialises => ~busy)
    BY <1>4 DEF runAction
  <2> HIDE DEF request
  <2>3. QED
    BY <1>2, <2>1, <2>2 DEF Asked
<1>5. ASSUME NEW t \in Tab, ensureTabSession(c, t)
      PROVE  UNCHANGED <<registry, runtime, bridge, minted>>
             /\ \E x \in Command : cmd[x] = Absent /\ cmd'[x] # Absent /\ Asked(x)
  <2> DEFINE request == [Blank EXCEPT !.op = "open", !.profile = Home[t], !.tab = t]
  <2>0. Home[t] \in Profile
    BY LifecycleAssumption
  <2>1. request \in Request /\ request.op = "open" /\ request.generation = page.generation
        /\ request.at = "check" /\ request.execution = Absent
    BY <1>t, <2>0 DEF Request
  <2>2. Issue(c, request) /\ page.at = "ready" /\ UNCHANGED page
    BY <1>5 DEF ensureTabSession
  <2> HIDE DEF request
  <2>3. QED
    BY <1>2, <2>1, <2>2 DEF Asked
<1>6. ASSUME NEW t \in Tab, NEW op \in {"start", "close"}, page.session[t] # Absent,
             runAction(c, [Blank EXCEPT !.op = op, !.profile = Home[t], !.tab = t,
                                        !.session = page.session[t]])
      PROVE  UNCHANGED <<registry, runtime, bridge, minted>>
             /\ \E x \in Command : cmd[x] = Absent /\ cmd'[x] # Absent /\ Asked(x)
  <2> DEFINE request == [Blank EXCEPT !.op = op, !.profile = Home[t], !.tab = t,
                                      !.session = page.session[t]]
  <2>0. Home[t] \in Profile /\ page.session[t] \in Session \cup {Absent}
    BY <1>t, LifecycleAssumption DEF PageRow
  <2>1. request \in Request /\ request.op = op /\ request.generation = page.generation
        /\ request.at = "check" /\ request.execution = Absent /\ request.tab = t
        /\ request.session = page.session[t] /\ request.profile = Home[t]
    BY <1>t, <2>0 DEF Request
  <2>2. Issue(c, request) /\ page.at = "ready" /\ UNCHANGED page /\ (setting.serialises => ~busy)
    BY <1>6 DEF runAction
  <2> HIDE DEF request
  <2>3. QED
    BY <1>2, <1>6, <2>1, <2>2 DEF Asked
<1>7. QED
  BY <1>1, <1>3, <1>4, <1>5, <1>6 DEF connectProfile, disconnectProfile,
     startExecutionRequest, closeProfileSessions

(* Only the page makes requests.                                            *)
LEMMA RequestsAreAsked ==
  ASSUME LifeInv, AttemptsAreLive, Next, NEW d \in Command, cmd[d] = Absent, cmd'[d] # Absent
  PROVE  Page /\ Asked(d)
<1>t. cmd \in [Command -> Request \cup {Absent}]
  BY DEF LifeInv, Typed
<1>1. ASSUME Page PROVE Asked(d)
  <2>1. PICK c \in Command : cmd[c] = Absent /\ cmd'[c] # Absent /\ Asked(c)
    BY <1>1, PageAsks
  <2>2. QED
    BY <2>1 DEF Asked
<1>2. ASSUME NEW c \in Command, cmd[c] # Absent, \A x \in Command \ {c} : cmd'[x] = cmd[x]
      PROVE  FALSE
  BY <1>2
<1>3. ASSUME NEW c \in Command, bootstrap_workspace(c) PROVE FALSE
  <2>1. CASE cleanup(c)
    <3>1. d # c /\ d # Absent /\ ~\E p \in Profile : attempts[p] = d
      BY <2>1, LifecycleAssumption DEF cleanup, At, AttemptsAreLive
    <3>2. QED
      BY <2>1, <3>1 DEF cleanup
  <2>2. CASE ~cleanup(c)
    BY <1>t, <1>2, <1>3, <2>2 DEF bootstrap_workspace, cleanup_window, RegisterProfiles,
       RegisterTabs, Advance, Reply, At
  <2>3. QED
    BY <2>1, <2>2
<1>4. ASSUME NEW c \in Command, connect_profile(c) \/ disconnect_profile(c) PROVE FALSE
  BY <1>t, <1>2, <1>4 DEF connect_profile, ConnectChecks, begin_connection_attempt,
     ConnectOpens, ConnectFails, Connected, disconnect_profile, Advance, Answer, Reply,
     At
<1>5. ASSUME NEW c \in Command, open_tab_session(c) \/ close_tab_session(c) \/ start_execution(c)
      PROVE  FALSE
  BY <1>t, <1>2, <1>5 DEF open_tab_session, OpenChecks, OpenRegisters, OpenInserts,
     close_tab_session, SessionChecks, CloseUnregisters, CloseRemoves, start_execution,
     StartRegisters, StartInserts, Advance, Answer, Reply, At
<1>6. ASSUME NEW p \in Profile, cancel_profile_connection(p) PROVE FALSE
  BY <1>t, <1>6 DEF cancel_profile_connection
<1>7. ASSUME NEW e \in Execution, bridge_execution_events(e) PROVE UNCHANGED cmd
  BY <1>7 DEF bridge_execution_events, EmitTerminal, RemoveExecution, MarkTerminal,
     UnregisterLost, DropLost
<1>8. Reload => UNCHANGED cmd
  BY DEF Reload
<1>9. QED
  BY <1>1, <1>3, <1>4, <1>5, <1>6, <1>7, <1>8 DEF Next, Native

(* The owners of sessions: a step releases some, or registers a new         *)
(* identifier.                                                              *)
LEMMA SessionsMove ==
  ASSUME LifeInv, Next
  PROVE  /\ minted \subseteq minted'
         /\ \A s \in Session : sessions'[s] # Absent => sessions'[s] = sessions[s]
              \/ s \notin minted
<1>t. sessions \in [Session -> O!SessionOwner \cup {Absent}]
  BY DEF LifeInv, Typed
<1>1. CASE UNCHANGED <<sessions, minted>>
  BY <1>1
<1>2. ASSUME NEW c \in Command, bootstrap_workspace(c)
      PROVE  /\ UNCHANGED minted
             /\ \A s \in Session : sessions'[s] # Absent => sessions'[s] = sessions[s]
  <2>1. CASE cleanup_window(c)
    BY <1>t, <2>1 DEF cleanup_window, O!cleanup_window
  <2>2. cleanup(c) \/ RegisterProfiles(c) \/ RegisterTabs(c) => UNCHANGED <<sessions, minted>>
    BY DEF cleanup, RegisterProfiles, RegisterTabs, registry, O!register_profile,
       O!register_tab
  <2>3. QED
    BY <1>2, <2>1, <2>2 DEF bootstrap_workspace
<1>3. ASSUME NEW p, NEW t, NEW s, O!unregister_session(Main, p, t, s)
      PROVE  \A r \in Session : sessions'[r] # Absent => sessions'[r] = sessions[r]
  BY <1>t, <1>3 DEF O!unregister_session
<1>4. ASSUME NEW c \in Command, OpenRegisters(c)
      PROVE  /\ minted \subseteq minted'
             /\ \A s \in Session : sessions'[s] # Absent => sessions'[s] = sessions[s]
                  \/ s \notin minted
  BY <1>t, <1>4 DEF OpenRegisters, registry, O!register_session
<1>5. ASSUME NEW c \in Command, CloseUnregisters(c)
      PROVE  /\ UNCHANGED minted
             /\ \A s \in Session : sessions'[s] # Absent => sessions'[s] = sessions[s]
  BY <1>3, <1>5 DEF CloseUnregisters, registry
<1>6. ASSUME NEW e \in Execution, UnregisterLost(e)
      PROVE  /\ UNCHANGED minted
             /\ \A s \in Session : sessions'[s] # Absent => sessions'[s] = sessions[s]
  BY <1>3, <1>6 DEF UnregisterLost, registry
<1>7. \A c \in Command : connect_profile(c) \/ disconnect_profile(c)
        => UNCHANGED <<sessions, minted>>
  BY DEF connect_profile, ConnectChecks, begin_connection_attempt, ConnectOpens,
     ConnectFails, Connected, disconnect_profile, registry
<1>8. \A c \in Command : OpenChecks(c) \/ OpenInserts(c) \/ SessionChecks(c, "close")
        \/ CloseRemoves(c)
        \/ start_execution(c) => UNCHANGED <<sessions, minted>>
  BY DEF OpenChecks, OpenInserts, SessionChecks, CloseRemoves, start_execution,
     StartRegisters, StartInserts, registry, O!register_execution
<1>9. \A e \in Execution : EmitTerminal(e) \/ RemoveExecution(e) \/ MarkTerminal(e) \/ DropLost(e)
        => UNCHANGED <<sessions, minted>>
  BY DEF EmitTerminal, RemoveExecution, MarkTerminal, DropLost, registry,
     O!mark_execution_terminal
<1>10. \A p \in Profile : cancel_profile_connection(p) => UNCHANGED <<sessions, minted>>
  BY DEF cancel_profile_connection, registry
<1>11. Page \/ Reload => UNCHANGED <<sessions, minted>>
  BY PageAsks DEF Reload, registry
<1>12. QED
  BY <1>1, <1>2, <1>4, <1>5, <1>6, <1>7, <1>8, <1>9, <1>10, <1>11 DEF Next, Native,
     open_tab_session, close_tab_session, bridge_execution_events

(* What the page believes after a step.                                     *)
LEMMA PageMoves ==
  ASSUME LifeInv, Next, ~Reload
  PROVE  /\ page'.generation = page.generation
         /\ \/ page'.at = page.at
            \/ page.at = "loading" /\ page'.at = "bootstrapping" /\ Page
            \/ /\ page'.at = "ready"
               /\ \E c \in Command : RegisterTabs(c) /\ cmd[c].generation = page.generation
         /\ \A t \in Tab : \/ page'.session[t] \in {page.session[t], Absent}
                           \/ \E c \in Command, s \in Session :
                                /\ page'.session[t] = s
                                /\ \/ OpenChecks(c) /\ native_sessions[s] = t
                                   \/ OpenInserts(c) /\ cmd[c].session = s /\ cmd[c].tab = t
<1>t. page \in PageRow /\ cmd \in [Command -> Request \cup {Absent}]
  BY DEF LifeInv, Typed
<1> DEFINE Goal ==
      /\ page'.generation = page.generation
      /\ \/ page'.at = page.at
         \/ page.at = "loading" /\ page'.at = "bootstrapping" /\ Page
         \/ /\ page'.at = "ready"
            /\ \E c \in Command : RegisterTabs(c) /\ cmd[c].generation = page.generation
      /\ \A t \in Tab : \/ page'.session[t] \in {page.session[t], Absent}
                        \/ \E c \in Command, s \in Session :
                             /\ page'.session[t] = s
                             /\ \/ OpenChecks(c) /\ native_sessions[s] = t
                                \/ OpenInserts(c) /\ cmd[c].session = s /\ cmd[c].tab = t
<1>1. CASE UNCHANGED page
  BY <1>1
<1>2. CASE Page
  <2>1. UNCHANGED page \/ (page.at = "loading" /\ page' = [page EXCEPT !.at = "bootstrapping"])
    BY <1>2, PageAsks DEF Asked
  <2>2. QED
    BY <1>t, <1>2, <2>1 DEF PageRow
<1>3. ASSUME NEW p, \/ page' = Connects(p)
                    \/ page' = Disconnects(p)
      PROVE  Goal
  BY <1>t, <1>3 DEF PageRow, Connects, Disconnects
<1>4. ASSUME NEW t \in Tab, page' = Learns(t, Absent) PROVE Goal
  BY <1>t, <1>4 DEF PageRow, Learns
<1>5. ASSUME NEW c \in Command, bootstrap_workspace(c) PROVE Goal
  <2>1. CASE RegisterTabs(c) /\ page' # page
    <3>1. page' = [page EXCEPT !.at = "ready"] /\ cmd[c].generation = page.generation
      BY <2>1 DEF RegisterTabs, Reply
    <3>2. page'.generation = page.generation /\ page'.at = "ready" /\ page'.session = page.session
      BY <1>t, <3>1 DEF PageRow
    <3>3. QED
      BY <2>1, <3>1, <3>2
  <2>2. QED
    BY <1>1, <1>5, <2>1 DEF bootstrap_workspace, cleanup, cleanup_window,
       RegisterProfiles
<1>6. ASSUME NEW c \in Command, connect_profile(c) \/ disconnect_profile(c) PROVE Goal
  <2>1. UNCHANGED page \/ page' = Connects(cmd[c].profile) \/ page' = Disconnects(cmd[c].profile)
    BY <1>6 DEF connect_profile, ConnectChecks, begin_connection_attempt, ConnectOpens,
       ConnectFails, Connected, disconnect_profile, Answer, Reply
  <2>2. QED
    BY <1>1, <1>3, <2>1
<1>7. ASSUME NEW c \in Command, open_tab_session(c) PROVE Goal
  <2>1. ASSUME OpenChecks(c),
               UNCHANGED page \/ (\E s \in Session : native_sessions[s] = cmd[c].tab
                 /\ page' = Learns(cmd[c].tab, s))
        PROVE  Goal
    <3>1. ASSUME NEW s \in Session, native_sessions[s] = cmd[c].tab, page' = Learns(cmd[c].tab, s)
          PROVE  Goal
      <4>1. page'.generation = page.generation /\ page'.at = page.at
            /\ \A t \in Tab : page'.session[t] = page.session[t] \/ (t = cmd[c].tab
                 /\ page'.session[t] = s)
        BY <1>t, <3>1 DEF PageRow, Learns
      <4>2. QED
        BY <2>1, <3>1, <4>1
    <3>2. QED
      BY <1>1, <2>1, <3>1
  <2>2. OpenChecks(c) => UNCHANGED page \/ (\E s \in Session : native_sessions[s] = cmd[c].tab
          /\ page' = Learns(cmd[c].tab, s))
    BY DEF OpenChecks, Answer, Reply
  <2>3. OpenRegisters(c) => UNCHANGED page
    BY DEF OpenRegisters, Answer, Reply
  <2>4. ASSUME OpenInserts(c), page' # page PROVE Goal
    <3>1. page' = Learns(cmd[c].tab, cmd[c].session) /\ cmd[c].session \in Session
            /\ cmd[c].tab \in Tab
      BY <2>4 DEF OpenInserts, Reply, At, LifeInv, Flights, Complete
    <3>2. page'.generation = page.generation /\ page'.at = page.at
          /\ \A t \in Tab : page'.session[t] = page.session[t]
                            \/ (t = cmd[c].tab /\ page'.session[t] = cmd[c].session)
      BY <1>t, <3>1 DEF PageRow, Learns
    <3>3. QED
      BY <2>4, <3>1, <3>2
  <2>5. QED
    BY <1>1, <1>7, <2>1, <2>2, <2>3, <2>4 DEF open_tab_session
<1>8. ASSUME NEW c \in Command, close_tab_session(c) PROVE Goal
  <2>1. UNCHANGED page \/ (cmd[c].tab \in Tab /\ page' = Learns(cmd[c].tab, Absent))
    BY <1>8 DEF close_tab_session, SessionChecks, CloseUnregisters, CloseRemoves,
       Answer, Reply, At, LifeInv, Flights, Complete
  <2>2. QED
    BY <1>1, <1>4, <2>1
<1>9. ASSUME NEW c \in Command, start_execution(c) PROVE UNCHANGED page
  BY <1>9 DEF start_execution, SessionChecks, StartRegisters, StartInserts, Answer,
     Reply
<1>10. ASSUME NEW e \in Execution, bridge_execution_events(e) PROVE Goal
  <2>1. CASE EmitTerminal(e)
    <3>1. bridge[e].tab \in Tab
      BY <2>1 DEF EmitTerminal, BridgeAt, LifeInv, Typed, Bridge
    <3>2. UNCHANGED page \/ page' = Learns(bridge[e].tab, Absent)
      BY <2>1 DEF EmitTerminal
    <3>3. QED
      BY <1>1, <1>4, <3>1, <3>2
  <2>2. QED
    BY <1>1, <1>10, <2>1 DEF bridge_execution_events, RemoveExecution, MarkTerminal,
       UnregisterLost, DropLost
<1>11. \A p \in Profile : cancel_profile_connection(p) => UNCHANGED page
  BY DEF cancel_profile_connection
<1>12. QED
  BY <1>1, <1>2, <1>5, <1>6, <1>7, <1>8, <1>9, <1>10, <1>11 DEF Next, Native

(* What the runtime holds of the sessions and the executions.               *)
Held ==
  /\ native_sessions \in [Session -> Tab \cup {Absent}]
  /\ jobs \in [Execution -> Session \cup {Absent}]

LEMMA RuntimeMoves ==
  ASSUME LifeInv, Held, Next
  PROVE  /\ Held'
         /\ \A s \in Session :
              \/ native_sessions'[s] \in {native_sessions[s], Absent}
              \/ \E c \in Command : OpenInserts(c) /\ cmd[c].session = s
                   /\ cmd[c].tab = native_sessions'[s]
         /\ \A e \in Execution :
              \/ jobs'[e] \in {jobs[e], Absent}
              \/ \E c \in Command : StartInserts(c) /\ cmd[c].execution = e
                   /\ cmd[c].session = jobs'[e]
<1> DEFINE Goal ==
         /\ Held'
         /\ \A s \in Session :
              \/ native_sessions'[s] \in {native_sessions[s], Absent}
              \/ \E c \in Command : OpenInserts(c) /\ cmd[c].session = s
                   /\ cmd[c].tab = native_sessions'[s]
         /\ \A e \in Execution :
              \/ jobs'[e] \in {jobs[e], Absent}
              \/ \E c \in Command : StartInserts(c) /\ cmd[c].execution = e
                   /\ cmd[c].session = jobs'[e]
<1>1. CASE UNCHANGED <<native_sessions, jobs>>
  BY <1>1 DEF Held
<1>2. ASSUME NEW c \in Command, cleanup(c) PROVE Goal
  BY <1>2 DEF cleanup, Held
<1>3. ASSUME NEW c \in Command, OpenInserts(c) PROVE Goal
  <2>1. cmd[c].tab \in Tab /\ cmd[c].session \in Session
    BY <1>3 DEF OpenInserts, At, LifeInv, Flights, Complete
  <2>2. native_sessions' = [native_sessions EXCEPT ![cmd[c].session] = cmd[c].tab] /\ UNCHANGED jobs
    BY <1>3 DEF OpenInserts
  <2>3. Held' /\ \A s \in Session : native_sessions'[s] = native_sessions[s]
                  \/ (s = cmd[c].session /\ native_sessions'[s] = cmd[c].tab)
    BY <2>1, <2>2 DEF Held
  <2>4. QED
    BY <1>3, <2>2, <2>3
<1>4. ASSUME NEW s, native_sessions' = [native_sessions EXCEPT ![s] = Absent], UNCHANGED jobs
      PROVE  Goal
  BY <1>4 DEF Held
<1>5. ASSUME NEW c \in Command, StartInserts(c) PROVE Goal
  <2>1. cmd[c].execution \in Execution /\ cmd[c].session \in Session
    BY <1>5 DEF StartInserts, At, LifeInv, Flights, Complete
  <2>2. jobs' = [jobs EXCEPT ![cmd[c].execution] = cmd[c].session] /\ UNCHANGED native_sessions
    BY <1>5 DEF StartInserts
  <2>3. Held' /\ \A e \in Execution : jobs'[e] = jobs[e]
                  \/ (e = cmd[c].execution /\ jobs'[e] = cmd[c].session)
    BY <2>1, <2>2 DEF Held
  <2>4. QED
    BY <1>5, <2>2, <2>3
<1>6. ASSUME NEW e, jobs' = [jobs EXCEPT ![e] = Absent], UNCHANGED native_sessions PROVE Goal
  BY <1>6 DEF Held
<1>7. ASSUME NEW c \in Command, bootstrap_workspace(c) PROVE Goal
  BY <1>1, <1>2, <1>7 DEF bootstrap_workspace, cleanup_window, RegisterProfiles,
     RegisterTabs, runtime
<1>8. \A c \in Command : connect_profile(c) \/ disconnect_profile(c)
        => UNCHANGED <<native_sessions, jobs>>
  BY DEF connect_profile, ConnectChecks, begin_connection_attempt, ConnectOpens,
     ConnectFails, Connected, disconnect_profile, runtime
<1>9. ASSUME NEW c \in Command, open_tab_session(c) PROVE Goal
  BY <1>1, <1>3, <1>9 DEF open_tab_session, OpenChecks, OpenRegisters, runtime
<1>10. ASSUME NEW c \in Command, close_tab_session(c) PROVE Goal
  BY <1>1, <1>4, <1>10 DEF close_tab_session, SessionChecks, CloseUnregisters,
     CloseRemoves, runtime
<1>11. ASSUME NEW c \in Command, start_execution(c) PROVE Goal
  BY <1>1, <1>5, <1>11 DEF start_execution, SessionChecks, StartRegisters, runtime
<1>12. ASSUME NEW e \in Execution, bridge_execution_events(e) PROVE Goal
  BY <1>1, <1>4, <1>6, <1>12 DEF bridge_execution_events, EmitTerminal, RemoveExecution,
     MarkTerminal, UnregisterLost, DropLost, runtime
<1>13. \A p \in Profile : cancel_profile_connection(p) => UNCHANGED <<native_sessions, jobs>>
  BY DEF cancel_profile_connection, runtime
<1>14. Page \/ Reload => UNCHANGED <<native_sessions, jobs>>
  BY PageAsks DEF Reload, runtime
<1>15. QED
  BY <1>1, <1>7, <1>8, <1>9, <1>10, <1>11, <1>12, <1>13, <1>14 DEF Next, Native

(* Every session that the page, the runtime or a command names has been     *)
(* issued, so an identifier that is still free names nothing.               *)
Issued ==
  /\ \A s \in Session : native_sessions[s] # Absent => s \in minted
  /\ \A t \in Tab : page.session[t] # Absent => page.session[t] \in minted
  /\ \A c \in Command :
       cmd[c] # Absent /\ cmd[c].op \in {"start", "close"} => cmd[c].session \in minted
  /\ \A c \in Command : At(c, "open", "insert") => cmd[c].session \in minted

LEMMA IssuedKeeps ==
  ASSUME LifeInv, AttemptsAreLive, LifeInv', Held, Issued, Next
  PROVE  Issued'
<1>t. page' \in PageRow /\ cmd' \in [Command -> Request \cup {Absent}]
        /\ Absent \notin Session /\ Absent \notin Tab
      /\ page \in PageRow
  BY LifecycleAssumption DEF LifeInv, Typed
<1>m. minted \subseteq minted'
  BY SessionsMove
<1>i. \A c \in Command : OpenInserts(c) => cmd[c].session \in minted
  BY DEF OpenInserts, Issued
<1>1. ASSUME NEW s \in Session, native_sessions'[s] # Absent PROVE s \in minted'
  BY <1>1, <1>m, <1>i, RuntimeMoves DEF Issued
<1>2. ASSUME NEW t \in Tab, page'.session[t] # Absent PROVE page'.session[t] \in minted'
  <2>1. CASE Reload
    BY <1>2, <2>1 DEF Reload, NewPage
  <2>2. CASE page'.session[t] = page.session[t]
    BY <1>2, <2>2, <1>m DEF Issued
  <2>3. ASSUME NEW c \in Command, NEW s \in Session, page'.session[t] = s,
               \/ OpenChecks(c) /\ native_sessions[s] = t
               \/ OpenInserts(c) /\ cmd[c].session = s /\ cmd[c].tab = t
        PROVE  s \in minted'
    BY <1>t, <1>m, <1>i, <2>3 DEF Issued
  <2>4. QED
    BY <1>2, <2>1, <2>2, <2>3, PageMoves
<1>3. ASSUME NEW c \in Command, cmd[c] # Absent, cmd'[c] # Absent, cmd[c].op \in {"start", "close"}
      PROVE  cmd'[c].session = cmd[c].session
  BY <1>3, CommandsMove DEF Kept, OpenRegisters, At
<1>4. ASSUME NEW c \in Command, cmd[c] = Absent, cmd'[c] # Absent
      PROVE  /\ cmd'[c].at = "check"
             /\ cmd'[c].op \in {"start", "close"} => cmd'[c].session \in minted
  <2>1. Asked(c)
    BY <1>4, RequestsAreAsked
  <2>2. cmd'[c].op \in {"start", "close"} => cmd'[c].tab \in Tab
    BY <1>4 DEF LifeInv, Flights, Complete
  <2>3. QED
    BY <1>4, <2>1, <2>2 DEF Asked, Issued
<1>5. ASSUME NEW c \in Command, cmd[c] # Absent, cmd'[c] # Absent, cmd'[c].op = "open",
             cmd'[c].at = "insert"
      PROVE  cmd'[c].session \in minted'
  <2>1. cmd[c].op = "open" /\ Kept(c) /\ cmd[c] \in Request
    BY <1>5, CommandsMove DEF Kept, SameRequest, LifeInv, Typed
  <2>2. CASE OpenRegisters(c)
    <3>1. cmd \in [Command -> Request \cup {Absent}] /\ cmd'[c] # Absent
      BY <1>5 DEF LifeInv, Typed
    <3>2. PICK s \in Session \ minted : minted' = minted \cup {s}
                 /\ cmd' = [cmd EXCEPT ![c].at = "insert", ![c].session = s]
      BY <2>2, <3>1 DEF OpenRegisters, Answer, Reply
    <3>3. cmd'[c].session = s
      BY <2>1, <3>1, <3>2 DEF Request
    <3>4. QED
      BY <3>2, <3>3
  <2>3. CASE ~OpenRegisters(c)
    <3>1. cmd'[c].session = cmd[c].session /\ (cmd[c].at = "insert" \/ Moves(c))
      BY <1>5, <2>1, <2>3 DEF Kept
    <3>2. CASE Moves(c)
      <4>1. OpenChecks(c)
        BY <2>1, <2>3, <3>2 DEF Moves, cleanup, cleanup_window, RegisterProfiles,
           ConnectChecks, begin_connection_attempt, ConnectOpens, SessionChecks,
           CloseUnregisters, StartRegisters, At
      <4>2. cmd'[c] = Absent \/ cmd'[c].at = "opening"
        BY <2>1, <4>1 DEF OpenChecks, Answer, Reply, Advance, LifeInv, Typed, Request
      <4>3. QED
        BY <1>5, <4>2
    <3>3. QED
      BY <1>5, <1>m, <2>1, <3>1, <3>2 DEF Issued, At
  <2>4. QED
    BY <2>2, <2>3
<1>6. ASSUME NEW c \in Command, cmd'[c] # Absent, cmd'[c].op \in {"start", "close"}
      PROVE  cmd'[c].session \in minted'
  <2>1. CASE cmd[c] # Absent
    <3>1. cmd[c].op = cmd'[c].op
      BY <1>6, <2>1, CommandsMove DEF Kept, SameRequest
    <3>2. QED
      BY <1>3, <1>6, <1>m, <2>1, <3>1 DEF Issued
  <2>2. QED
    BY <1>4, <1>6, <1>m, <2>1
<1>7. ASSUME NEW c \in Command, At(c, "open", "insert")' PROVE cmd'[c].session \in minted'
  <2>1. cmd'[c] # Absent /\ cmd'[c].op = "open" /\ cmd'[c].at = "insert"
    BY <1>7 DEF At
  <2>2. QED
    BY <1>4, <1>5, <2>1
<1>8. QED
  BY <1>1, <1>2, <1>6, <1>7 DEF Issued

(* The generations of the page, and the bootstrap of the last one.          *)
Generations ==
  /\ \A c \in Command : cmd[c] # Absent => cmd[c].generation <= page.generation
  /\ page.at = "loading" =>
       \A c \in Command : cmd[c] # Absent => cmd[c].generation # page.generation

Rebuilt ==
  \/ page.at = "ready"
  \/ \E b \in Command : /\ At(b, "bootstrap", "profiles") \/ At(b, "bootstrap", "tabs")
                        /\ cmd[b].generation = page.generation

LEMMA GenerationsKeep ==
  ASSUME LifeInv, AttemptsAreLive, LifeInv', Generations, Next
  PROVE  Generations'
<1>t. /\ page \in PageRow /\ page' \in PageRow
      /\ cmd \in [Command -> Request \cup {Absent}] /\ cmd' \in [Command -> Request \cup {Absent}]
  BY DEF LifeInv, Typed
<1>n. /\ page.generation \in Nat /\ page'.generation \in Nat
      /\ \A c \in Command : /\ cmd[c] # Absent => cmd[c].generation \in Nat
                            /\ cmd'[c] # Absent => cmd'[c].generation \in Nat
  BY <1>t DEF PageRow, Request
<1>p. IF Reload THEN page'.generation = page.generation + 1 /\ UNCHANGED cmd
                ELSE page'.generation = page.generation
  BY PageMoves DEF Reload, NewPage
<1>c. ASSUME NEW c \in Command, cmd'[c] # Absent
      PROVE  \/ cmd[c] # Absent /\ cmd'[c].generation = cmd[c].generation
             \/ ~Reload /\ cmd'[c].generation = page.generation /\ page'.at # "loading"
  <2>1. CASE cmd[c] # Absent
    BY <1>c, <2>1, CommandsMove DEF Kept, SameRequest
  <2>2. CASE cmd[c] = Absent
    <3>1. Asked(c) /\ ~Reload
      BY <1>c, <1>p, <2>2, RequestsAreAsked
    <3>2. page'.at # "loading"
      BY <1>t, <3>1 DEF Asked, PageRow
    <3>3. QED
      BY <1>c, <3>1, <3>2 DEF Asked
  <2>3. QED
    BY <2>1, <2>2
<1>1. ASSUME NEW c \in Command, cmd'[c] # Absent PROVE cmd'[c].generation <= page'.generation
  <2>1. page.generation <= page'.generation
    BY <1>n, <1>p
  <2>2. cmd[c] # Absent => cmd[c].generation <= page.generation
    BY DEF Generations
  <2>3. QED
    BY <1>1, <1>n, <1>c, <2>1, <2>2
<1>2. ASSUME page'.at = "loading", NEW c \in Command, cmd'[c] # Absent
      PROVE  cmd'[c].generation # page'.generation
  <2>1. cmd[c] # Absent /\ cmd'[c].generation = cmd[c].generation
          /\ cmd[c].generation <= page.generation
    BY <1>2, <1>c DEF Generations
  <2>2. CASE Reload
    BY <1>n, <1>p, <1>2, <2>1, <2>2
  <2>3. CASE ~Reload
    <3>1. page.at = "loading"
      BY <1>2, <2>3, PageMoves
    <3>2. QED
      BY <1>p, <2>1, <2>3, <3>1 DEF Generations
  <2>4. QED
    BY <2>2, <2>3
<1>3. QED
  BY <1>1, <1>2 DEF Generations

(* A command of an older page keeps the identifier of a session that the    *)
(* last bootstrap released: it names nothing that can be run on any more.   *)
Buried ==
  \A c \in Command : cmd[c] # Absent /\ cmd[c].op = "start" =>
    /\ Rebuilt /\ cmd[c].generation < page.generation => sessions[cmd[c].session] = Absent
    /\ \A d \in Command : cmd[d] # Absent /\ cmd[d].op = "start"
         /\ cmd[c].generation < cmd[d].generation
         => sessions[cmd[c].session] = Absent

LEMMA BuriedKeeps ==
  ASSUME LifeInv, AttemptsAreLive, LifeInv', Issued, Generations, Generations', Buried, Next
  PROVE  Buried'
<1>t. /\ page \in PageRow /\ page' \in PageRow
      /\ cmd \in [Command -> Request \cup {Absent}] /\ cmd' \in [Command -> Request \cup {Absent}]
      /\ sessions \in [Session -> O!SessionOwner \cup {Absent}]
  BY DEF LifeInv, Typed
<1>n. /\ page.generation \in Nat /\ page'.generation \in Nat
      /\ \A c \in Command : /\ cmd[c] # Absent => cmd[c].generation \in Nat
                            /\ cmd'[c] # Absent => cmd'[c].generation \in Nat
  BY <1>t DEF PageRow, Request
<1>d. ASSUME NEW c \in Command, cmd[c] # Absent, cmd[c].op = "start",
             sessions[cmd[c].session] = Absent
      PROVE  sessions'[cmd[c].session] = Absent
  BY <1>d, SessionsMove DEF Issued, LifeInv, Flights, Complete
<1>o. ASSUME NEW c \in Command, cmd'[c] # Absent, cmd'[c].op = "start"
      PROVE  \/ /\ cmd[c] # Absent /\ cmd[c].op = "start"
                /\ cmd'[c].generation = cmd[c].generation /\ cmd'[c].session = cmd[c].session
             \/ cmd[c] = Absent /\ cmd'[c].generation = page.generation /\ page.at = "ready"
                  /\ UNCHANGED page
                /\ \A d \in Command \ {c} : cmd'[d] = cmd[d]
  <2>1. CASE cmd[c] # Absent
    BY <1>o, <2>1, CommandsMove DEF Kept, SameRequest, OpenRegisters, At
  <2>2. CASE cmd[c] = Absent
    BY <1>o, <2>2, RequestsAreAsked DEF Asked
  <2>3. QED
    BY <2>1, <2>2
<1>1. ASSUME NEW c \in Command, cmd'[c] # Absent, cmd'[c].op = "start", Rebuilt',
             cmd'[c].generation < page'.generation
      PROVE  sessions'[cmd'[c].session] = Absent
  <2>1. ~Reload
    BY <1>1 DEF Reload, NewPage, Rebuilt, Generations, At
  <2>2. page'.generation = page.generation
    BY <2>1, PageMoves
  <2>3. /\ cmd[c] # Absent /\ cmd[c].op = "start"
        /\ cmd'[c].generation = cmd[c].generation /\ cmd'[c].session = cmd[c].session
    BY <1>1, <1>n, <1>o, <2>2
  <2>4. CASE Rebuilt
    BY <1>d, <1>1, <2>2, <2>3, <2>4 DEF Buried
  <2>5. CASE \E b \in Command : cleanup_window(b)
    <3>1. cmd[c].session \in Session
      BY <2>3 DEF LifeInv, Flights, Complete
    <3>2. sessions'[cmd[c].session] = Absent
      BY <1>t, <2>5, <3>1 DEF cleanup_window, O!cleanup_window, O!Owned, O!SessionOwner
    <3>3. QED
      BY <2>3, <3>2
  <2>6. CASE ~Rebuilt /\ ~\E b \in Command : cleanup_window(b)
    <3>1. page'.at # "ready"
      <4>1. ASSUME NEW b \in Command, RegisterTabs(b), cmd[b].generation = page.generation
            PROVE  FALSE
        BY <2>6, <4>1 DEF RegisterTabs, Rebuilt
      <4>2. QED
        BY <2>1, <2>6, <4>1, PageMoves DEF Rebuilt
    <3>2. PICK b \in Command : /\ cmd'[b] # Absent /\ cmd'[b].op = "bootstrap"
                               /\ cmd'[b].at \in {"profiles", "tabs"}
                               /\ cmd'[b].generation = page.generation
      BY <1>1, <2>2, <3>1 DEF Rebuilt, At
    <3>3. cmd[b] # Absent
      BY <3>2, RequestsAreAsked DEF Asked
    <3>4. Kept(b) /\ cmd[b].op = "bootstrap" /\ cmd[b].generation = page.generation
            /\ cmd[b] \in Request
      BY <1>t, <3>2, <3>3, CommandsMove DEF Kept, SameRequest
    <3>5. cmd[b].at \notin {"profiles", "tabs"}
      BY <2>6, <3>3, <3>4 DEF Rebuilt, At
    <3>6. Moves(b)
      BY <3>2, <3>4, <3>5 DEF Kept
    <3>7. cleanup(b)
      BY <2>6, <3>4, <3>5, <3>6 DEF Moves, RegisterProfiles, ConnectChecks,
         begin_connection_attempt, ConnectOpens, OpenChecks, OpenRegisters,
         SessionChecks, CloseUnregisters, StartRegisters, At
    <3>8. cmd'[b].at = "reading"
      BY <1>t, <3>4, <3>7 DEF cleanup, Request
    <3>9. QED
      BY <3>2, <3>8
  <2>7. QED
    BY <2>4, <2>5, <2>6
<1>2. ASSUME NEW c \in Command, NEW d \in Command, cmd'[c] # Absent, cmd'[c].op = "start",
             cmd'[d] # Absent, cmd'[d].op = "start", cmd'[c].generation < cmd'[d].generation
      PROVE  sessions'[cmd'[c].session] = Absent
  <2>1. c # d
    BY <1>2, <1>n
  <2>2. CASE cmd[c] = Absent
    <3>1. cmd'[c].generation = page.generation /\ cmd'[d] = cmd[d]
            /\ cmd[d].generation <= page.generation
      BY <1>2, <1>o, <2>1, <2>2 DEF Generations
    <3>2. QED
      BY <1>2, <1>n, <3>1
  <2>3. CASE cmd[c] # Absent
    <3>1. cmd[c].op = "start" /\ cmd'[c].generation = cmd[c].generation
            /\ cmd'[c].session = cmd[c].session
      BY <1>2, <1>o, <2>3
    <3>2. CASE cmd[d] = Absent
      <4>1. page.at = "ready" /\ cmd'[d].generation = page.generation
        BY <1>2, <1>o, <3>2
      <4>2. QED
        BY <1>2, <1>d, <2>3, <3>1, <4>1 DEF Buried, Rebuilt
    <3>3. CASE cmd[d] # Absent
      <4>1. cmd[d].op = "start" /\ cmd'[d].generation = cmd[d].generation
        BY <1>2, <1>o, <3>3
      <4>2. QED
        BY <1>2, <1>d, <2>3, <3>1, <3>3, <4>1 DEF Buried
    <3>4. QED
      BY <3>2, <3>3
  <2>4. QED
    BY <2>2, <2>3
<1>3. QED
  BY <1>1, <1>2 DEF Buried

(* With the busy flag of the page, the requests of one page that it         *)
(* serialises never overlap.                                                *)
Serialised == {"bootstrap", "connect", "disconnect", "start", "close"}

Serial ==
  setting.serialises =>
    \A c, d \in Command :
      /\ cmd[c] # Absent /\ cmd[c].op \in Serialised
      /\ cmd[d] # Absent /\ cmd[d].op \in Serialised
      /\ cmd[c].generation = cmd[d].generation
      => c = d

LEMMA SerialKeeps ==
  ASSUME LifeInv, AttemptsAreLive, Generations, Serial, Next
  PROVE  Serial'
<1>s. UNCHANGED setting
  BY DEF Next
<1> SUFFICES ASSUME setting.serialises, NEW c \in Command, NEW d \in Command, c # d,
                    cmd'[c] # Absent, cmd'[c].op \in Serialised,
                    cmd'[d] # Absent, cmd'[d].op \in Serialised,
                    cmd'[c].generation = cmd'[d].generation
             PROVE  FALSE
  BY <1>s DEF Serial
<1>1. ASSUME NEW x \in Command, NEW y \in Command, x # y,
             cmd'[x] # Absent, cmd'[x].op \in Serialised,
             cmd'[y] # Absent, cmd'[y].op \in Serialised,
             cmd'[x].generation = cmd'[y].generation, cmd[x] = Absent
      PROVE  FALSE
  <2>1. Asked(x)
    BY <1>1, RequestsAreAsked
  <2>2. cmd[y] = cmd'[y] /\ cmd[y].generation = page.generation
    BY <1>1, <2>1 DEF Asked
  <2>3. page.at # "loading"
    BY <1>1, <2>2 DEF Generations
  <2>4. ~busy
    BY <1>1, <2>1, <2>3 DEF Asked, Serialised
  <2>5. QED
    BY <1>1, <2>2, <2>4 DEF busy, Mine, Serialised
<1>2. cmd[c] # Absent /\ cmd[d] # Absent
  BY <1>1
<1>3. /\ cmd[c].op = cmd'[c].op /\ cmd[c].generation = cmd'[c].generation
      /\ cmd[d].op = cmd'[d].op /\ cmd[d].generation = cmd'[d].generation
  BY <1>2, CommandsMove DEF Kept, SameRequest
<1>4. QED
  BY <1>2, <1>3 DEF Serial

(* A start that has passed its checks owns its session until its execution  *)
(* is inserted: neither a job nor another such start uses it.               *)
Starting(c) == At(c, "start", "checked") \/ At(c, "start", "insert")

Exclusive ==
  setting.serialises =>
    /\ OneJob
    /\ \A c \in Command, e \in Execution : Starting(c) => jobs[e] # cmd[c].session
    /\ \A c, d \in Command : Starting(c) /\ Starting(d) /\ c # d => cmd[c].session # cmd[d].session

LEMMA ExclusiveKeeps ==
  ASSUME LifeInv, AttemptsAreLive, LifeInv', Held, Generations, Buried, Serial, Exclusive, Next
  PROVE  Exclusive'
<1>s. UNCHANGED setting
  BY DEF Next
<1>t. /\ cmd \in [Command -> Request \cup {Absent}] /\ cmd' \in [Command -> Request \cup {Absent}]
      /\ Absent \notin Request /\ Absent \notin Session /\ Absent \notin Owner
  BY LifecycleAssumption DEF LifeInv, Typed
<1>o. ASSUME NEW c \in Command, Starting(c)'
      PROVE  /\ cmd[c] # Absent /\ cmd[c].op = "start" /\ cmd'[c].session = cmd[c].session
             /\ cmd[c].session \in Session
             /\ Starting(c) \/ (SessionChecks(c, "start") /\ SessionReady(c))
  <2>1. cmd'[c] # Absent /\ cmd'[c].op = "start" /\ cmd'[c].at # "check"
    BY <1>o DEF Starting, At
  <2>2. cmd[c] # Absent
    BY <2>1, RequestsAreAsked DEF Asked
  <2>3. Kept(c) /\ cmd[c].op = "start"
    BY <2>1, <2>2, CommandsMove DEF Kept, SameRequest
  <2>4. cmd'[c].session = cmd[c].session /\ cmd[c].session \in Session
    BY <2>2, <2>3 DEF Kept, OpenRegisters, At, LifeInv, Flights, Complete
  <2>5. CASE cmd'[c].at = cmd[c].at
    BY <1>o, <2>2, <2>3, <2>4, <2>5 DEF Starting, At
  <2>6. CASE Moves(c)
    <3>1. SessionChecks(c, "start") \/ StartRegisters(c)
      BY <2>3, <2>6 DEF Moves, cleanup, cleanup_window, RegisterProfiles, ConnectChecks,
         begin_connection_attempt, ConnectOpens, OpenChecks, OpenRegisters,
         SessionChecks, CloseUnregisters, At
    <3>2. StartRegisters(c) => Starting(c)
      BY DEF StartRegisters, Starting
    <3>3. SessionChecks(c, "start") => SessionReady(c)
      BY <1>t, <2>1 DEF SessionChecks, Answer, Reply
    <3>4. QED
      BY <2>2, <2>3, <2>4, <3>1, <3>2, <3>3
  <2>7. QED
    BY <2>3, <2>5, <2>6 DEF Kept
<1>j. ASSUME NEW e \in Execution, jobs'[e] # Absent
      PROVE  \/ jobs'[e] = jobs[e]
             \/ \E c \in Command : /\ StartInserts(c) /\ cmd[c].execution = e
                                   /\ cmd[c].session = jobs'[e]
  BY <1>j, RuntimeMoves
<1>i. ASSUME NEW c \in Command, StartInserts(c) PROVE Starting(c) /\ cmd'[c] = Absent
  BY <1>t, <1>i DEF StartInserts, Starting, Answer, Reply, At
<1>u. ASSUME NEW c \in Command, NEW d \in Command, StartInserts(c), StartInserts(d)
      PROVE  c = d
  BY <1>t, <1>u DEF StartInserts, Answer, Reply, At
<1> SUFFICES ASSUME setting.serialises
             PROVE  /\ OneJob'
                    /\ \A c \in Command, e \in Execution : Starting(c)'
                         => jobs'[e] # cmd'[c].session
                    /\ \A c, d \in Command : Starting(c)' /\ Starting(d)' /\ c # d
                         => cmd'[c].session # cmd'[d].session
  BY <1>s DEF Exclusive
<1>x. /\ OneJob
      /\ \A c \in Command, e \in Execution : Starting(c) => jobs[e] # cmd[c].session
      /\ \A c, d \in Command : Starting(c) /\ Starting(d) /\ c # d
           => cmd[c].session # cmd[d].session
  BY DEF Exclusive
<1>1. ASSUME NEW d \in Execution, NEW e \in Execution, d # e, jobs'[d] # Absent
      PROVE  jobs'[d] # jobs'[e]
  BY <1>1, <1>j, <1>i, <1>u, <1>x DEF OneJob
<1>2. ASSUME NEW c \in Command, NEW d \in Command, Starting(c)', Starting(d)', c # d
      PROVE  cmd'[c].session # cmd'[d].session
  <2>1. ASSUME NEW x \in Command, NEW y \in Command, x # y, SessionReady(x),
               Starting(y) \/ SessionReady(y),
               cmd[x] # Absent, cmd[x].op = "start", cmd[y] # Absent, cmd[y].op = "start",
               cmd[x].session = cmd[y].session
        PROVE  FALSE
    <3>1. sessions[cmd[x].session] # Absent
      <4>1. cmd[x].profile \in Profile /\ cmd[x].tab \in Tab
        BY <2>1 DEF LifeInv, Flights, Complete
      <4>2. QED
        BY <1>t, <2>1, <4>1 DEF SessionReady, O!authorize_session, Owner
    <3>2. ~(cmd[x].generation < cmd[y].generation) /\ ~(cmd[y].generation < cmd[x].generation)
      BY <2>1, <3>1 DEF Buried
    <3>3. cmd[x].generation \in Nat /\ cmd[y].generation \in Nat
      BY <1>t, <2>1 DEF Request
    <3>4. cmd[x].generation = cmd[y].generation
      BY <3>2, <3>3
    <3>5. QED
      BY <2>1, <3>4 DEF Serial, Serialised
  <2>2. QED
    BY <1>2, <1>o, <1>x, <2>1
<1>3. ASSUME NEW c \in Command, NEW e \in Execution, Starting(c)'
      PROVE  jobs'[e] # cmd'[c].session
  <2>1. CASE jobs'[e] = Absent
    BY <1>3, <1>o, <1>t, <2>1
  <2>2. CASE jobs'[e] = jobs[e]
    BY <1>3, <1>o, <1>x, <2>2 DEF SessionReady
  <2>3. ASSUME NEW d \in Command, StartInserts(d), cmd[d].session = jobs'[e]
        PROVE  jobs'[e] # cmd'[c].session
    <3>1. c # d
      BY <1>3, <1>i, <2>3 DEF Starting, At
    <3>2. cmd'[c] = cmd[c]
      BY <1>t, <2>3, <3>1 DEF StartInserts, Answer, Reply
    <3>3. Starting(c)
      BY <1>3, <3>2 DEF Starting, At
    <3>4. QED
      BY <1>i, <1>x, <2>3, <3>1, <3>2, <3>3
  <2>4. QED
    BY <1>j, <2>1, <2>2, <2>3
<1>4. QED
  BY <1>1, <1>2, <1>3 DEF OneJob

(* The inductive invariant of the first two theorems below.                 *)
ExecutionInv ==
  Held /\ Issued /\ Generations /\ Buried /\ Serial /\ Exclusive

LEMMA ExecutionInvHolds == Spec => [](LifeInv /\ AttemptsAreLive /\ ExecutionInv)
<1>1. Init => ExecutionInv
  <2> SUFFICES ASSUME Init PROVE ExecutionInv
    OBVIOUS
  <2>1. \A c \in Command : cmd[c] = Absent
    BY DEF Init
  <2>2. Held /\ Issued
    BY <2>1 DEF Init, Held, Issued, NewPage, At
  <2>3. Generations /\ Buried /\ Serial
    BY <2>1 DEF Generations, Buried, Serial
  <2>4. Exclusive
    BY <2>1 DEF Init, Exclusive, OneJob, Starting, At
  <2>5. QED
    BY <2>2, <2>3, <2>4 DEF ExecutionInv
<1>2. LifeInv /\ AttemptsAreLive /\ ExecutionInv /\ LifeInv' /\ [Next]_vars => ExecutionInv'
  <2> SUFFICES ASSUME LifeInv, AttemptsAreLive, ExecutionInv, LifeInv', [Next]_vars
               PROVE  ExecutionInv'
    OBVIOUS
  <2>1. CASE UNCHANGED vars
    BY <2>1 DEF vars, registry, runtime, ExecutionInv, Held, Issued, Generations,
       Buried, Rebuilt, Serial, Exclusive, OneJob, Starting, At
  <2>2. CASE Next
    <3>1. Held' /\ Issued' /\ Generations'
      BY <2>2, RuntimeMoves, IssuedKeeps, GenerationsKeep DEF ExecutionInv
    <3>2. Buried' /\ Serial' /\ Exclusive'
      BY <2>2, <3>1, BuriedKeeps, SerialKeeps, ExclusiveKeeps DEF ExecutionInv
    <3>3. QED
      BY <3>1, <3>2 DEF ExecutionInv
  <2>3. QED
    BY <2>1, <2>2
<1>3. QED
  BY <1>1, <1>2, LifeInvHolds, PTL DEF Spec

(* "A tab accepts at most one active execution": as long as the page keeps  *)
(* its busy flag, no order of the native commands, of the reloads of the    *)
(* page and of the clean-ups runs two executions on one native session.     *)
THEOREM OneExecutionPerSession == Spec => []OneJobPerSession
<1>1. ExecutionInv => OneJobPerSession
  BY DEF ExecutionInv, Exclusive, OneJobPerSession
<1>2. QED
  BY <1>1, ExecutionInvHolds, PTL

(* What a command of an older page checked is checked again when its        *)
(* execution is registered, and the bootstrap has released its session.     *)
THEOREM OldPagesStartNothing == Spec => OldStartsRefused
<1>1. LifeInv /\ AttemptsAreLive /\ ExecutionInv /\ [Next]_vars
      => [\A c \in Command :
            /\ cmd[c] # Absent /\ cmd'[c] # Absent
            /\ cmd[c].execution = Absent /\ cmd'[c].execution # Absent
            => cmd[c].generation = page.generation \/ page.at # "ready"]_vars
  <2> SUFFICES ASSUME LifeInv, AttemptsAreLive, ExecutionInv, Next, NEW c \in Command,
                      cmd[c] # Absent, cmd'[c] # Absent,
                      cmd[c].execution = Absent, cmd'[c].execution # Absent,
                      cmd[c].generation # page.generation, page.at = "ready"
               PROVE  FALSE
    OBVIOUS
  <2>t. cmd \in [Command -> Request \cup {Absent}] /\ page.generation \in Nat
    BY DEF LifeInv, Typed, PageRow
  <2>1. StartRegisters(c)
    BY CommandsMove DEF Kept
  <2>2. cmd[c].op = "start" /\ cmd[c].profile \in Profile /\ cmd[c].tab \in Tab
    BY <2>1 DEF StartRegisters, At, LifeInv, Flights, Complete
  <2>3. O!authorize_session(Main, cmd[c].profile, cmd[c].tab, cmd[c].session)
    BY <2>1, <2>t DEF StartRegisters, Answer, Reply, O!register_execution
  <2>4. sessions[cmd[c].session] # Absent
    BY <2>2, <2>3, LifecycleAssumption DEF O!authorize_session, Owner
  <2>5. cmd[c].generation < page.generation
    <3>1. cmd[c].generation <= page.generation /\ cmd[c].generation \in Nat
      BY <2>t DEF ExecutionInv, Generations, Request
    <3>2. QED
      BY <2>t, <3>1
  <2>6. QED
    BY <2>2, <2>4, <2>5 DEF ExecutionInv, Buried, Rebuilt
<1>2. QED
  BY <1>1, ExecutionInvHolds, PTL DEF Spec, OldStartsRefused

-----------------------------------------------------------------------------
(* With no reload and no lost connection, the two registries come to agree. *)
(* Sessions: Named and Registered say which command stands between an owner *)
(* and its session.  Executions: Running says which start or which bridge   *)
(* stands between an owner and its job.  Booted, Kindly and Linked say that *)
(* nothing else interferes.                                                 *)
(* A command that waits is moved by its own steps only.                     *)
LEMMA WaitersStay ==
  ASSUME LifeInv, AttemptsAreLive, Next, NEW d \in Command, cmd[d] # Absent,
         cmd[d].op \in {"open", "start", "close"}
  PROVE  \/ cmd'[d] = cmd[d]
         \/ \E c \in Command : cleanup(c)
         \/ open_tab_session(d) \/ close_tab_session(d) \/ start_execution(d)
<1>t. cmd \in [Command -> Request \cup {Absent}]
  BY DEF LifeInv, Typed
<1>1. CASE Page
  BY <1>1, PageAsks DEF Asked
<1>2. ASSUME NEW c \in Command, c # d, \A x \in Command \ {c} : cmd'[x] = cmd[x]
      PROVE  cmd'[d] = cmd[d]
  BY <1>2
<1>3. ASSUME NEW c \in Command, bootstrap_workspace(c), ~cleanup(c) PROVE cmd'[d] = cmd[d]
  BY <1>t, <1>2, <1>3 DEF bootstrap_workspace, cleanup_window, RegisterProfiles,
     RegisterTabs, Advance, Reply, At
<1>4. ASSUME NEW c \in Command, connect_profile(c) \/ disconnect_profile(c) PROVE cmd'[d] = cmd[d]
  BY <1>t, <1>2, <1>4 DEF connect_profile, ConnectChecks, begin_connection_attempt,
     ConnectOpens, ConnectFails, Connected, disconnect_profile, Advance, Answer, Reply,
     At
<1>5. ASSUME NEW c \in Command, c # d,
             open_tab_session(c) \/ close_tab_session(c) \/ start_execution(c)
      PROVE  cmd'[d] = cmd[d]
  BY <1>t, <1>2, <1>5 DEF open_tab_session, OpenChecks, OpenRegisters, OpenInserts,
     close_tab_session, SessionChecks, CloseUnregisters, CloseRemoves, start_execution,
     StartRegisters, StartInserts, Advance, Answer, Reply, At
<1>6. ASSUME NEW p \in Profile, cancel_profile_connection(p) PROVE cmd'[d] = cmd[d]
  <2>1. attempts[p] \in Command /\ attempts[p] # d
    BY <1>6 DEF cancel_profile_connection, LifeInv, Typed, AttemptsAreLive, At
  <2>2. QED
    BY <1>t, <1>6, <2>1 DEF cancel_profile_connection
<1>7. ASSUME NEW e \in Execution, bridge_execution_events(e) PROVE UNCHANGED cmd
  BY <1>7 DEF bridge_execution_events, EmitTerminal, RemoveExecution, MarkTerminal,
     UnregisterLost, DropLost
<1>8. Reload => UNCHANGED cmd
  BY DEF Reload
<1>9. QED
  BY <1>1, <1>3, <1>4, <1>5, <1>6, <1>7, <1>8 DEF Next, Native

Inserting(c) == At(c, "open", "insert")
Removing(c) == At(c, "close", "remove")
Uses(c) == cmd[c] # Absent /\ cmd[c].op \in {"start", "close"}

(* Who is about to insert a session, who is about to remove one, and who    *)
(* names one.                                                               *)
LEMMA InsertersMove ==
  ASSUME LifeInv, AttemptsAreLive, Next, NEW c \in Command, Inserting(c)'
  PROVE  /\ cmd'[c].tab = cmd[c].tab
         /\ \/ Inserting(c) /\ cmd'[c].session = cmd[c].session
            \/ /\ OpenRegisters(c) /\ cmd[c].tab \in Tab /\ cmd[c].profile \in Profile
               /\ cmd'[c].session \in Session \ minted
               /\ O!register_session(Main, cmd[c].profile, cmd[c].tab, cmd'[c].session)
               /\ \A d \in Command \ {c} : cmd'[d] = cmd[d]
<1>t. cmd \in [Command -> Request \cup {Absent}]
  BY DEF LifeInv, Typed
<1>1. cmd'[c] # Absent /\ cmd'[c].op = "open" /\ cmd'[c].at = "insert"
  BY DEF At, Inserting
<1>2. cmd[c] # Absent
  BY <1>1, RequestsAreAsked DEF Asked
<1>3. Kept(c) /\ cmd[c].op = "open" /\ cmd[c] \in Request /\ cmd'[c].tab = cmd[c].tab
  BY <1>t, <1>1, <1>2, CommandsMove DEF Kept, SameRequest
<1>4. CASE OpenRegisters(c)
  <2>1. PICK s \in Session \ minted :
          /\ O!register_session(Main, cmd[c].profile, cmd[c].tab, s)
          /\ cmd' = [cmd EXCEPT ![c].at = "insert", ![c].session = s]
    BY <1>1, <1>4, <1>t DEF OpenRegisters, Answer, Reply
  <2>2. cmd'[c].session = s /\ \A d \in Command \ {c} : cmd'[d] = cmd[d]
    BY <1>t, <1>3, <2>1 DEF Request
  <2>3. cmd[c].tab \in Tab /\ cmd[c].profile \in Profile
    BY <1>2, <1>3 DEF LifeInv, Flights, Complete
  <2>4. QED
    BY <1>3, <1>4, <2>1, <2>2, <2>3
<1>5. CASE ~OpenRegisters(c)
  <2>1. cmd'[c].session = cmd[c].session /\ (cmd[c].at = "insert" \/ Moves(c))
    BY <1>1, <1>3, <1>5 DEF Kept
  <2>2. Moves(c) => OpenChecks(c)
    BY <1>3, <1>5 DEF Moves, cleanup, cleanup_window, RegisterProfiles, ConnectChecks,
       begin_connection_attempt, ConnectOpens, SessionChecks, CloseUnregisters,
       StartRegisters, At
  <2>3. OpenChecks(c) => cmd'[c] = Absent \/ cmd'[c].at = "opening"
    BY <1>t, <1>3 DEF OpenChecks, Answer, Reply, Advance, Request
  <2>4. QED
    BY <1>1, <1>2, <1>3, <2>1, <2>2, <2>3 DEF Inserting, At
<1>6. QED
  BY <1>4, <1>5

LEMMA RemoversMove ==
  ASSUME LifeInv, AttemptsAreLive, Next, NEW c \in Command, Removing(c)'
  PROVE  /\ cmd'[c].tab = cmd[c].tab /\ cmd'[c].session = cmd[c].session
         /\ \/ Removing(c)
            \/ /\ CloseUnregisters(c)
               /\ O!unregister_session(Main, cmd[c].profile, cmd[c].tab, cmd[c].session)
<1>t. cmd \in [Command -> Request \cup {Absent}]
  BY DEF LifeInv, Typed
<1>1. cmd'[c] # Absent /\ cmd'[c].op = "close" /\ cmd'[c].at = "remove"
  BY DEF At, Removing
<1>2. cmd[c] # Absent
  BY <1>1, RequestsAreAsked DEF Asked
<1>3. Kept(c) /\ cmd[c].op = "close" /\ cmd[c] \in Request /\ cmd'[c].tab = cmd[c].tab
  BY <1>t, <1>1, <1>2, CommandsMove DEF Kept, SameRequest
<1>4. cmd'[c].session = cmd[c].session /\ (cmd[c].at = "remove" \/ Moves(c))
  BY <1>1, <1>3 DEF Kept, OpenRegisters, At
<1>5. Moves(c) => CloseUnregisters(c) \/ SessionChecks(c, "close")
  BY <1>3 DEF Moves, cleanup, cleanup_window, RegisterProfiles, ConnectChecks,
     begin_connection_attempt, ConnectOpens, OpenChecks, OpenRegisters, SessionChecks,
     StartRegisters, At
<1>6. SessionChecks(c, "close") => cmd'[c] = Absent \/ cmd'[c].at = "checked"
  BY <1>t, <1>3 DEF SessionChecks, Answer, Reply, Advance, Request
<1>7. CloseUnregisters(c) => O!unregister_session(Main, cmd[c].profile, cmd[c].tab, cmd[c].session)
  BY <1>1, <1>t DEF CloseUnregisters, Answer, Reply
<1>8. QED
  BY <1>1, <1>2, <1>3, <1>4, <1>5, <1>6, <1>7 DEF Removing, At

LEMMA UsersMove ==
  ASSUME LifeInv, AttemptsAreLive, LifeInv', Next, NEW c \in Command, Uses(c)'
  PROVE  \/ Uses(c) /\ cmd'[c].tab = cmd[c].tab /\ cmd'[c].session = cmd[c].session
         \/ /\ cmd[c] = Absent /\ Page /\ UNCHANGED <<page, registry, runtime>>
            /\ \A d \in Command \ {c} : cmd'[d] = cmd[d]
            /\ cmd'[c].tab \in Tab /\ page.session[cmd'[c].tab] # Absent
            /\ cmd'[c].session = page.session[cmd'[c].tab]
<1>1. CASE cmd[c] = Absent
  <2>1. Page /\ Asked(c)
    BY <1>1, RequestsAreAsked DEF Uses
  <2>2. cmd'[c].tab \in Tab
    BY DEF Uses, LifeInv, Flights, Complete
  <2>3. QED
    BY <1>1, <2>1, <2>2, PageAsks DEF Asked, Uses
<1>2. CASE cmd[c] # Absent
  BY <1>2, CommandsMove DEF Uses, Kept, SameRequest, OpenRegisters, At
<1>3. QED
  BY <1>1, <1>2

(* The graph keeps whole owners of executions.                              *)
Owns == executions \in [Execution -> JobOwner \cup {Absent}]

LEMMA ExecutionsMove ==
  ASSUME LifeInv, Owns, Next
  PROVE  /\ Owns'
         /\ \/ UNCHANGED <<executions, terminal_executions>>
            \/ \E c \in Command : cleanup_window(c)
            \/ \E c \in Command, e \in Execution :
                 /\ StartRegisters(c) /\ executions[e] = Absent /\ e \notin terminal_executions
                 /\ O!register_execution(Main, cmd[c].profile, cmd[c].tab, cmd[c].session, e)
                 /\ cmd' = [cmd EXCEPT ![c].at = "insert", ![c].execution = e]
            \/ \E e \in Execution :
                 /\ MarkTerminal(e)
                 /\ executions' = [executions EXCEPT ![e] = Absent]
                 /\ terminal_executions' = terminal_executions \cup {e}
<1> DEFINE Goal ==
         /\ Owns'
         /\ \/ UNCHANGED <<executions, terminal_executions>>
            \/ \E c \in Command : cleanup_window(c)
            \/ \E c \in Command, e \in Execution :
                 /\ StartRegisters(c) /\ executions[e] = Absent /\ e \notin terminal_executions
                 /\ O!register_execution(Main, cmd[c].profile, cmd[c].tab, cmd[c].session, e)
                 /\ cmd' = [cmd EXCEPT ![c].at = "insert", ![c].execution = e]
            \/ \E e \in Execution :
                 /\ MarkTerminal(e)
                 /\ executions' = [executions EXCEPT ![e] = Absent]
                 /\ terminal_executions' = terminal_executions \cup {e}
<1>1. CASE UNCHANGED <<executions, terminal_executions>>
  BY <1>1 DEF Owns
<1>2. ASSUME NEW c \in Command, bootstrap_workspace(c) PROVE Goal
  <2>1. CASE cleanup_window(c)
    <3>1. executions' \in [Execution -> JobOwner \cup {Absent}]
      BY <2>1 DEF cleanup_window, O!cleanup_window, Owns
    <3>2. QED
      BY <2>1, <3>1 DEF Owns
  <2>2. cleanup(c) \/ RegisterProfiles(c) \/ RegisterTabs(c)
          => UNCHANGED <<executions, terminal_executions>>
    BY DEF cleanup, RegisterProfiles, RegisterTabs, registry, O!register_profile,
       O!register_tab
  <2>3. QED
    BY <1>1, <1>2, <2>1, <2>2 DEF bootstrap_workspace
<1>3. ASSUME NEW c \in Command, StartRegisters(c) PROVE Goal
  <2>1. ASSUME NEW e \in Execution, executions[e] = Absent, e \notin terminal_executions,
               O!register_execution(Main, cmd[c].profile, cmd[c].tab, cmd[c].session, e),
               cmd' = [cmd EXCEPT ![c].at = "insert", ![c].execution = e]
        PROVE  Goal
    <3>1. cmd[c].profile \in Profile /\ cmd[c].tab \in Tab /\ cmd[c].session \in Session
      BY <1>3 DEF StartRegisters, At, LifeInv, Flights, Complete
    <3>2. [window |-> Main, profile |-> cmd[c].profile, tab |-> cmd[c].tab, session |-> cmd[c].session] \in JobOwner
      BY <3>1 DEF JobOwner
    <3>3. Owns'
      BY <2>1, <3>2 DEF O!register_execution, Owns
    <3>4. QED
      BY <1>3, <2>1, <3>3
  <2>2. QED
    BY <1>1, <1>3, <2>1 DEF StartRegisters, registry
<1>4. ASSUME NEW e \in Execution, bridge_execution_events(e) PROVE Goal
  <2>1. CASE MarkTerminal(e)
    <3>1. CASE O!mark_execution_terminal(Main, Home[bridge[e].tab], bridge[e].tab, bridge[e].session, e)
      <4>1. executions' = [executions EXCEPT ![e] = Absent]
              /\ terminal_executions' = terminal_executions \cup {e}
        BY <3>1 DEF O!mark_execution_terminal
      <4>2. Owns'
        BY <4>1 DEF Owns
      <4>3. QED
        BY <2>1, <4>1, <4>2
    <3>2. QED
      BY <1>1, <2>1, <3>1 DEF MarkTerminal, registry
  <2>2. QED
    BY <1>1, <1>4, <2>1 DEF bridge_execution_events, EmitTerminal, RemoveExecution,
       UnregisterLost, DropLost, registry, O!unregister_session
<1>5. \A c \in Command : connect_profile(c) \/ disconnect_profile(c)
        => UNCHANGED <<executions, terminal_executions>>
  BY DEF connect_profile, ConnectChecks, begin_connection_attempt, ConnectOpens,
     ConnectFails, Connected, disconnect_profile, registry
<1>6. \A c \in Command : open_tab_session(c) \/ close_tab_session(c)
        => UNCHANGED <<executions, terminal_executions>>
  BY DEF open_tab_session, OpenChecks, OpenRegisters, OpenInserts, close_tab_session,
     SessionChecks, CloseUnregisters, CloseRemoves, registry, O!register_session,
     O!unregister_session
<1>7. \A c \in Command : SessionChecks(c, "start") \/ StartInserts(c)
        => UNCHANGED <<executions, terminal_executions>>
  BY DEF SessionChecks, StartInserts, registry
<1>8. \A p \in Profile : cancel_profile_connection(p)
        => UNCHANGED <<executions, terminal_executions>>
  BY DEF cancel_profile_connection, registry
<1>9. Page \/ Reload => UNCHANGED <<executions, terminal_executions>>
  BY PageAsks DEF Reload, registry
<1>10. QED
  BY <1>1, <1>2, <1>3, <1>4, <1>5, <1>6, <1>7, <1>8, <1>9 DEF Next, Native,
     start_execution

(* Without reloads the page is bootstrapped once, before anything else.     *)
Empty ==
  /\ \A s \in Session : sessions[s] = Absent /\ native_sessions[s] = Absent
  /\ \A e \in Execution : executions[e] = Absent /\ bridge[e] = Absent /\ jobs[e] = Absent
  /\ terminal_executions = {}

Booted ==
  /\ page.generation = 0
  /\ \A c, d \in Command :
       cmd[c] # Absent /\ cmd[c].op = "bootstrap" /\ cmd[d] # Absent /\ cmd[d].op = "bootstrap"
         => c = d
  /\ page.at = "ready" => \A c \in Command : cmd[c] # Absent => cmd[c].op # "bootstrap"
  /\ page.at # "ready" => Empty /\ \A c \in Command : cmd[c] # Absent => cmd[c].op = "bootstrap"

LEMMA OnlyBootstrap ==
  ASSUME LifeInv, AttemptsAreLive, Next, Undisturbed, Booted, page.at # "ready"
  PROVE  Page \/ \E c \in Command : bootstrap_workspace(c)
<1>1. \A c \in Command : ~connect_profile(c) /\ ~disconnect_profile(c) /\ ~open_tab_session(c)
                         /\ ~close_tab_session(c) /\ ~start_execution(c)
  BY DEF Booted, connect_profile, ConnectChecks, begin_connection_attempt, ConnectOpens,
     ConnectFails, Connected, disconnect_profile, open_tab_session, OpenChecks,
     OpenRegisters, OpenInserts, close_tab_session, SessionChecks, CloseUnregisters,
     CloseRemoves, start_execution, StartRegisters, StartInserts, At
<1>2. \A e \in Execution : ~bridge_execution_events(e)
  BY DEF Booted, Empty, bridge_execution_events, EmitTerminal, RemoveExecution,
     MarkTerminal, UnregisterLost, DropLost, BridgeAt
<1>3. \A p \in Profile : ~cancel_profile_connection(p)
  BY DEF cancel_profile_connection, LifeInv, Typed, AttemptsAreLive, At, Booted
<1>4. ~Reload
  BY DEF Reload, Undisturbed, Booted
<1>5. QED
  BY <1>1, <1>2, <1>3, <1>4 DEF Next, Native

LEMMA EmptyKeeps ==
  ASSUME LifeInv, Owns, Held, Empty, Page \/ \E c \in Command : bootstrap_workspace(c)
  PROVE  Empty'
<1>t. sessions \in [Session -> O!SessionOwner \cup {Absent}]
        /\ executions \in [Execution -> JobOwner \cup {Absent}]
  BY DEF LifeInv, Typed, Owns
<1>1. CASE Page
  BY <1>1, PageAsks DEF Empty, registry, runtime
<1>2. ASSUME NEW c \in Command, cleanup_window(c) PROVE Empty'
  <2>1. \A s \in Session : sessions'[s] = Absent
    BY <1>t, <1>2 DEF cleanup_window, O!cleanup_window, Empty
  <2>2. \A e \in Execution : executions'[e] = Absent
    BY <1>t, <1>2 DEF cleanup_window, O!cleanup_window, Empty
  <2>3. terminal_executions' = {}
    BY <1>t, <1>2 DEF cleanup_window, O!cleanup_window, O!Owned, Empty
  <2>4. UNCHANGED <<native_sessions, bridge, jobs>>
    BY <1>2 DEF cleanup_window, runtime
  <2>5. QED
    BY <2>1, <2>2, <2>3, <2>4 DEF Empty
<1>3. ASSUME NEW c \in Command, cleanup(c) PROVE Empty'
  BY <1>3 DEF cleanup, Empty, registry
<1>4. ASSUME NEW c \in Command, RegisterProfiles(c) \/ RegisterTabs(c) PROVE Empty'
  BY <1>4 DEF RegisterProfiles, RegisterTabs, Empty, registry, runtime,
     O!register_profile, O!register_tab
<1>5. QED
  BY <1>1, <1>2, <1>3, <1>4 DEF bootstrap_workspace

LEMMA BootedKeeps ==
  ASSUME LifeInv, AttemptsAreLive, LifeInv', Held, Owns, Generations, Undisturbed, Booted, Next
  PROVE  Booted'
<1>t. cmd \in [Command -> Request \cup {Absent}] /\ page \in PageRow /\ page' \in PageRow
  BY DEF LifeInv, Typed
<1>r. ~Reload
  BY DEF Reload, Undisturbed, Booted
<1>g. ASSUME page.at = "loading", NEW c \in Command PROVE cmd[c] = Absent
  <2> SUFFICES ASSUME cmd[c] # Absent PROVE FALSE
    OBVIOUS
  <2>1. cmd[c].generation \in Nat /\ cmd[c].generation <= 0 /\ cmd[c].generation # 0
    BY <1>t, <1>g DEF Generations, Booted, Request
  <2>2. QED
    BY <2>1
<1>k. ASSUME NEW c \in Command, cmd[c] # Absent, cmd'[c] # Absent PROVE cmd'[c].op = cmd[c].op
  BY <1>k, CommandsMove DEF Kept, SameRequest
<1>n. ASSUME NEW c \in Command, cmd[c] = Absent, cmd'[c] # Absent PROVE Asked(c)
  BY <1>n, RequestsAreAsked
<1>1. page'.generation = 0
  BY <1>r, PageMoves DEF Booted
<1>2. ASSUME NEW c \in Command, NEW d \in Command, cmd'[c] # Absent, cmd'[c].op = "bootstrap",
             cmd'[d] # Absent, cmd'[d].op = "bootstrap"
      PROVE  c = d
  <2>1. ASSUME NEW x \in Command, NEW y \in Command, cmd'[x] # Absent, cmd'[x].op = "bootstrap",
               cmd'[y] # Absent, cmd[x] = Absent, x # y
        PROVE  FALSE
    <3>1. page.at = "loading" /\ cmd[y] = cmd'[y]
      BY <2>1, <1>n DEF Asked
    <3>2. QED
      BY <2>1, <3>1, <1>g
  <2>2. QED
    BY <1>2, <1>k, <2>1 DEF Booted
<1>3. ASSUME page'.at = "ready", NEW c \in Command, cmd'[c] # Absent PROVE cmd'[c].op # "bootstrap"
  <2>1. CASE page.at = "ready"
    <3>1. CASE cmd[c] # Absent
      BY <1>3, <1>k, <2>1, <3>1 DEF Booted
    <3>2. CASE cmd[c] = Absent
      BY <1>3, <1>n, <2>1, <3>2 DEF Asked
    <3>3. QED
      BY <3>1, <3>2
  <2>2. CASE page.at # "ready"
    <3>1. PICK b \in Command : RegisterTabs(b)
      BY <1>3, <1>r, <2>2, PageMoves
    <3>2. Reply(b, [page EXCEPT !.at = "ready"])
      BY <1>3, <2>2, <3>1 DEF RegisterTabs
    <3>3. cmd[b] # Absent /\ cmd[b].op = "bootstrap" /\ cmd'[b] = Absent /\ (c # b
            => cmd'[c] = cmd[c])
      BY <1>t, <3>1, <3>2 DEF RegisterTabs, At, Reply
    <3>4. QED
      BY <1>3, <2>2, <3>3 DEF Booted
  <2>3. QED
    BY <2>1, <2>2
<1>4. ASSUME page'.at # "ready"
      PROVE  Empty' /\ \A c \in Command : cmd'[c] # Absent => cmd'[c].op = "bootstrap"
  <2>1. page.at # "ready"
    BY <1>4, <1>r, PageMoves
  <2>2. Page \/ \E c \in Command : bootstrap_workspace(c)
    BY <2>1, OnlyBootstrap
  <2>3. Empty'
    BY <2>1, <2>2, EmptyKeeps DEF Booted
  <2>4. ASSUME NEW c \in Command, cmd'[c] # Absent PROVE cmd'[c].op = "bootstrap"
    BY <1>k, <1>n, <2>1, <2>4 DEF Asked, Booted
  <2>5. QED
    BY <2>3, <2>4
<1>5. QED
  BY <1>1, <1>2, <1>3, <1>4 DEF Booted

(* Nor does a bridge drop its session.                                      *)
Kindly == \A e \in Execution : bridge[e] # Absent => ~bridge[e].lost
  /\ bridge[e].at \notin {"unregister", "drop"}

LEMMA OnceReady ==
  ASSUME Next, Undisturbed, Booted, Kindly, page.at = "ready"
  PROVE  \/ Page
         \/ \E c \in Command : \/ connect_profile(c) \/ disconnect_profile(c) \/ open_tab_session(c)
                               \/ close_tab_session(c) \/ start_execution(c)
         \/ \E p \in Profile : cancel_profile_connection(p)
         \/ \E e \in Execution : EmitTerminal(e) \/ RemoveExecution(e) \/ MarkTerminal(e)
<1>1. \A c \in Command : ~bootstrap_workspace(c)
  BY DEF bootstrap_workspace, cleanup, cleanup_window, RegisterProfiles, RegisterTabs,
     At, Booted
<1>2. ~Reload
  BY DEF Reload, Undisturbed, Booted
<1>3. \A e \in Execution : ~UnregisterLost(e) /\ ~DropLost(e)
  BY DEF UnregisterLost, DropLost, BridgeAt, Kindly
<1>4. QED
  BY <1>1, <1>2, <1>3 DEF Next, Native, bridge_execution_events

LEMMA KindlyKeeps ==
  ASSUME LifeInv, Next, Undisturbed, Kindly
  PROVE  Kindly'
<1>t. bridge \in [Execution -> Bridge \cup {Absent}]
  BY DEF LifeInv, Typed
<1>1. CASE UNCHANGED bridge
  BY <1>1 DEF Kindly
<1>2. ASSUME NEW c \in Command, StartInserts(c) PROVE Kindly'
  <2>1. /\ bridge' = [bridge EXCEPT ![cmd[c].execution] =
                       [at |-> "running", tab |-> cmd[c].tab, session |-> cmd[c].session,
                        epoch |-> lifecycle_epoch, lost |-> FALSE]]
    BY <1>2 DEF StartInserts
  <2>2. QED
    BY <1>t, <2>1 DEF Kindly
<1>3. ASSUME NEW e \in Execution, bridge_execution_events(e) PROVE Kindly'
  <2>1. bridge[e] \in Bridge
    BY <1>t, <1>3 DEF bridge_execution_events, EmitTerminal, RemoveExecution,
       MarkTerminal, UnregisterLost, DropLost, BridgeAt
  <2>2. EmitTerminal(e) => bridge' = [bridge EXCEPT ![e].at = "remove", ![e].lost = FALSE]
    BY DEF EmitTerminal, Undisturbed
  <2>3. RemoveExecution(e) \/ MarkTerminal(e)
          => \E at \in {"mark", "done"} : bridge' = [bridge EXCEPT ![e].at = at]
    BY DEF RemoveExecution, MarkTerminal, BridgeTo, BridgeAt, Kindly
  <2>4. ~UnregisterLost(e) /\ ~DropLost(e)
    BY DEF UnregisterLost, DropLost, BridgeAt, Kindly
  <2>5. \A d \in Execution : d # e => bridge'[d] = bridge[d]
    BY <1>t, <1>3, <2>2, <2>3, <2>4 DEF bridge_execution_events
  <2>6. ~bridge'[e].lost /\ bridge'[e].at \notin {"unregister", "drop"}
    <3>1. CASE EmitTerminal(e)
      BY <1>t, <2>1, <2>2, <3>1 DEF Bridge
    <3>2. CASE RemoveExecution(e) \/ MarkTerminal(e)
      <4>1. ~bridge[e].lost
        BY <2>1, <3>2 DEF RemoveExecution, MarkTerminal, BridgeAt, Kindly
      <4>2. QED
        BY <1>t, <2>1, <2>3, <3>2, <4>1 DEF Bridge
    <3>3. QED
      BY <1>3, <2>4, <3>1, <3>2 DEF bridge_execution_events
  <2>7. QED
    BY <2>5, <2>6 DEF Kindly
<1>4. \A c \in Command : bootstrap_workspace(c) \/ connect_profile(c) \/ disconnect_profile(c)
        => UNCHANGED bridge
  BY DEF bootstrap_workspace, cleanup, cleanup_window, RegisterProfiles, RegisterTabs,
     connect_profile, ConnectChecks, begin_connection_attempt, ConnectOpens,
     ConnectFails, Connected, disconnect_profile
<1>5. \A c \in Command : open_tab_session(c) \/ close_tab_session(c)
        \/ SessionChecks(c, "start") \/ StartRegisters(c)
        => UNCHANGED bridge
  BY DEF open_tab_session, OpenChecks, OpenRegisters, OpenInserts, close_tab_session,
     SessionChecks, CloseUnregisters, CloseRemoves, StartRegisters
<1>6. \A p \in Profile : cancel_profile_connection(p) => UNCHANGED bridge
  BY DEF cancel_profile_connection
<1>7. Page \/ Reload => UNCHANGED bridge
  BY PageAsks DEF Reload
<1>8. QED
  BY <1>1, <1>2, <1>3, <1>4, <1>5, <1>6, <1>7 DEF Next, Native, start_execution

(* What the page believes of its connections.                               *)
Linked ==
  /\ page.connected = connected
  /\ page.at # "ready" => connected = {}

LEMMA LinkedKeeps ==
  ASSUME LifeInv, AttemptsAreLive, Generations, Undisturbed, Booted, Booted', Kindly, Linked, Next
  PROVE  Linked'
<1>t. cmd \in [Command -> Request \cup {Absent}] /\ page \in PageRow
  BY DEF LifeInv, Typed
<1>g. ASSUME NEW c \in Command, cmd[c] # Absent PROVE cmd[c].generation = page.generation
  <2>1. cmd[c].generation \in Nat /\ cmd[c].generation <= 0 /\ page.generation = 0
    BY <1>t, <1>g DEF Generations, Booted, Request
  <2>2. QED
    BY <2>1
<1>1. CASE UNCHANGED connected /\ page'.connected = page.connected /\ (page.at = "ready"
             => page'.at = "ready")
  BY <1>1 DEF Linked
<1>2. CASE Page
  <2>1. UNCHANGED connected /\ (UNCHANGED page \/ (page.at = "loading"
          /\ page' = [page EXCEPT !.at = "bootstrapping"]))
    BY <1>2, PageAsks DEF runtime, Asked
  <2>2. QED
    BY <1>t, <1>1, <2>1 DEF PageRow
<1>3. ASSUME NEW c \in Command, bootstrap_workspace(c) PROVE Linked'
  <2>1. page.at # "ready"
    BY <1>3 DEF bootstrap_workspace, cleanup, cleanup_window, RegisterProfiles,
       RegisterTabs, At, Booted
  <2>2. connected' = {} \/ UNCHANGED connected
    BY <1>3 DEF bootstrap_workspace, cleanup, cleanup_window, RegisterProfiles,
       RegisterTabs, runtime
  <2>3. UNCHANGED page \/ page' = [page EXCEPT !.at = "ready"]
    BY <1>3 DEF bootstrap_workspace, cleanup, cleanup_window, RegisterProfiles,
       RegisterTabs, Reply
  <2>4. page'.connected = page.connected
    BY <1>t, <2>3 DEF PageRow
  <2>5. QED
    BY <2>1, <2>2, <2>4 DEF Linked
<1>4. ASSUME page.at = "ready", NEW c \in Command, connect_profile(c) \/ disconnect_profile(c)
      PROVE  Linked'
  <2>1. \/ UNCHANGED <<page, connected>>
        \/ connected' = connected \cup {cmd[c].profile} /\ page' = Connects(cmd[c].profile)
        \/ connected' = connected \ {cmd[c].profile} /\ page' = Disconnects(cmd[c].profile)
    <3>1. CASE ConnectChecks(c)
      <4>1. cmd[c].generation = page.generation
        BY <3>1, <1>g DEF ConnectChecks, At
      <4>2. UNCHANGED page \/ (cmd[c].profile \in connected /\ page' = Connects(cmd[c].profile))
        BY <3>1, <4>1 DEF ConnectChecks, Answer, Reply
      <4>3. UNCHANGED connected
        BY <3>1 DEF ConnectChecks, runtime
      <4>4. QED
        BY <4>2, <4>3
    <3>2. CASE Connected(c)
      BY <3>2, <1>g DEF Connected, Reply, At
    <3>3. CASE disconnect_profile(c)
      BY <3>3, <1>g DEF disconnect_profile, Answer, Reply, At
    <3>4. begin_connection_attempt(c) \/ ConnectOpens(c) \/ ConnectFails(c)
            => UNCHANGED <<page, connected>>
      BY DEF begin_connection_attempt, ConnectOpens, ConnectFails, Answer, Reply,
         runtime
    <3>5. QED
      BY <1>4, <3>1, <3>2, <3>3, <3>4 DEF connect_profile
  <2>2. page'.at = page.at
    BY <1>t, <2>1 DEF Connects, Disconnects, PageRow
  <2>3. page'.connected = connected'
    BY <1>t, <2>1 DEF Connects, Disconnects, PageRow, Linked
  <2>4. QED
    BY <1>4, <2>2, <2>3 DEF Linked
<1>5. ASSUME NEW t, NEW s, UNCHANGED connected, UNCHANGED page \/ page' = Learns(t, s) PROVE Linked'
  BY <1>t, <1>1, <1>5 DEF Learns, PageRow
<1>6. ASSUME NEW c \in Command, open_tab_session(c) \/ close_tab_session(c) \/ start_execution(c)
      PROVE  Linked'
  <2>1. UNCHANGED connected
    BY <1>6 DEF open_tab_session, OpenChecks, OpenRegisters, OpenInserts,
       close_tab_session, SessionChecks, CloseUnregisters, CloseRemoves,
       start_execution, StartRegisters, StartInserts, runtime
  <2>2. UNCHANGED page \/ \E t, s : page' = Learns(t, s)
    BY <1>6 DEF open_tab_session, OpenChecks, OpenRegisters, OpenInserts,
       close_tab_session, SessionChecks, CloseUnregisters, CloseRemoves,
       start_execution, StartRegisters, StartInserts, Answer, Reply
  <2>3. QED
    BY <1>5, <2>1, <2>2
<1>7. ASSUME NEW p \in Profile, cancel_profile_connection(p) PROVE UNCHANGED <<page, connected>>
  BY <1>7 DEF cancel_profile_connection, runtime
<1>8. ASSUME NEW e \in Execution, EmitTerminal(e) \/ RemoveExecution(e) \/ MarkTerminal(e)
      PROVE  Linked'
  <2>1. UNCHANGED connected /\ (UNCHANGED page \/ page' = Learns(bridge[e].tab, Absent))
    BY <1>8 DEF EmitTerminal, RemoveExecution, MarkTerminal, runtime
  <2>2. QED
    BY <1>5, <2>1
<1>9. CASE page.at = "ready"
  BY <1>1, <1>2, <1>4, <1>6, <1>7, <1>8, <1>9, OnceReady
<1>10. CASE page.at # "ready"
  BY <1>2, <1>3, <1>10, OnlyBootstrap
<1>11. QED
  BY <1>9, <1>10

(* The five ways in which the two registries of sessions move.              *)
Registers(c) ==
  /\ OpenRegisters(c) /\ Inserting(c)' /\ UNCHANGED native_sessions
  /\ cmd'[c].session \in Session \ minted /\ cmd'[c].tab = cmd[c].tab
  /\ sessions' = [sessions EXCEPT ![cmd'[c].session] =
                    [window |-> Main, profile |-> cmd[c].profile, tab |-> cmd[c].tab]]

Unregisters(c) ==
  /\ CloseUnregisters(c) /\ Removing(c)' /\ UNCHANGED native_sessions
  /\ cmd'[c].session = cmd[c].session
  /\ sessions[cmd[c].session] # Absent
  /\ sessions' = [sessions EXCEPT ![cmd[c].session] = Absent]

LEMMA SessionsTurn ==
  ASSUME LifeInv, Held, AttemptsAreLive, Generations, Next, Undisturbed, Booted, Kindly,
         page.at = "ready"
  PROVE  \/ UNCHANGED <<sessions, native_sessions>>
         \/ \E c \in Command :
              \/ Registers(c) \/ Unregisters(c)
              \/ /\ OpenInserts(c) /\ UNCHANGED sessions /\ cmd'[c] = Absent
                 /\ native_sessions' = [native_sessions EXCEPT ![cmd[c].session] = cmd[c].tab]
              \/ /\ CloseRemoves(c) /\ UNCHANGED sessions /\ cmd'[c] = Absent
                 /\ native_sessions' = [native_sessions EXCEPT ![cmd[c].session] = Absent]
                 /\ page'.session[cmd[c].tab] = Absent
<1>t. cmd \in [Command -> Request \cup {Absent}] /\ page \in PageRow /\ Absent \notin Request
        /\ Absent \notin Owner
  BY LifecycleAssumption DEF LifeInv, Typed
<1> DEFINE Goal ==
         \/ UNCHANGED <<sessions, native_sessions>>
         \/ \E c \in Command :
              \/ Registers(c) \/ Unregisters(c)
              \/ /\ OpenInserts(c) /\ UNCHANGED sessions /\ cmd'[c] = Absent
                 /\ native_sessions' = [native_sessions EXCEPT ![cmd[c].session] = cmd[c].tab]
              \/ /\ CloseRemoves(c) /\ UNCHANGED sessions /\ cmd'[c] = Absent
                 /\ native_sessions' = [native_sessions EXCEPT ![cmd[c].session] = Absent]
                 /\ page'.session[cmd[c].tab] = Absent
<1>1. Page => UNCHANGED <<sessions, native_sessions>>
  BY PageAsks DEF registry, runtime
<1>2. \A c \in Command : connect_profile(c) \/ disconnect_profile(c) \/ start_execution(c)
                           => UNCHANGED <<sessions, native_sessions>>
  BY DEF connect_profile, ConnectChecks, begin_connection_attempt, ConnectOpens,
     ConnectFails, Connected, disconnect_profile, start_execution, SessionChecks,
     StartRegisters, StartInserts, registry, runtime, O!register_execution
<1>3. ASSUME NEW c \in Command, open_tab_session(c) PROVE Goal
  <2>1. OpenChecks(c) => UNCHANGED <<sessions, native_sessions>>
    BY DEF OpenChecks, registry, runtime
  <2>2. CASE OpenInserts(c)
    <3>1. cmd'[c] = Absent
      BY <1>t, <2>2 DEF OpenInserts, Reply
    <3>2. UNCHANGED sessions
            /\ native_sessions' = [native_sessions EXCEPT ![cmd[c].session] = cmd[c].tab]
      BY <2>2 DEF OpenInserts, registry
    <3>3. QED
      BY <2>2, <3>1, <3>2
  <2>3. CASE OpenRegisters(c)
    <3>1. UNCHANGED native_sessions
      BY <2>3 DEF OpenRegisters, runtime
    <3>2. ASSUME NEW s \in Session \ minted, O!register_session(Main, cmd[c].profile,
                 cmd[c].tab, s),
                 cmd' = [cmd EXCEPT ![c].at = "insert", ![c].session = s]
          PROVE  Goal
      <4>1. cmd[c] \in Request /\ cmd[c].op = "open"
        BY <1>t, <2>3 DEF OpenRegisters, At
      <4>2. cmd'[c] = [cmd[c] EXCEPT !.at = "insert", !.session = s]
        BY <1>t, <3>2
      <4>3. cmd'[c] \in Request /\ cmd'[c].at = "insert" /\ cmd'[c].session = s
              /\ cmd'[c].tab = cmd[c].tab /\ cmd'[c].op = "open"
        BY <4>1, <4>2 DEF Request
      <4>4. Inserting(c)'
        BY <1>t, <4>3 DEF Inserting, At
      <4>5. Registers(c)
        BY <2>3, <3>1, <3>2, <4>3, <4>4 DEF Registers, O!register_session
      <4>6. QED
        BY <4>5
    <3>3. QED
      BY <2>3, <3>1, <3>2 DEF OpenRegisters, registry
  <2>4. QED
    BY <1>3, <2>1, <2>2, <2>3 DEF open_tab_session
<1>4. ASSUME NEW c \in Command, close_tab_session(c) PROVE Goal
  <2>1. SessionChecks(c, "close") => UNCHANGED <<sessions, native_sessions>>
    BY DEF SessionChecks, registry, runtime
  <2>2. CASE CloseUnregisters(c)
    <3>1. UNCHANGED native_sessions
      BY <2>2 DEF CloseUnregisters, runtime
    <3>2. ASSUME O!unregister_session(Main, cmd[c].profile, cmd[c].tab, cmd[c].session),
                 Advance(c, "remove")
          PROVE  Goal
      <4>1. cmd[c] \in Request /\ cmd[c].op = "close" /\ cmd[c].profile \in Profile
              /\ cmd[c].tab \in Tab
        BY <1>t, <2>2 DEF CloseUnregisters, At, LifeInv, Flights, Complete
      <4>2. cmd'[c] \in Request /\ cmd'[c].at = "remove" /\ cmd'[c].session = cmd[c].session
              /\ cmd'[c].op = "close"
        BY <1>t, <3>2, <4>1 DEF Advance, Request
      <4>3. sessions[cmd[c].session] # Absent
        BY <1>t, <3>2, <4>1 DEF O!unregister_session, O!authorize_session, Owner
      <4>4. Unregisters(c)
        BY <1>t, <2>2, <3>1, <3>2, <4>2, <4>3 DEF Unregisters, Removing, At,
           O!unregister_session
      <4>5. QED
        BY <4>4
    <3>3. QED
      BY <2>2, <3>1, <3>2 DEF CloseUnregisters, registry
  <2>3. CASE CloseRemoves(c)
    <3>1. cmd[c] \in Request /\ cmd[c].tab \in Tab
      BY <1>t, <2>3 DEF CloseRemoves, At, LifeInv, Flights, Complete
    <3>2. cmd[c].generation = page.generation
      <4>1. cmd[c].generation \in Nat /\ cmd[c].generation <= 0 /\ page.generation = 0
        BY <1>t, <2>3, <3>1 DEF CloseRemoves, At, Generations, Booted, Request
      <4>2. QED
        BY <4>1
    <3>3. page' = Learns(cmd[c].tab, Absent) /\ cmd'[c] = Absent
      BY <1>t, <2>3, <3>2 DEF CloseRemoves, Reply
    <3>4. page'.session[cmd[c].tab] = Absent
      BY <1>t, <3>1, <3>3 DEF Learns, PageRow
    <3>5. UNCHANGED sessions
            /\ native_sessions' = [native_sessions EXCEPT ![cmd[c].session] = Absent]
      BY <2>3 DEF CloseRemoves, registry
    <3>6. QED
      BY <2>3, <3>3, <3>4, <3>5
  <2>4. QED
    BY <1>4, <2>1, <2>2, <2>3 DEF close_tab_session
<1>5. \A p \in Profile : cancel_profile_connection(p) => UNCHANGED <<sessions, native_sessions>>
  BY DEF cancel_profile_connection, registry, runtime
<1>6. \A e \in Execution : EmitTerminal(e) \/ RemoveExecution(e) \/ MarkTerminal(e)
        => UNCHANGED <<sessions, native_sessions>>
  BY DEF EmitTerminal, RemoveExecution, MarkTerminal, registry, runtime,
     O!mark_execution_terminal
<1>7. QED
  BY <1>1, <1>2, <1>3, <1>4, <1>5, <1>6, OnceReady

(* A session that is being inserted is named by nobody else; one that the   *)
(* page or a command names is held for its tab, or no longer.               *)
Named ==
  /\ \A c, d \in Command : Inserting(c) /\ Inserting(d) /\ cmd[c].session = cmd[d].session => c = d
  /\ \A c, d \in Command : Inserting(c) /\ Uses(d) => cmd[d].session # cmd[c].session
  /\ \A c \in Command : Inserting(c) => native_sessions[cmd[c].session] = Absent
  /\ \A c \in Command : Uses(c) => native_sessions[cmd[c].session] \in {cmd[c].tab, Absent}
  /\ \A t \in Tab : page.session[t] # Absent => native_sessions[page.session[t]] = t

(* An owner has its session, or a command is about to insert it; a session  *)
(* has its owner, or a command is about to remove it.                       *)
Registered ==
  /\ \A s \in Session : sessions[s] # Absent =>
       \/ native_sessions[s] = sessions[s].tab
       \/ \E c \in Command : Inserting(c) /\ cmd[c].session = s
  /\ \A s \in Session : native_sessions[s] # Absent =>
       \/ sessions[s] # Absent /\ sessions[s].tab = native_sessions[s]
       \/ \E c \in Command : Removing(c) /\ cmd[c].session = s
  /\ \A c \in Command : Removing(c) => sessions[cmd[c].session] = Absent
  /\ \A c \in Command : Inserting(c) =>
       sessions[cmd[c].session] # Absent /\ sessions[cmd[c].session].tab = cmd[c].tab

LEMMA BeforeReady ==
  ASSUME LifeInv, AttemptsAreLive, Held, Held', LifeInv', Owns, Next, Undisturbed, Booted,
         Named, page.at # "ready"
  PROVE  Empty' /\ Named' /\ Registered' /\ \A c \in Command : cmd'[c] # Absent
           => cmd'[c].op = "bootstrap"
<1>t. /\ page \in PageRow /\ Absent \notin Tab /\ native_sessions \in [Session -> Tab \cup {Absent}]
  BY LifecycleAssumption DEF LifeInv, Typed, Held
<1>1. Empty /\ Empty'
  BY OnlyBootstrap, EmptyKeeps DEF Booted
<1>2. ASSUME NEW c \in Command, cmd'[c] # Absent PROVE cmd'[c].op = "bootstrap"
  <2>1. CASE cmd[c] = Absent
    BY <1>2, <2>1, RequestsAreAsked DEF Asked
  <2>2. CASE cmd[c] # Absent
    BY <1>2, <2>2, CommandsMove DEF Kept, SameRequest, Booted
  <2>3. QED
    BY <2>1, <2>2
<1>3. \A c \in Command : ~Inserting(c)' /\ ~Removing(c)' /\ ~Uses(c)'
  BY <1>2 DEF Inserting, Removing, Uses, At
<1>4. ASSUME NEW t \in Tab PROVE page'.session[t] = Absent
  <2>1. page.session[t] = Absent
    BY <1>t, <1>1 DEF PageRow, Named, Empty
  <2>2. ~Reload
    BY DEF Reload, Undisturbed, Booted
  <2>3. \A c \in Command : ~OpenChecks(c) /\ ~OpenInserts(c)
    BY DEF OpenChecks, OpenInserts, At, Booted
  <2>4. QED
    BY <2>1, <2>2, <2>3, PageMoves
<1>5. Named'
  BY <1>3, <1>4 DEF Named
<1>6. Registered'
  BY <1>1, <1>3 DEF Registered, Empty
<1>7. QED
  BY <1>1, <1>2, <1>5, <1>6

(* The same, seen from one session.                                         *)
LEMMA SessionTurns ==
  ASSUME LifeInv, Held, AttemptsAreLive, Generations, Next, Undisturbed, Booted, Kindly,
         page.at = "ready",
         NEW s \in Session
  PROVE  /\ \/ native_sessions'[s] = native_sessions[s]
            \/ \E c \in Command : /\ OpenInserts(c) /\ cmd[c].session = s
                                  /\ native_sessions'[s] = cmd[c].tab
                                  /\ cmd'[c] = Absent /\ UNCHANGED sessions
            \/ \E c \in Command : /\ CloseRemoves(c) /\ cmd[c].session = s
                                  /\ native_sessions'[s] = Absent
                                  /\ cmd'[c] = Absent /\ page'.session[cmd[c].tab] = Absent
                                  /\ UNCHANGED sessions
         /\ \/ sessions'[s] = sessions[s]
            \/ \E c \in Command : /\ Registers(c) /\ cmd'[c].session = s
                                  /\ native_sessions'[s] = native_sessions[s]
                                  /\ sessions'[s] = [window |-> Main, profile |-> cmd[c].profile, tab |-> cmd[c].tab]
            \/ \E c \in Command : /\ Unregisters(c) /\ cmd[c].session = s
                                  /\ native_sessions'[s] = native_sessions[s]
                                  /\ sessions'[s] = Absent
<1>t. native_sessions \in [Session -> Tab \cup {Absent}]
        /\ sessions \in [Session -> O!SessionOwner \cup {Absent}]
  BY DEF LifeInv, Typed, Held
<1>1. CASE UNCHANGED <<sessions, native_sessions>>
  BY <1>1
<1>2. ASSUME NEW c \in Command, Registers(c) \/ Unregisters(c)
      PROVE  /\ native_sessions'[s] = native_sessions[s]
             /\ \/ sessions'[s] = sessions[s]
                \/ /\ Registers(c) /\ cmd'[c].session = s
                   /\ sessions'[s] = [window |-> Main, profile |-> cmd[c].profile, tab |-> cmd[c].tab]
                \/ Unregisters(c) /\ cmd[c].session = s /\ sessions'[s] = Absent
  BY <1>t, <1>2 DEF Registers, Unregisters
<1>3. ASSUME NEW c \in Command, UNCHANGED sessions, NEW t,
             native_sessions' = [native_sessions EXCEPT ![cmd[c].session] = t]
      PROVE  /\ sessions'[s] = sessions[s]
             /\ native_sessions'[s] = native_sessions[s] \/ (cmd[c].session = s
                  /\ native_sessions'[s] = t)
  BY <1>t, <1>3
<1>4. QED
  BY <1>1, <1>2, <1>3, SessionsTurn

LEMMA NamedKeeps ==
  ASSUME LifeInv, AttemptsAreLive, LifeInv', Held, Held', Owns, Issued, Generations,
         Undisturbed, Booted, Kindly, Named, Next
  PROVE  Named'
<1>1. CASE page.at # "ready"
  BY <1>1, BeforeReady
<1>2. CASE page.at = "ready"
  <2>t. /\ page \in PageRow /\ page' \in PageRow /\ Absent \notin Tab
        /\ native_sessions \in [Session -> Tab \cup {Absent}]
        /\ cmd \in [Command -> Request \cup {Absent}]
    BY LifecycleAssumption DEF LifeInv, Typed, Held
  <2>i. ASSUME NEW c \in Command, Inserting(c)'
        PROVE  cmd'[c].session \in Session /\ cmd'[c] # Absent
                                                      /\ cmd'[c].op = "open"
    BY <2>i DEF Inserting, At, LifeInv, Flights, Complete
  <2>u. ASSUME NEW c \in Command, Uses(c)' PROVE cmd'[c].session \in Session /\ cmd'[c] # Absent
                                                 /\ cmd'[c].op # "open" /\ cmd'[c].tab \in Tab
    BY <2>u DEF Uses, LifeInv, Flights, Complete
  <2>m. \A c \in Command : /\ Inserting(c) => cmd[c].session \in minted
                           /\ Uses(c) => cmd[c].session \in minted
    BY DEF Issued, Inserting, Uses
  <2>o. ASSUME NEW c \in Command, OpenInserts(c) PROVE Inserting(c) /\ cmd[c].tab \in Tab
    BY <2>o DEF OpenInserts, Inserting, At, LifeInv, Flights, Complete
  <2>r. ASSUME NEW c \in Command, CloseRemoves(c) PROVE Uses(c)
    BY <2>r DEF CloseRemoves, Uses, At
  <2>1. ASSUME NEW c \in Command, NEW d \in Command, Inserting(c)', Inserting(d)',
               cmd'[c].session = cmd'[d].session
        PROVE  c = d
    <3>1. ASSUME NEW x \in Command, NEW y \in Command, x # y, Inserting(x)', Inserting(y)',
                 cmd'[x].session = cmd'[y].session, ~Inserting(x)
          PROVE  FALSE
      <4>1. cmd'[x].session \notin minted /\ cmd'[y] = cmd[y]
        BY <3>1, InsertersMove
      <4>2. Inserting(y)
        BY <3>1, <4>1 DEF Inserting, At
      <4>3. QED
        BY <2>m, <3>1, <4>1, <4>2
    <3>2. CASE Inserting(c) /\ Inserting(d)
      <4>1. ASSUME NEW x \in Command, Inserting(x), Inserting(x)'
            PROVE  cmd'[x].session = cmd[x].session
        BY <4>1, InsertersMove DEF Inserting, At, OpenRegisters
      <4>2. QED
        BY <2>1, <3>2, <4>1 DEF Named
    <3>3. QED
      BY <2>1, <3>1, <3>2
  <2>s. ASSUME NEW x \in Command, Inserting(x), Inserting(x)' PROVE cmd'[x].session = cmd[x].session
    BY <2>s, InsertersMove DEF Inserting, At, OpenRegisters
  <2>2. ASSUME NEW c \in Command, NEW d \in Command, Inserting(c)', Uses(d)'
        PROVE  cmd'[d].session # cmd'[c].session
    <3>1. CASE ~Inserting(c)
      <4>1. cmd'[c].session \notin minted /\ c # d /\ cmd'[d] = cmd[d]
        BY <2>2, <2>i, <2>u, <3>1, InsertersMove
      <4>2. Uses(d)
        BY <2>2, <4>1 DEF Uses
      <4>3. QED
        BY <2>m, <4>1, <4>2
    <3>2. CASE Inserting(c) /\ Uses(d) /\ cmd'[d].session = cmd[d].session
      BY <2>2, <2>s, <3>2 DEF Named
    <3>3. CASE Inserting(c) /\ cmd'[d].tab \in Tab /\ page.session[cmd'[d].tab] # Absent
               /\ cmd'[d].session = page.session[cmd'[d].tab]
      BY <2>2, <2>s, <2>t, <3>3 DEF Named
    <3>4. QED
      BY <2>2, <3>1, <3>2, <3>3, UsersMove
  <2>3. ASSUME NEW c \in Command, Inserting(c)' PROVE native_sessions'[cmd'[c].session] = Absent
    <3>1. native_sessions[cmd'[c].session] = Absent
      <4>1. CASE Inserting(c)
        BY <2>3, <2>s, <4>1 DEF Named
      <4>2. CASE ~Inserting(c)
        BY <2>3, <4>2, InsertersMove DEF Issued
      <4>3. QED
        BY <4>1, <4>2
    <3>2. ASSUME NEW d \in Command, OpenInserts(d), cmd[d].session = cmd'[c].session,
                 cmd'[d] = Absent
          PROVE  FALSE
      <4>1. Inserting(d) /\ c # d
        BY <2>3, <2>i, <2>o, <3>2
      <4>2. CASE Inserting(c)
        BY <2>3, <2>s, <3>2, <4>1, <4>2 DEF Named
      <4>3. CASE ~Inserting(c)
        BY <2>3, <2>m, <3>2, <4>1, <4>3, InsertersMove
      <4>4. QED
        BY <4>2, <4>3
    <3>3. QED
      BY <1>2, <2>3, <2>i, <3>1, <3>2, SessionTurns
  <2>4. ASSUME NEW c \in Command, Uses(c)'
        PROVE  native_sessions'[cmd'[c].session] \in {cmd'[c].tab, Absent}
    <3>1. native_sessions[cmd'[c].session] \in {cmd'[c].tab, Absent}
      BY <2>4, UsersMove DEF Named
    <3>2. ASSUME NEW d \in Command, OpenInserts(d), cmd[d].session = cmd'[c].session PROVE FALSE
      <4>1. Inserting(d)
        BY <2>o, <3>2
      <4>2. Uses(c) => cmd'[c].session # cmd[c].session
        BY <3>2, <4>1 DEF Named
      <4>3. ~Page
        BY <3>2, PageAsks DEF OpenInserts, Reply, At, Asked, LifeInv, Typed
      <4>4. QED
        BY <2>4, <4>2, <4>3, UsersMove
    <3>3. QED
      BY <1>2, <2>4, <2>u, <3>1, <3>2, SessionTurns
  <2>5. ASSUME NEW t \in Tab, page'.session[t] # Absent PROVE native_sessions'[page'.session[t]] = t
    <3>1. ~Reload
      BY DEF Reload, Undisturbed, Booted
    <3>2. CASE page'.session[t] = page.session[t]
      <4>1. page.session[t] \in Session /\ native_sessions[page.session[t]] = t
        BY <2>5, <2>t, <3>2 DEF Named, PageRow
      <4>2. ASSUME NEW c \in Command, OpenInserts(c), cmd[c].session = page.session[t] PROVE FALSE
        BY <2>o, <2>t, <4>1, <4>2 DEF Named
      <4>3. ASSUME NEW c \in Command, CloseRemoves(c), cmd[c].session = page.session[t],
                   page'.session[cmd[c].tab] = Absent
            PROVE  FALSE
        <5>1. cmd[c].tab = t
          BY <2>r, <2>t, <4>1, <4>3 DEF Named
        <5>2. QED
          BY <2>5, <4>3, <5>1
      <4>4. QED
        BY <1>2, <3>2, <4>1, <4>2, <4>3, SessionTurns
    <3>3. ASSUME NEW c \in Command, NEW s \in Session, page'.session[t] = s, OpenChecks(c),
                 native_sessions[s] = t
          PROVE  native_sessions'[s] = t
      BY <3>3 DEF OpenChecks, runtime
    <3>4. ASSUME NEW c \in Command, NEW s \in Session, page'.session[t] = s, OpenInserts(c),
                 cmd[c].session = s, cmd[c].tab = t
          PROVE  native_sessions'[s] = t
      BY <2>t, <3>4 DEF OpenInserts
    <3>5. QED
      BY <2>5, <3>1, <3>2, <3>3, <3>4, PageMoves
  <2>6. QED
    BY <2>1, <2>2, <2>3, <2>4, <2>5 DEF Named
<1>3. QED
  BY <1>1, <1>2

LEMMA RegisteredKeeps ==
  ASSUME LifeInv, AttemptsAreLive, LifeInv', Held, Held', Owns, Issued, Generations,
         Undisturbed, Booted, Kindly,
         Named, Registered, Next
  PROVE  Registered'
<1>1. CASE page.at # "ready"
  BY <1>1, BeforeReady
<1>2. CASE page.at = "ready"
  <2>t. /\ Absent \notin Tab /\ Absent \notin Owner
        /\ native_sessions \in [Session -> Tab \cup {Absent}]
        /\ cmd \in [Command -> Request \cup {Absent}]
    BY LifecycleAssumption DEF LifeInv, Typed, Held
  <2>b. \A c \in Command : ~cleanup(c)
    BY <1>2 DEF cleanup, At, Booted
  <2>i. ASSUME NEW c \in Command, Inserting(c)
        PROVE  OpenInserts(c) \/ (Inserting(c)' /\ cmd'[c] = cmd[c])
    <3>1. cmd'[c] = cmd[c] \/ open_tab_session(c) \/ close_tab_session(c) \/ start_execution(c)
      BY <2>b, <2>i, WaitersStay DEF Inserting, At
    <3>2. open_tab_session(c) \/ close_tab_session(c) \/ start_execution(c) => OpenInserts(c)
      BY <2>i DEF Inserting, At, open_tab_session, OpenChecks, OpenRegisters,
         close_tab_session, SessionChecks, CloseUnregisters, CloseRemoves,
         start_execution, StartRegisters, StartInserts
    <3>3. QED
      BY <2>i, <3>1, <3>2 DEF Inserting, At
  <2>r. ASSUME NEW c \in Command, Removing(c)
        PROVE  CloseRemoves(c) \/ (Removing(c)' /\ cmd'[c] = cmd[c])
    <3>1. cmd'[c] = cmd[c] \/ open_tab_session(c) \/ close_tab_session(c) \/ start_execution(c)
      BY <2>b, <2>r, WaitersStay DEF Removing, At
    <3>2. open_tab_session(c) \/ close_tab_session(c) \/ start_execution(c) => CloseRemoves(c)
      BY <2>r DEF Removing, At, open_tab_session, OpenChecks, OpenRegisters,
         OpenInserts, close_tab_session, SessionChecks, CloseUnregisters,
         start_execution, StartRegisters, StartInserts
    <3>3. QED
      BY <2>r, <3>1, <3>2 DEF Removing, At
  <2>o. ASSUME NEW c \in Command, OpenInserts(c)
        PROVE  /\ Inserting(c) /\ cmd[c].tab \in Tab /\ cmd[c].session \in Session
               /\ native_sessions'[cmd[c].session] = cmd[c].tab
    BY <2>o, <2>t DEF OpenInserts, Inserting, At, LifeInv, Flights, Complete
  <2>c. ASSUME NEW c \in Command, CloseRemoves(c)
        PROVE  /\ Removing(c) /\ cmd[c].session \in Session
               /\ native_sessions'[cmd[c].session] = Absent
    BY <2>c, <2>t DEF CloseRemoves, Removing, At, LifeInv, Flights, Complete
  <2>1. ASSUME NEW s \in Session, sessions'[s] # Absent
        PROVE  \/ native_sessions'[s] = sessions'[s].tab
               \/ \E c \in Command : Inserting(c)' /\ cmd'[c].session = s
    <3>1. ASSUME NEW c \in Command, Registers(c), cmd'[c].session = s
          PROVE  \E x \in Command : Inserting(x)' /\ cmd'[x].session = s
      BY <3>1 DEF Registers
    <3>2. CASE sessions'[s] = sessions[s]
      <4>1. CASE native_sessions[s] = sessions[s].tab
        <5>1. ASSUME NEW c \in Command, OpenInserts(c), cmd[c].session = s
              PROVE  native_sessions'[s] = sessions'[s].tab
          <6>1. Inserting(c) /\ native_sessions'[s] = cmd[c].tab
            BY <2>o, <5>1
          <6>2. sessions[s].tab = cmd[c].tab
            BY <5>1, <6>1 DEF Registered
          <6>3. QED
            BY <3>2, <6>1, <6>2
        <5>2. ASSUME NEW c \in Command, CloseRemoves(c), cmd[c].session = s PROVE FALSE
          BY <2>1, <2>c, <3>2, <5>2 DEF Registered
        <5>3. QED
          BY <1>2, <3>2, <4>1, <5>1, <5>2, SessionTurns
      <4>2. ASSUME NEW c \in Command, Inserting(c), cmd[c].session = s
            PROVE  \/ native_sessions'[s] = sessions'[s].tab
                   \/ \E x \in Command : Inserting(x)' /\ cmd'[x].session = s
        <5>1. CASE OpenInserts(c)
          BY <2>o, <3>2, <4>2, <5>1 DEF Registered
        <5>2. CASE Inserting(c)' /\ cmd'[c] = cmd[c]
          BY <4>2, <5>2
        <5>3. QED
          BY <2>i, <4>2, <5>1, <5>2
      <4>3. QED
        BY <2>1, <3>2, <4>1, <4>2 DEF Registered
    <3>3. QED
      BY <1>2, <2>1, <3>1, <3>2, SessionTurns
  <2>2. ASSUME NEW s \in Session, native_sessions'[s] # Absent
        PROVE  \/ sessions'[s] # Absent /\ sessions'[s].tab = native_sessions'[s]
               \/ \E c \in Command : Removing(c)' /\ cmd'[c].session = s
    <3>1. CASE native_sessions'[s] = native_sessions[s]
      <4>1. CASE sessions[s] # Absent /\ sessions[s].tab = native_sessions[s]
        <5>1. ASSUME NEW c \in Command, Registers(c), cmd'[c].session = s PROVE FALSE
          BY <2>2, <3>1, <5>1 DEF Registers, Issued
        <5>2. ASSUME NEW c \in Command, Unregisters(c), cmd[c].session = s
              PROVE  \E x \in Command : Removing(x)' /\ cmd'[x].session = s
          BY <5>2 DEF Unregisters
        <5>3. QED
          BY <1>2, <3>1, <4>1, <5>1, <5>2, SessionTurns
      <4>2. ASSUME NEW c \in Command, Removing(c), cmd[c].session = s
            PROVE  \E x \in Command : Removing(x)' /\ cmd'[x].session = s
        <5>1. ~CloseRemoves(c)
          BY <2>2, <2>c, <4>2
        <5>2. QED
          BY <2>r, <4>2, <5>1
      <4>3. QED
        BY <2>2, <3>1, <4>1, <4>2 DEF Registered
    <3>2. ASSUME NEW c \in Command, OpenInserts(c), cmd[c].session = s, UNCHANGED sessions
          PROVE  sessions'[s] # Absent /\ sessions'[s].tab = native_sessions'[s]
      BY <2>o, <3>2 DEF Registered
    <3>3. QED
      BY <1>2, <2>2, <3>1, <3>2, SessionTurns
  <2>3. ASSUME NEW c \in Command, Removing(c)' PROVE sessions'[cmd'[c].session] = Absent
    <3>1. cmd'[c].session = cmd[c].session /\ cmd[c] # Absent /\ cmd[c].session \in Session
      BY <2>3, RemoversMove DEF Removing, CloseUnregisters, At, LifeInv, Flights,
         Complete
    <3>2. CASE Removing(c)
      <4>1. sessions[cmd[c].session] = Absent /\ cmd[c].session \in minted
        BY <3>2 DEF Registered, Issued, Removing, At
      <4>2. QED
        BY <3>1, <4>1, SessionsMove
    <3>3. CASE O!unregister_session(Main, cmd[c].profile, cmd[c].tab, cmd[c].session)
      BY <3>1, <3>3 DEF O!unregister_session, LifeInv, Typed
    <3>4. QED
      BY <2>3, <3>2, <3>3, RemoversMove
  <2>4. ASSUME NEW c \in Command, Inserting(c)'
        PROVE  sessions'[cmd'[c].session] # Absent /\ sessions'[cmd'[c].session].tab = cmd'[c].tab
    <3>1. cmd'[c].tab = cmd[c].tab
      BY <2>4, InsertersMove
    <3>2. CASE Inserting(c) /\ cmd'[c].session = cmd[c].session
      <4>1. sessions[cmd[c].session] # Absent /\ sessions[cmd[c].session].tab = cmd[c].tab
            /\ cmd[c].session \in minted /\ cmd[c].session \in Session
        BY <3>2 DEF Registered, Issued, Inserting, At, LifeInv, Flights, Complete
      <4>2. ASSUME NEW d \in Command, Unregisters(d), cmd[d].session = cmd[c].session PROVE FALSE
        BY <3>2, <4>2 DEF Unregisters, CloseUnregisters, At, Uses, Named
      <4>3. sessions'[cmd[c].session] = sessions[cmd[c].session]
        BY <1>2, <4>1, <4>2, SessionTurns DEF Registers
      <4>4. QED
        BY <3>1, <3>2, <4>1, <4>3
    <3>3. CASE /\ cmd[c].tab \in Tab /\ cmd[c].profile \in Profile
               /\ cmd'[c].session \in Session \ minted
               /\ O!register_session(Main, cmd[c].profile, cmd[c].tab, cmd'[c].session)
      <4>1. sessions'[cmd'[c].session] = [window |-> Main, profile |-> cmd[c].profile, tab |-> cmd[c].tab]
        BY <3>3 DEF O!register_session, LifeInv, Typed
      <4>2. [window |-> Main, profile |-> cmd[c].profile, tab |-> cmd[c].tab] \in Owner
        BY <3>3 DEF Owner
      <4>3. QED
        BY <2>t, <3>1, <4>1, <4>2
    <3>4. QED
      BY <2>4, <3>2, <3>3, InsertersMove
  <2>5. QED
    BY <2>1, <2>2, <2>3, <2>4 DEF Registered
<1>3. QED
  BY <1>1, <1>2

(* The executions, from the moment they are registered to their end.        *)
Launching(c) == At(c, "start", "insert")

JobOf(t, s) == [window |-> Main, profile |-> Home[t], tab |-> t, session |-> s]

(* A start names the profile of its tab.                                    *)
Homed ==
  \A c \in Command : cmd[c] # Absent /\ cmd[c].op = "start" => cmd[c].profile = Home[cmd[c].tab]

LEMMA HomedKeeps == ASSUME LifeInv, AttemptsAreLive, Homed, Next PROVE Homed'
<1> SUFFICES ASSUME NEW c \in Command, cmd'[c] # Absent, cmd'[c].op = "start"
             PROVE  cmd'[c].profile = Home[cmd'[c].tab]
  BY DEF Homed
<1>1. CASE cmd[c] = Absent
  BY <1>1, RequestsAreAsked DEF Asked
<1>2. CASE cmd[c] # Absent
  BY <1>2, CommandsMove DEF Kept, SameRequest, Homed
<1>3. QED
  BY <1>1, <1>2

LEMMA LaunchersMove ==
  ASSUME LifeInv, AttemptsAreLive, LifeInv', Homed, Next, NEW c \in Command, Launching(c)'
  PROVE  /\ cmd'[c].tab = cmd[c].tab /\ cmd'[c].session = cmd[c].session
         /\ cmd'[c].execution \in Execution
         /\ \/ Launching(c) /\ cmd'[c].execution = cmd[c].execution
            \/ /\ StartRegisters(c) /\ executions[cmd'[c].execution] = Absent
               /\ cmd'[c].execution \notin terminal_executions
               /\ O!register_execution(Main, Home[cmd[c].tab], cmd[c].tab, cmd[c].session, cmd'[c].execution)
               /\ \A d \in Command \ {c} : cmd'[d] = cmd[d]
<1>t. cmd \in [Command -> Request \cup {Absent}]
  BY DEF LifeInv, Typed
<1>1. cmd'[c] # Absent /\ cmd'[c].op = "start" /\ cmd'[c].at = "insert"
        /\ cmd'[c].execution \in Execution
  BY DEF At, Launching, LifeInv, Flights, Complete
<1>2. cmd[c] # Absent
  BY <1>1, RequestsAreAsked DEF Asked
<1>3. Kept(c) /\ cmd[c].op = "start" /\ cmd[c] \in Request /\ cmd'[c].tab = cmd[c].tab
        /\ cmd[c].profile = Home[cmd[c].tab]
  BY <1>t, <1>1, <1>2, CommandsMove DEF Kept, SameRequest, Homed
<1>4. cmd'[c].session = cmd[c].session
  BY <1>3 DEF Kept, OpenRegisters, At
<1>5. CASE StartRegisters(c)
  <2>1. PICK e \in Execution :
          /\ executions[e] = Absent /\ e \notin terminal_executions
          /\ O!register_execution(Main, cmd[c].profile, cmd[c].tab, cmd[c].session, e)
          /\ cmd' = [cmd EXCEPT ![c].at = "insert", ![c].execution = e]
    BY <1>1, <1>5, <1>t DEF StartRegisters, Answer, Reply
  <2>2. cmd'[c].execution = e /\ \A d \in Command \ {c} : cmd'[d] = cmd[d]
    BY <1>t, <1>3, <2>1 DEF Request
  <2>3. QED
    BY <1>1, <1>3, <1>4, <1>5, <2>1, <2>2
<1>6. CASE ~StartRegisters(c)
  <2>1. cmd'[c].execution = cmd[c].execution /\ (cmd[c].at = "insert" \/ Moves(c))
    BY <1>1, <1>3, <1>6 DEF Kept
  <2>2. Moves(c) => SessionChecks(c, "start")
    BY <1>3, <1>6 DEF Moves, cleanup, cleanup_window, RegisterProfiles, ConnectChecks,
       begin_connection_attempt, ConnectOpens, OpenChecks, OpenRegisters, SessionChecks,
       CloseUnregisters, At
  <2>3. SessionChecks(c, "start") => cmd'[c] = Absent \/ cmd'[c].at = "checked"
    BY <1>t, <1>3 DEF SessionChecks, Answer, Reply, Advance, Request
  <2>4. QED
    BY <1>1, <1>2, <1>3, <1>4, <2>1, <2>2, <2>3 DEF Launching, At
<1>7. QED
  BY <1>5, <1>6

(* What a step does to one execution.                                       *)
Untouched(e) ==
  /\ executions'[e] = executions[e] /\ bridge'[e] = bridge[e] /\ jobs'[e] = jobs[e]
  /\ e \in terminal_executions' <=> e \in terminal_executions

Launched(c, e) ==
  /\ StartRegisters(c) /\ Launching(c)' /\ cmd'[c].execution = e
  /\ executions[e] = Absent /\ e \notin terminal_executions /\ e \notin terminal_executions'
  /\ bridge'[e] = bridge[e] /\ jobs'[e] = jobs[e]

Spawned(c, e) ==
  /\ StartInserts(c) /\ cmd[c].execution = e /\ cmd'[c] = Absent
  /\ bridge'[e] # Absent /\ bridge'[e].at = "running" /\ bridge'[e].tab = cmd[c].tab
  /\ bridge'[e].session = cmd[c].session
  /\ executions'[e] = executions[e] /\ (e \in terminal_executions' <=> e \in terminal_executions)

Ended(e) ==
  /\ bridge[e] # Absent /\ bridge'[e] # Absent
  /\ bridge'[e].tab = bridge[e].tab /\ bridge'[e].session = bridge[e].session
  /\ \/ /\ bridge[e].at = "running" /\ bridge'[e].at = "remove" /\ jobs'[e] = jobs[e]
        /\ executions'[e] = executions[e]
        /\ (e \in terminal_executions' <=> e \in terminal_executions)
     \/ /\ bridge[e].at = "remove" /\ bridge'[e].at = "mark" /\ jobs'[e] = Absent
        /\ executions'[e] = executions[e]
        /\ (e \in terminal_executions' <=> e \in terminal_executions)
     \/ /\ bridge[e].at = "mark" /\ bridge'[e].at = "done" /\ jobs'[e] = jobs[e]
        /\ \/ executions'[e] = Absent /\ e \in terminal_executions'
           \/ /\ ~O!authorize_execution(Main, Home[bridge[e].tab], bridge[e].tab, bridge[e].session, e)
              /\ executions'[e] = executions[e]
              /\ (e \in terminal_executions' <=> e \in terminal_executions)

LEMMA JobTurns ==
  ASSUME LifeInv, LifeInv', Held, Owns, AttemptsAreLive, Next, Undisturbed, Booted, Kindly,
         page.at = "ready",
         NEW e \in Execution
  PROVE  Untouched(e) \/ (\E c \in Command : Launched(c, e) \/ Spawned(c, e)) \/ Ended(e)
<1>t. /\ cmd \in [Command -> Request \cup {Absent}]
      /\ bridge \in [Execution -> Bridge \cup {Absent}]
      /\ bridge' \in [Execution -> Bridge \cup {Absent}]
      /\ executions \in [Execution -> JobOwner \cup {Absent}]
      /\ jobs \in [Execution -> Session \cup {Absent}]
      /\ Absent \notin Bridge
  BY LifecycleAssumption DEF LifeInv, Typed, Held, Owns
<1>1. UNCHANGED <<executions, terminal_executions, bridge, jobs>> => Untouched(e)
  BY DEF Untouched
<1>2. Page => UNCHANGED <<executions, terminal_executions, bridge, jobs>>
  BY PageAsks DEF registry, runtime
<1>3. \A c \in Command : connect_profile(c) \/ disconnect_profile(c) \/ open_tab_session(c)
        \/ close_tab_session(c)
                           => UNCHANGED <<executions, terminal_executions, bridge, jobs>>
  BY DEF connect_profile, ConnectChecks, begin_connection_attempt, ConnectOpens,
     ConnectFails, Connected, disconnect_profile, open_tab_session, OpenChecks,
     OpenRegisters, OpenInserts, close_tab_session, SessionChecks, CloseUnregisters,
     CloseRemoves, registry, runtime, O!register_session, O!unregister_session
<1>4. ASSUME NEW c \in Command, start_execution(c)
      PROVE  Untouched(e) \/ Launched(c, e) \/ Spawned(c, e)
  <2>1. CASE SessionChecks(c, "start")
    BY <1>1, <2>1 DEF SessionChecks, registry, runtime
  <2>2. CASE StartRegisters(c)
    <3>1. UNCHANGED <<bridge, jobs>>
      BY <2>2 DEF StartRegisters, runtime
    <3>2. ASSUME NEW d \in Execution, executions[d] = Absent, d \notin terminal_executions,
                 O!register_execution(Main, cmd[c].profile, cmd[c].tab, cmd[c].session, d),
                 cmd' = [cmd EXCEPT ![c].at = "insert", ![c].execution = d]
          PROVE  Untouched(e) \/ Launched(c, e)
      <4>1. cmd[c] \in Request /\ cmd[c].op = "start"
        BY <1>t, <2>2 DEF StartRegisters, At
      <4>2. cmd'[c] \in Request /\ cmd'[c].at = "insert" /\ cmd'[c].execution = d
              /\ cmd'[c].op = "start"
        BY <1>t, <3>2, <4>1 DEF Request
      <4>3. Launching(c)'
        BY <4>2, LifecycleAssumption DEF Launching, At
      <4>4. CASE e = d
        BY <2>2, <3>1, <3>2, <4>2, <4>3, <4>4 DEF Launched, O!register_execution
      <4>5. CASE e # d
        BY <1>t, <3>1, <3>2, <4>5 DEF Untouched, O!register_execution
      <4>6. QED
        BY <4>4, <4>5
    <3>3. QED
      BY <1>1, <2>2, <3>1, <3>2 DEF StartRegisters, registry
  <2>3. CASE StartInserts(c)
    <3>1. /\ UNCHANGED <<executions, terminal_executions>> /\ cmd'[c] = Absent
          /\ jobs' = [jobs EXCEPT ![cmd[c].execution] = cmd[c].session]
          /\ bridge' = [bridge EXCEPT ![cmd[c].execution] =
                          [at |-> "running", tab |-> cmd[c].tab, session |-> cmd[c].session,
                           epoch |-> lifecycle_epoch, lost |-> FALSE]]
      BY <1>t, <2>3 DEF StartInserts, Answer, Reply, registry
    <3>2. CASE e = cmd[c].execution
      <4>1. /\ bridge'[e] = [at |-> "running", tab |-> cmd[c].tab, session |-> cmd[c].session,
                             epoch |-> lifecycle_epoch, lost |-> FALSE]
        BY <1>t, <3>1, <3>2
      <4>2. cmd[c].tab \in Tab /\ cmd[c].session \in Session /\ lifecycle_epoch \in Nat
        BY <2>3 DEF StartInserts, At, LifeInv, Flights, Complete, Typed
      <4>3. bridge'[e] \in Bridge
        BY <4>1, <4>2 DEF Bridge
      <4>4. QED
        BY <1>t, <2>3, <3>1, <3>2, <4>1, <4>3 DEF Spawned
    <3>3. CASE e # cmd[c].execution
      BY <1>t, <3>1, <3>3 DEF Untouched
    <3>4. QED
      BY <3>2, <3>3
  <2>4. QED
    BY <1>4, <2>1, <2>2, <2>3 DEF start_execution
<1>5. \A p \in Profile : cancel_profile_connection(p)
        => UNCHANGED <<executions, terminal_executions, bridge, jobs>>
  BY DEF cancel_profile_connection, registry, runtime
<1>6. ASSUME NEW d \in Execution, EmitTerminal(d) \/ RemoveExecution(d) \/ MarkTerminal(d)
      PROVE  Untouched(e) \/ Ended(e)
  <2>0. bridge[d] \in Bridge
    BY <1>t, <1>6 DEF EmitTerminal, RemoveExecution, MarkTerminal, BridgeAt
  <2>1. CASE EmitTerminal(d)
    <3>1. UNCHANGED <<executions, terminal_executions, jobs>> /\ bridge[d].at = "running"
          /\ \E lost \in BOOLEAN : bridge' = [bridge EXCEPT ![d].at = "remove", ![d].lost = lost]
      BY <2>1 DEF EmitTerminal, registry, runtime, BridgeAt
    <3>2. CASE e # d
      BY <1>t, <3>1, <3>2 DEF Untouched
    <3>3. CASE e = d
      <4>1. PICK lost \in BOOLEAN : bridge'[e] = [bridge[e] EXCEPT !.at = "remove", !.lost = lost]
        BY <1>t, <3>1, <3>3
      <4>2. bridge'[e].at = "remove" /\ bridge'[e].tab = bridge[e].tab
              /\ bridge'[e].session = bridge[e].session
            /\ bridge'[e] \in Bridge
        BY <2>0, <3>3, <4>1 DEF Bridge
      <4>3. QED
        BY <1>t, <2>0, <3>1, <3>3, <4>2 DEF Ended
    <3>4. QED
      BY <3>2, <3>3
  <2>a. ASSUME NEW at \in {"mark", "done"}, bridge' = [bridge EXCEPT ![d].at = at]
        PROVE  /\ bridge'[d] \in Bridge /\ bridge'[d].at = at /\ bridge'[d].tab = bridge[d].tab
               /\ bridge'[d].session = bridge[d].session
               /\ e # d => bridge'[e] = bridge[e]
    BY <1>t, <2>0, <2>a DEF Bridge
  <2>2. CASE RemoveExecution(d)
    <3>1. UNCHANGED <<executions, terminal_executions>> /\ jobs' = [jobs EXCEPT ![d] = Absent]
            /\ bridge[d].at = "remove"
          /\ bridge' = [bridge EXCEPT ![d].at = "mark"]
      BY <2>2 DEF RemoveExecution, registry, BridgeAt, BridgeTo
    <3>2. CASE e # d
      BY <1>t, <2>a, <3>1, <3>2 DEF Untouched
    <3>3. CASE e = d
      BY <1>t, <2>0, <2>a, <3>1, <3>3 DEF Ended
    <3>4. QED
      BY <3>2, <3>3
  <2>3. CASE MarkTerminal(d)
    <3>1. UNCHANGED jobs /\ bridge[d].at = "mark" /\ bridge' = [bridge EXCEPT ![d].at = "done"]
      BY <2>3 DEF MarkTerminal, runtime, BridgeAt, BridgeTo, Kindly
    <3>2. \/ executions' = [executions EXCEPT ![d] = Absent]
               /\ terminal_executions' = terminal_executions \cup {d}
          \/ /\ ~O!authorize_execution(Main, Home[bridge[d].tab], bridge[d].tab, bridge[d].session, d)
             /\ UNCHANGED <<executions, terminal_executions>>
      BY <2>3 DEF MarkTerminal, registry, O!mark_execution_terminal
    <3>3. CASE e # d
      BY <1>t, <2>a, <3>1, <3>2, <3>3 DEF Untouched
    <3>4. CASE e = d
      BY <1>t, <2>0, <2>a, <3>1, <3>2, <3>4 DEF Ended
    <3>5. QED
      BY <3>3, <3>4
  <2>4. QED
    BY <1>6, <2>1, <2>2, <2>3
<1>7. QED
  BY <1>1, <1>2, <1>3, <1>4, <1>5, <1>6, OnceReady

(* An execution that is registered is about to be inserted, or has a bridge *)
(* that is going to make it terminal and knows its owner; a job has a       *)
(* bridge that is going to remove it.                                       *)
Running ==
  /\ \A e \in Execution : executions[e] # Absent =>
       \/ \E c \in Command : Launching(c) /\ cmd[c].execution = e
       \/ /\ bridge[e] # Absent /\ bridge[e].at \in {"running", "remove", "mark"}
          /\ executions[e] = JobOf(bridge[e].tab, bridge[e].session)
  /\ \A c \in Command : Launching(c) =>
       /\ executions[cmd[c].execution] = JobOf(cmd[c].tab, cmd[c].session)
       /\ bridge[cmd[c].execution] = Absent
  /\ \A c, d \in Command : Launching(c) /\ Launching(d) /\ cmd[c].execution = cmd[d].execution
       => c = d
  /\ \A e \in Execution : bridge[e] # Absent => executions[e] # Absent \/ e \in terminal_executions
  /\ \A e \in terminal_executions : executions[e] = Absent
  /\ \A e \in Execution : jobs[e] # Absent =>
       bridge[e] # Absent /\ bridge[e].at \in {"running", "remove"}

LEMMA JobIsOwner ==
  ASSUME NEW t \in Tab, NEW s \in Session
  PROVE  JobOf(t, s) \in JobOwner /\ JobOf(t, s) # Absent
<1>1. Home[t] \in Profile
  BY LifecycleAssumption
<1>2. JobOf(t, s) \in JobOwner
  BY <1>1 DEF JobOf, JobOwner
<1>3. QED
  BY <1>2, LifecycleAssumption

LEMMA RunningKeeps ==
  ASSUME LifeInv, AttemptsAreLive, LifeInv', Held, Held', Owns, Owns', Undisturbed, Booted,
         Kindly, Named, Homed, Running,
         terminal_executions \subseteq Execution, Next
  PROVE  Running' /\ terminal_executions' \subseteq Execution
<1>x. terminal_executions' \subseteq Execution
  BY ExecutionsMove DEF cleanup_window, O!cleanup_window, O!Owned, Owns, StartRegisters,
     O!register_execution
<1>1. CASE page.at # "ready"
  <2>1. Empty' /\ \A c \in Command : cmd'[c] # Absent => cmd'[c].op = "bootstrap"
    BY <1>1, BeforeReady
  <2>2. \A c \in Command : ~Launching(c)'
    BY <2>1 DEF Launching, At
  <2>3. QED
    BY <1>x, <2>1, <2>2 DEF Running, Empty
<1>2. CASE page.at = "ready"
  <2>t. cmd \in [Command -> Request \cup {Absent}]
          /\ executions \in [Execution -> JobOwner \cup {Absent}]
        /\ bridge \in [Execution -> Bridge \cup {Absent}]
    BY DEF LifeInv, Typed, Owns
  <2>e. ASSUME NEW e \in Execution
        PROVE  Untouched(e) \/ (\E c \in Command : Launched(c, e) \/ Spawned(c, e)) \/ Ended(e)
    BY <1>2, JobTurns
  <2>s. ASSUME NEW c \in Command, StartInserts(c)
        PROVE  Launching(c) /\ cmd[c].execution \in Execution
    BY <2>s DEF StartInserts, Launching, At, LifeInv, Flights, Complete
  <2>l. ASSUME NEW c \in Command, Launching(c)
        PROVE  StartInserts(c) \/ (Launching(c)' /\ cmd'[c] = cmd[c])
    <3>1. cmd'[c] = cmd[c] \/ open_tab_session(c) \/ close_tab_session(c) \/ start_execution(c)
      BY <1>2, <2>l, WaitersStay DEF Launching, At, cleanup, Booted
    <3>2. open_tab_session(c) \/ close_tab_session(c) \/ start_execution(c) => StartInserts(c)
      BY <2>l DEF Launching, At, open_tab_session, OpenChecks, OpenRegisters,
         OpenInserts, close_tab_session, SessionChecks, CloseUnregisters, CloseRemoves,
         start_execution, StartRegisters
    <3>3. QED
      BY <2>l, <3>1, <3>2 DEF Launching, At
  <2>k. ASSUME NEW c \in Command, Launching(c)
        PROVE  cmd[c].tab \in Tab /\ cmd[c].session \in Session
                                                     /\ cmd[c].execution \in Execution
    BY <2>k DEF Launching, At, LifeInv, Flights, Complete
  <2>n. ASSUME NEW e \in Execution, executions[e] = Absent, e \notin terminal_executions
        PROVE  bridge[e] = Absent
    BY <2>n DEF Running
  <2>a. ASSUME NEW c \in Command, Launching(c) PROVE executions[cmd[c].execution] # Absent
    BY <2>a, <2>k, JobIsOwner DEF Running
  <2>1. ASSUME NEW e \in Execution, executions'[e] # Absent
        PROVE  \/ \E c \in Command : Launching(c)' /\ cmd'[c].execution = e
               \/ /\ bridge'[e] # Absent /\ bridge'[e].at \in {"running", "remove", "mark"}
                  /\ executions'[e] = JobOf(bridge'[e].tab, bridge'[e].session)
    <3>1. CASE \E c \in Command : Launched(c, e)
      BY <3>1 DEF Launched
    <3>2. ASSUME NEW c \in Command, Spawned(c, e)
          PROVE  /\ bridge'[e] # Absent /\ bridge'[e].at \in {"running", "remove", "mark"}
                 /\ executions'[e] = JobOf(bridge'[e].tab, bridge'[e].session)
      <4>1. Launching(c) /\ cmd[c].execution = e
        BY <2>s, <3>2 DEF Spawned
      <4>2. executions[e] = JobOf(cmd[c].tab, cmd[c].session)
        BY <4>1 DEF Running
      <4>3. QED
        BY <3>2, <4>2 DEF Spawned
    <3>3. CASE Untouched(e) \/ Ended(e)
      <4>1. executions[e] # Absent /\ executions'[e] = executions[e]
        BY <2>1, <3>3 DEF Untouched, Ended
      <4>2. CASE \E c \in Command : Launching(c) /\ cmd[c].execution = e
        <5>1. PICK c \in Command : Launching(c) /\ cmd[c].execution = e
          BY <4>2
        <5>2. CASE StartInserts(c)
          <6>1. bridge'[e] # bridge[e] /\ ~Ended(e)
            <7>1. bridge[e] = Absent
              BY <5>1 DEF Running
            <7>2. bridge' = [bridge EXCEPT ![e] =
                       [at |-> "running", tab |-> cmd[c].tab, session |-> cmd[c].session,
                        epoch |-> lifecycle_epoch, lost |-> FALSE]]
              BY <5>1, <5>2 DEF StartInserts
            <7>3. [at |-> "running", tab |-> cmd[c].tab, session |-> cmd[c].session,
                        epoch |-> lifecycle_epoch, lost |-> FALSE] \in Bridge
              BY <2>k, <5>1 DEF LifeInv, Typed, Bridge
            <7>4. bridge'[e] # Absent
              BY <2>t, <7>2, <7>3, LifecycleAssumption
            <7>5. QED
              BY <7>1, <7>4 DEF Ended
          <6>2. QED
            BY <3>3, <6>1 DEF Untouched
        <5>3. CASE Launching(c)' /\ cmd'[c] = cmd[c]
          BY <5>1, <5>3
        <5>4. QED
          BY <2>l, <5>1, <5>2, <5>3
      <4>3. CASE /\ bridge[e] # Absent /\ bridge[e].at \in {"running", "remove", "mark"}
                 /\ executions[e] = JobOf(bridge[e].tab, bridge[e].session)
        <5>1. CASE Untouched(e)
          BY <4>1, <4>3, <5>1 DEF Untouched
        <5>2. CASE Ended(e)
          <6>1. e \notin terminal_executions
            BY <4>1 DEF Running
          <6>2. O!authorize_execution(Main, Home[bridge[e].tab], bridge[e].tab, bridge[e].session, e)
            BY <4>3, <6>1 DEF O!authorize_execution, JobOf
          <6>3. bridge[e].at # "mark"
            BY <2>1, <5>2, <6>2 DEF Ended
          <6>4. QED
            BY <4>1, <4>3, <5>2, <6>3 DEF Ended
        <5>3. QED
          BY <3>3, <5>1, <5>2
      <4>4. QED
        BY <4>1, <4>2, <4>3 DEF Running
    <3>4. QED
      BY <2>e, <3>1, <3>2, <3>3
  <2>2. ASSUME NEW c \in Command, Launching(c)'
        PROVE  /\ executions'[cmd'[c].execution] = JobOf(cmd'[c].tab, cmd'[c].session)
               /\ bridge'[cmd'[c].execution] = Absent
    <3> DEFINE e == cmd'[c].execution
    <3>1. e \in Execution /\ cmd'[c].tab = cmd[c].tab /\ cmd'[c].session = cmd[c].session
            /\ cmd'[c] # Absent
      BY <2>2, LaunchersMove DEF Launching, At
    <3>2. CASE Launching(c) /\ e = cmd[c].execution
      <4>1. executions[e] = JobOf(cmd[c].tab, cmd[c].session) /\ bridge[e] = Absent
              /\ executions[e] # Absent
        BY <2>a, <3>2 DEF Running
      <4>2. ~Ended(e) /\ \A d \in Command : ~Launched(d, e)
        BY <4>1 DEF Ended, Launched
      <4>3. ASSUME NEW d \in Command, Spawned(d, e) PROVE FALSE
        <5>1. Launching(d) /\ cmd[d].execution = e /\ cmd'[d] = Absent
          BY <2>s, <4>3 DEF Spawned
        <5>2. d = c
          BY <3>2, <5>1 DEF Running
        <5>3. QED
          BY <3>1, <5>1, <5>2
      <4>4. Untouched(e)
        BY <2>e, <3>1, <4>2, <4>3
      <4>5. QED
        BY <3>1, <4>1, <4>4 DEF Untouched
    <3>3. CASE /\ StartRegisters(c) /\ executions[e] = Absent /\ e \notin terminal_executions
               /\ O!register_execution(Main, Home[cmd[c].tab], cmd[c].tab, cmd[c].session, e)
      <4>1. executions'[e] = JobOf(cmd[c].tab, cmd[c].session)
        BY <2>t, <3>1, <3>3 DEF O!register_execution, JobOf
      <4>2. bridge'[e] = Absent
        BY <2>n, <3>1, <3>3 DEF StartRegisters
      <4>3. QED
        BY <3>1, <4>1, <4>2
    <3>4. QED
      BY <2>2, <3>2, <3>3, LaunchersMove
  <2>3. ASSUME NEW c \in Command, NEW d \in Command, Launching(c)', Launching(d)',
               cmd'[c].execution = cmd'[d].execution
        PROVE  c = d
    <3>1. ASSUME NEW x \in Command, NEW y \in Command, x # y, Launching(x)', Launching(y)',
                 cmd'[x].execution = cmd'[y].execution,
                 executions[cmd'[x].execution] = Absent, cmd'[y] = cmd[y]
          PROVE  FALSE
      <4>1. Launching(y)
        BY <3>1 DEF Launching, At
      <4>2. QED
        BY <2>a, <3>1, <4>1
    <3>2. ASSUME NEW x \in Command, Launching(x)',
                 ~(Launching(x) /\ cmd'[x].execution = cmd[x].execution)
          PROVE  executions[cmd'[x].execution] = Absent /\ \A y \in Command \ {x} : cmd'[y] = cmd[y]
      BY <3>2, LaunchersMove
    <3>3. CASE /\ Launching(c) /\ cmd'[c].execution = cmd[c].execution
               /\ Launching(d) /\ cmd'[d].execution = cmd[d].execution
      BY <2>3, <3>3 DEF Running
    <3>4. CASE ~(Launching(c) /\ cmd'[c].execution = cmd[c].execution)
      BY <2>3, <3>1, <3>2, <3>4
    <3>5. CASE ~(Launching(d) /\ cmd'[d].execution = cmd[d].execution)
      BY <2>3, <3>1, <3>2, <3>5
    <3>6. QED
      BY <3>3, <3>4, <3>5
  <2>4. ASSUME NEW e \in Execution, bridge'[e] # Absent
        PROVE  executions'[e] # Absent \/ e \in terminal_executions'
    <3>1. ASSUME NEW c \in Command, Launched(c, e) PROVE FALSE
      BY <2>4, <2>n, <3>1 DEF Launched
    <3>2. ASSUME NEW c \in Command, Spawned(c, e) PROVE executions'[e] # Absent
      BY <2>a, <2>s, <3>2 DEF Spawned
    <3>3. CASE Untouched(e) \/ Ended(e)
      <4>1. executions[e] # Absent \/ e \in terminal_executions
        BY <2>4, <3>3 DEF Untouched, Ended, Running
      <4>2. QED
        BY <3>3, <4>1 DEF Untouched, Ended
    <3>4. QED
      BY <2>e, <3>1, <3>2, <3>3
  <2>5. ASSUME NEW e \in terminal_executions' PROVE executions'[e] = Absent
    <3>1. e \in Execution
      BY <1>x
    <3>2. CASE Untouched(e) \/ Ended(e)
      BY <2>5, <3>2 DEF Untouched, Ended, Running
    <3>3. ASSUME NEW c \in Command, Launched(c, e) PROVE FALSE
      BY <2>5, <3>3 DEF Launched
    <3>4. ASSUME NEW c \in Command, Spawned(c, e) PROVE executions'[e] = Absent
      BY <2>5, <3>4 DEF Spawned, Running
    <3>5. QED
      BY <2>e, <3>1, <3>2, <3>3, <3>4
  <2>6. ASSUME NEW e \in Execution, jobs'[e] # Absent
        PROVE  bridge'[e] # Absent /\ bridge'[e].at \in {"running", "remove"}
    <3>1. CASE Untouched(e) \/ Ended(e)
      BY <2>6, <3>1 DEF Untouched, Ended, Running
    <3>2. ASSUME NEW c \in Command, Launched(c, e)
          PROVE  bridge'[e] # Absent /\ bridge'[e].at \in {"running", "remove"}
      BY <2>6, <3>2 DEF Launched, Running
    <3>3. ASSUME NEW c \in Command, Spawned(c, e)
          PROVE  bridge'[e] # Absent /\ bridge'[e].at \in {"running", "remove"}
      BY <3>3 DEF Spawned
    <3>4. QED
      BY <2>6, <2>e, <3>1, <3>2, <3>3
  <2>7. QED
    BY <1>x, <2>1, <2>2, <2>3, <2>4, <2>5, <2>6 DEF Running
<1>3. QED
  BY <1>1, <1>2

-----------------------------------------------------------------------------
(* What holds of a run with no reload and no lost connection.               *)
CalmInv ==
  Undisturbed =>
    /\ Booted /\ Kindly /\ Linked /\ Named /\ Registered /\ Homed /\ Running
    /\ terminal_executions \subseteq Execution

CalmAll == LifeInv /\ AttemptsAreLive /\ ExecutionInv /\ Owns /\ CalmInv

LEMMA CalmHolds == Spec => []CalmAll
<1>1. Init => Owns /\ CalmInv
  <2> SUFFICES ASSUME Init PROVE Owns /\ CalmInv
    OBVIOUS
  <2>1. /\ \A c \in Command : cmd[c] = Absent
        /\ \A s \in Session : sessions[s] = Absent /\ native_sessions[s] = Absent
        /\ \A e \in Execution : executions[e] = Absent /\ bridge[e] = Absent /\ jobs[e] = Absent
        /\ terminal_executions = {}
        /\ page.generation = 0 /\ page.at = "loading" /\ page.connected = {} /\ connected = {}
        /\ \A t \in Tab : page.session[t] = Absent
    BY DEF Init, O!Init, NewPage
  <2>2. Owns
    BY DEF Init, O!Init, Owns
  <2>3. Booted /\ Kindly /\ Linked
    BY <2>1 DEF Booted, Empty, Kindly, Linked
  <2>4. Named /\ Registered
    BY <2>1 DEF Named, Registered, Inserting, Removing, Uses, At
  <2>5. Homed /\ Running /\ terminal_executions \subseteq Execution
    BY <2>1 DEF Homed, Running, Launching, At
  <2>6. QED
    BY <2>2, <2>3, <2>4, <2>5 DEF CalmInv
<1>2. CalmAll /\ LifeInv' /\ AttemptsAreLive' /\ ExecutionInv' /\ [Next]_vars => CalmAll'
  <2> SUFFICES ASSUME CalmAll, LifeInv', AttemptsAreLive', ExecutionInv', [Next]_vars
               PROVE  Owns' /\ CalmInv'
    BY DEF CalmAll
  <2>1. CASE UNCHANGED vars
    <3>1. Owns'
      BY <2>1 DEF vars, registry, CalmAll, Owns
    <3>2. Undisturbed' <=> Undisturbed
      BY <2>1 DEF vars, Undisturbed
    <3>3. Booted => Booted'
      BY <2>1 DEF vars, registry, runtime, Booted, Empty
    <3>4. Kindly /\ Linked /\ Homed => Kindly' /\ Linked' /\ Homed'
      BY <2>1 DEF vars, registry, runtime, Kindly, Linked, Homed
    <3>5. Named /\ Registered => Named' /\ Registered'
      BY <2>1 DEF vars, registry, runtime, Named, Registered, Inserting, Removing, Uses,
         At
    <3>6. Running => Running'
      BY <2>1 DEF vars, registry, runtime, Running, Launching, At
    <3>7. UNCHANGED terminal_executions
      BY <2>1 DEF vars, registry
    <3>8. QED
      BY <3>1, <3>2, <3>3, <3>4, <3>5, <3>6, <3>7 DEF CalmAll, CalmInv
  <2>2. CASE Next
    <3>0. LifeInv /\ AttemptsAreLive /\ Held /\ Held' /\ Issued /\ Generations /\ Owns
      BY DEF CalmAll, ExecutionInv
    <3>1. Owns'
      BY <2>2, <3>0, ExecutionsMove
    <3>2. ASSUME Undisturbed'
          PROVE  /\ Booted' /\ Kindly' /\ Linked' /\ Named' /\ Registered' /\ Homed' /\ Running'
                 /\ terminal_executions' \subseteq Execution
      <4>1. Undisturbed
        BY <2>2, <3>2 DEF Undisturbed, Next
      <4>2. Booted /\ Kindly /\ Linked /\ Named /\ Registered /\ Homed /\ Running
            /\ terminal_executions \subseteq Execution
        BY <4>1 DEF CalmAll, CalmInv
      <4>3. Booted' /\ Kindly'
        BY <2>2, <3>0, <4>1, <4>2, BootedKeeps, KindlyKeeps
      <4>4. Linked' /\ Homed'
        BY <2>2, <3>0, <4>1, <4>2, <4>3, LinkedKeeps, HomedKeeps
      <4>5. Named' /\ Registered'
        BY <2>2, <3>0, <4>1, <4>2, NamedKeeps, RegisteredKeeps
      <4>6. Running' /\ terminal_executions' \subseteq Execution
        BY <2>2, <3>0, <3>1, <4>1, <4>2, RunningKeeps
      <4>7. QED
        BY <4>3, <4>4, <4>5, <4>6
    <3>3. QED
      BY <3>1, <3>2 DEF CalmInv
  <2>3. QED
    BY <2>1, <2>2
<1>3. QED
  BY <1>1, <1>2, ExecutionInvHolds, PTL DEF Spec, CalmAll

(* However the commands interleave, without a reload or a lost connection   *)
(* the ownership graph, the runtime's registry of sessions and the page end *)
(* up holding the same: nothing is left that cannot be closed.              *)
THEOREM RegistriesEndInAgreement == Spec => []RegistriesAgree
<1>1. CalmAll => RegistriesAgree
  <2> SUFFICES ASSUME CalmAll, Undisturbed, AtRest
               PROVE  /\ \A s \in Session :
                           /\ native_sessions[s] # Absent <=> sessions[s] # Absent
                           /\ sessions[s] # Absent => sessions[s].tab = native_sessions[s]
                      /\ \A e \in Execution : executions[e] = Absent /\ jobs[e] = Absent
                      /\ page.connected = connected
                      /\ \A t \in Tab : page.session[t] # Absent
                           => native_sessions[page.session[t]] = t
    BY DEF RegistriesAgree, RegistriesMatch, PageMatches
  <2>1. Linked /\ Named /\ Registered /\ Running /\ LifeInv
    BY DEF CalmAll, CalmInv
  <2>2. \A c \in Command : ~Inserting(c) /\ ~Removing(c) /\ ~Launching(c)
    BY DEF AtRest, Inserting, Removing, Launching, At
  <2>3. ASSUME NEW s \in Session, sessions[s] # Absent
        PROVE  sessions[s].tab = native_sessions[s] /\ native_sessions[s] # Absent
    <3>1. sessions[s].tab \in Tab /\ Absent \notin Tab
      BY <2>1, <2>3, LifecycleAssumption DEF LifeInv, Typed, O!SessionOwner
    <3>2. QED
      BY <2>1, <2>2, <2>3, <3>1 DEF Registered
  <2>4. \A s \in Session : native_sessions[s] # Absent => sessions[s] # Absent
    BY <2>1, <2>2 DEF Registered
  <2>5. \A e \in Execution : executions[e] = Absent /\ jobs[e] = Absent
    BY <2>1, <2>2 DEF Running, AtRest
  <2>6. QED
    BY <2>1, <2>3, <2>4, <2>5 DEF Linked, Named
<1>2. QED
  BY <1>1, CalmHolds, PTL
=============================================================================
