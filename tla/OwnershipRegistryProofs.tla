---------------------- MODULE OwnershipRegistryProofs ----------------------
(* Proofs about OwnershipRegistry for every set of windows, profiles,      *)
(* tabs, sessions and executions.                                          *)
EXTENDS OwnershipRegistry, TLAPS

(* Every method keeps every table typed: no window, profile, tab or        *)
(* session that was never registered appears as an owner.                  *)
THEOREM TypeCorrect == Spec => []TypeOK
<1>1. Init => TypeOK
  BY DEF Init, TypeOK
<1>2. TypeOK /\ [Next]_vars => TypeOK'
  <2> SUFFICES ASSUME TypeOK, [Next]_vars
               PROVE  TypeOK'
    OBVIOUS
  <2> USE DEF TypeOK
  <2>1. ASSUME NEW w \in Window, NEW p \in Profile, register_profile(w, p)
        PROVE  TypeOK'
    BY <2>1 DEF register_profile
  <2>2. ASSUME NEW w \in Window, NEW p \in Profile \cup {NoProfile},
               NEW t \in Tab, register_tab(w, p, t)
        PROVE  TypeOK'
    BY <2>2 DEF register_tab, TabOwner
  <2>3. ASSUME NEW w \in Window, NEW p \in Profile, NEW t \in Tab,
               NEW s \in Session, register_session(w, p, t, s)
        PROVE  TypeOK'
    BY <2>3 DEF register_session, SessionOwner
  <2>4. ASSUME NEW w \in Window, NEW p \in Profile, NEW t \in Tab,
               NEW s \in Session, NEW e \in Execution,
               register_execution(w, p, t, s, e)
        PROVE  TypeOK'
    BY <2>4 DEF register_execution, ExecutionOwner
  <2>5. ASSUME NEW w \in Window, NEW t \in Tab, unregister_tab(w, t)
        PROVE  TypeOK'
    BY <2>5 DEF unregister_tab
  <2>6. ASSUME NEW w \in Window, NEW p \in Profile, NEW t \in Tab,
               NEW s \in Session, unregister_session(w, p, t, s)
        PROVE  TypeOK'
    BY <2>6 DEF unregister_session
  <2>7. ASSUME NEW w \in Window, NEW p \in Profile, NEW t \in Tab,
               NEW s \in Session, NEW e \in Execution,
               mark_execution_terminal(w, p, t, s, e)
        PROVE  TypeOK'
    BY <2>7 DEF mark_execution_terminal
  <2>8. ASSUME NEW w \in Window, cleanup_window(w)
        PROVE  TypeOK'
    BY <2>8 DEF cleanup_window, Owned
  <2>9. ASSUME NEW p \in Profile, NEW retained_tabs \in SUBSET Tab,
               unregister_profile(p, retained_tabs)
        PROVE  TypeOK'
    <3>1. ASSUME NEW t \in profile_tab_ids(p)
          PROVE  [tabs[t] EXCEPT !.profile = NoProfile] \in TabOwner
      <4>1. tabs[t] \in TabOwner
        BY <3>1 DEF profile_tab_ids
      <4>2. QED
        BY <4>1 DEF TabOwner
    <3>2. tabs' \in [Tab -> TabOwner \cup {Absent}]
      BY <2>9, <3>1 DEF unregister_profile
    <3>3. QED
      BY <2>9, <3>2 DEF unregister_profile
  <2>10. CASE UNCHANGED vars
    BY <2>10 DEF vars
  <2>11. QED
    BY <2>1, <2>2, <2>3, <2>4, <2>5, <2>6, <2>7, <2>8, <2>9, <2>10
       DEF Next, Register, Release
<1>3. QED
  BY <1>1, <1>2, PTL DEF Spec

-----------------------------------------------------------------------------
(* The window/profile/tab/session chain is never broken, whatever the      *)
(* interleaving of registrations, releases, deletions and reloads.  With   *)
(* the types it is inductive: a release is refused while something hangs   *)
(* on the resource, and cleanup_window takes the whole chain of a window.  *)
ChainInv == TypeOK /\ OwnershipChain

LEMMA ChainInductive == ASSUME ChainInv, TypeOK', [Next]_vars
                        PROVE  OwnershipChain'
<1> USE OwnershipAssumption DEF ChainInv, TypeOK, OwnershipChain
<1> USE DEF ExecutionChain, SessionChain, TabChain
<1> USE DEF authorize_session, authorize_tab, authorize_profile
<1>1. ASSUME NEW w \in Window, NEW p \in Profile,
             profiles[p] = Absent, register_profile(w, p)
      PROVE  OwnershipChain'
  BY <1>1 DEF register_profile, TabOwner
<1>2. ASSUME NEW w \in Window, NEW p \in Profile \cup {NoProfile},
             NEW t \in Tab, tabs[t] = Absent, register_tab(w, p, t)
      PROVE  OwnershipChain'
  BY <1>2 DEF register_tab, TabOwner, SessionOwner
<1>3. ASSUME NEW w \in Window, NEW p \in Profile, NEW t \in Tab,
             NEW s \in Session, sessions[s] = Absent, register_session(w, p, t, s)
      PROVE  OwnershipChain'
  BY <1>3 DEF register_session, SessionOwner, ExecutionOwner
<1>4. ASSUME NEW w \in Window, NEW p \in Profile, NEW t \in Tab,
             NEW s \in Session, NEW e \in Execution,
             register_execution(w, p, t, s, e)
      PROVE  OwnershipChain'
  BY <1>4 DEF register_execution, ExecutionOwner
<1>5. ASSUME NEW w \in Window, NEW t \in Tab, unregister_tab(w, t)
      PROVE  OwnershipChain'
  BY <1>5 DEF unregister_tab, TabInUse, SessionOwner, TabOwner
<1>6. ASSUME NEW w \in Window, NEW p \in Profile, NEW t \in Tab,
             NEW s \in Session, unregister_session(w, p, t, s)
      PROVE  OwnershipChain'
  BY <1>6 DEF unregister_session, SessionInUse, SessionOwner, ExecutionOwner
<1>7. ASSUME NEW w \in Window, NEW p \in Profile, NEW t \in Tab,
             NEW s \in Session, NEW e \in Execution,
             mark_execution_terminal(w, p, t, s, e)
      PROVE  OwnershipChain'
  BY <1>7 DEF mark_execution_terminal
<1>8. ASSUME NEW w \in Window, cleanup_window(w)
      PROVE  OwnershipChain'
  BY <1>8 DEF cleanup_window, Owned, TabOwner, SessionOwner, ExecutionOwner
<1>9. ASSUME NEW p \in Profile, NEW retained_tabs \in SUBSET Tab,
             unregister_profile(p, retained_tabs)
      PROVE  OwnershipChain'
  <2>1. ExecutionChain'
    BY <1>9 DEF unregister_profile
  <2>2. SessionChain'
    <3> SUFFICES ASSUME NEW s \in Session, sessions[s] # Absent
                 PROVE  tabs'[sessions[s].tab] = tabs[sessions[s].tab]
      BY <1>9 DEF unregister_profile
    <3>1. sessions[s] \in SessionOwner /\ sessions[s].profile # p
      BY <1>9 DEF unregister_profile, has_active_profile_resources
    <3>2. sessions[s].tab \notin profile_tab_ids(p)
      <4>1. authorize_tab(sessions[s].window, sessions[s].profile, sessions[s].tab)
        OBVIOUS
      <4>2. tabs[sessions[s].tab].profile = sessions[s].profile
        BY <4>1
      <4>3. QED
        BY <3>1, <4>2 DEF profile_tab_ids
    <3>3. QED
      BY <1>9, <3>1, <3>2 DEF unregister_profile, SessionOwner
  <2>3. TabChain'
    <3> SUFFICES ASSUME NEW t \in Tab, tabs'[t] # Absent, tabs'[t].profile # NoProfile
                 PROVE  profiles'[tabs'[t].profile] = tabs'[t].window
      OBVIOUS
    <3>1. t \notin profile_tab_ids(p)
      <4>1. CASE t \in profile_tab_ids(p) /\ t \in retained_tabs
        <5>1. tabs[t] \in TabOwner /\ tabs'[t] = [tabs[t] EXCEPT !.profile = NoProfile]
          BY <1>9, <4>1 DEF unregister_profile, profile_tab_ids
        <5>2. tabs'[t].profile = NoProfile
          BY <5>1 DEF TabOwner
        <5>3. QED
          BY <5>2
      <4>2. CASE t \in profile_tab_ids(p) /\ t \notin retained_tabs
        BY <1>9, <4>2 DEF unregister_profile
      <4>3. QED
        BY <4>1, <4>2
    <3>2. tabs'[t] = tabs[t] /\ tabs[t] \in TabOwner
      BY <1>9, <3>1 DEF unregister_profile
    <3>3. tabs[t].profile # p
      BY <3>1, <3>2 DEF profile_tab_ids
    <3>4. QED
      BY <1>9, <3>2, <3>3 DEF unregister_profile, TabOwner
  <2>4. QED
    BY <2>1, <2>2, <2>3
<1>10. CASE UNCHANGED vars
  BY <1>10 DEF vars
<1>11. QED
  BY <1>1, <1>2, <1>3, <1>4, <1>5, <1>6, <1>7, <1>8, <1>9, <1>10
     DEF Next, Register, Release

THEOREM OwnershipChainHolds == Spec => []OwnershipChain
<1>1. Init => OwnershipChain
  BY DEF Init, OwnershipChain, ExecutionChain, SessionChain, TabChain
<1>2. TypeOK /\ TypeOK' /\ OwnershipChain /\ [Next]_vars => OwnershipChain'
  BY ChainInductive DEF ChainInv
<1>3. QED
  BY <1>1, <1>2, TypeCorrect, PTL DEF Spec

-----------------------------------------------------------------------------
(* No execution is terminal and live at once, whatever the order in which  *)
(* its last event, a release and a reload arrive.                          *)
THEOREM TerminalExecutionsStayDead == Spec => []TerminalIsNotLive
<1>1. Init => TerminalIsNotLive
  BY DEF Init, TerminalIsNotLive
<1>2. TypeOK /\ TerminalIsNotLive /\ [Next]_vars => TerminalIsNotLive'
  <2> SUFFICES ASSUME TypeOK, TerminalIsNotLive, [Next]_vars
               PROVE  TerminalIsNotLive'
    OBVIOUS
  <2> USE DEF TypeOK, TerminalIsNotLive
  <2>1. ASSUME NEW w \in Window, NEW p \in Profile, NEW t \in Tab,
               NEW s \in Session, NEW e \in Execution,
               e \notin terminal_executions, register_execution(w, p, t, s, e)
        PROVE  TerminalIsNotLive'
    BY <2>1 DEF register_execution
  <2>2. ASSUME NEW w \in Window, NEW p \in Profile, NEW t \in Tab,
               NEW s \in Session, NEW e \in Execution,
               mark_execution_terminal(w, p, t, s, e)
        PROVE  TerminalIsNotLive'
    BY <2>2 DEF mark_execution_terminal
  <2>3. ASSUME NEW w \in Window, cleanup_window(w)
        PROVE  TerminalIsNotLive'
    BY <2>3 DEF cleanup_window, Owned
  <2>4. CASE UNCHANGED <<executions, terminal_executions>>
    BY <2>4
  <2>5. QED
    BY <2>1, <2>2, <2>3, <2>4
       DEF Next, Register, Release, vars, register_profile, register_tab,
           register_session, unregister_tab, unregister_session, unregister_profile
<1>3. QED
  BY <1>1, <1>2, TypeCorrect, PTL DEF Spec

(* An execution never disappears without being recorded as terminal.       *)
THEOREM NoExecutionVanishes == Spec => ExecutionsEndTerminal
<1> DEFINE Ends ==
      /\ terminal_executions \subseteq terminal_executions'
      /\ \A e \in Execution :
           executions[e] # Absent /\ executions'[e] = Absent
             => e \in terminal_executions'
<1>1. TypeOK /\ [Next]_vars => [Ends]_vars
  <2> SUFFICES ASSUME TypeOK, Next
               PROVE  Ends
    OBVIOUS
  <2> USE OwnershipAssumption DEF TypeOK
  <2>1. ASSUME NEW w \in Window, NEW p \in Profile, NEW t \in Tab,
               NEW s \in Session, NEW e \in Execution,
               register_execution(w, p, t, s, e)
        PROVE  Ends
    BY <2>1 DEF register_execution, ExecutionOwner
  <2>2. ASSUME NEW w \in Window, NEW p \in Profile, NEW t \in Tab,
               NEW s \in Session, NEW e \in Execution,
               mark_execution_terminal(w, p, t, s, e)
        PROVE  Ends
    BY <2>2 DEF mark_execution_terminal
  <2>3. ASSUME NEW w \in Window, cleanup_window(w)
        PROVE  Ends
    BY <2>3 DEF cleanup_window, Owned
  <2>4. CASE UNCHANGED <<executions, terminal_executions>>
    BY <2>4
  <2>5. QED
    BY <2>1, <2>2, <2>3, <2>4
       DEF Next, Register, Release, register_profile, register_tab,
           register_session, unregister_tab, unregister_session, unregister_profile
<1>2. QED
  BY <1>1, TypeCorrect, PTL DEF Spec, ExecutionsEndTerminal

-----------------------------------------------------------------------------
(* What a step changes belongs to one window before and after it.          *)
Within(w) ==
  /\ \A t \in Tab : tabs'[t] # tabs[t] =>
       /\ tabs[t] # Absent => tabs[t].window = w
       /\ tabs'[t] # Absent => tabs'[t].window = w
  /\ \A s \in Session : sessions'[s] # sessions[s] =>
       /\ sessions[s] # Absent => sessions[s].window = w
       /\ sessions'[s] # Absent => sessions'[s].window = w
  /\ \A e \in Execution : executions'[e] # executions[e] =>
       /\ executions[e] # Absent => executions[e].window = w
       /\ executions'[e] # Absent => executions'[e].window = w

LEMMA WithinOne == ASSUME NEW w, Within(w) PROVE \A u, v \in Touched : u = v
<1>1. ASSUME NEW u \in Touched PROVE u = w
  <2>1. CASE \E t \in Tab : tabs'[t] # tabs[t] /\ u \in WindowOf(tabs[t]) \cup WindowOf(tabs'[t])
    BY <2>1 DEF WindowOf, Within
  <2>2. CASE \E s \in Session :
               sessions'[s] # sessions[s] /\ u \in WindowOf(sessions[s]) \cup WindowOf(sessions'[s])
    BY <2>2 DEF WindowOf, Within
  <2>3. CASE \E e \in Execution :
               /\ executions'[e] # executions[e]
               /\ u \in WindowOf(executions[e]) \cup WindowOf(executions'[e])
    BY <2>3 DEF WindowOf, Within
  <2>4. QED
    BY <1>1, <2>1, <2>2, <2>3 DEF Touched
<1>2. QED
  BY <1>1

(* A step takes nothing from, and gives nothing to, a second window.  Only  *)
(* unregister_profile names no window: that all the tabs it rebinds are of  *)
(* one window is the chain, by which they are of the profile's window.      *)
THEOREM WindowsAreIsolated == Spec => WindowIsolation
<1>1. ChainInv /\ [Next]_vars => [\A v, w \in Touched : v = w]_vars
  <2> SUFFICES ASSUME ChainInv, Next
               PROVE  \A v, w \in Touched : v = w
    OBVIOUS
  <2> USE OwnershipAssumption DEF ChainInv, TypeOK, Within
  <2>1. ASSUME NEW w \in Window, NEW p \in Profile, register_profile(w, p) PROVE Within(w)
    BY <2>1 DEF register_profile
  <2>2. ASSUME NEW w \in Window, NEW p \in Profile \cup {NoProfile}, NEW t \in Tab,
               tabs[t] = Absent, register_tab(w, p, t)
        PROVE  Within(w)
    BY <2>2 DEF register_tab
  <2>3. ASSUME NEW w \in Window, NEW p \in Profile, NEW t \in Tab, NEW s \in Session,
               sessions[s] = Absent, register_session(w, p, t, s)
        PROVE  Within(w)
    BY <2>3 DEF register_session
  <2>4. ASSUME NEW w \in Window, NEW p \in Profile, NEW t \in Tab, NEW s \in Session,
               NEW e \in Execution, executions[e] = Absent, register_execution(w, p, t, s, e)
        PROVE  Within(w)
    BY <2>4 DEF register_execution
  <2>5. ASSUME NEW w \in Window, NEW t \in Tab, unregister_tab(w, t) PROVE Within(w)
    BY <2>5 DEF unregister_tab
  <2>6. ASSUME NEW w \in Window, NEW p \in Profile, NEW t \in Tab, NEW s \in Session,
               unregister_session(w, p, t, s)
        PROVE  Within(w)
    BY <2>6 DEF unregister_session, authorize_session
  <2>7. ASSUME NEW w \in Window, NEW p \in Profile, NEW t \in Tab, NEW s \in Session,
               NEW e \in Execution, mark_execution_terminal(w, p, t, s, e)
        PROVE  Within(w)
    BY <2>7 DEF mark_execution_terminal, authorize_execution
  <2>8. ASSUME NEW w \in Window, cleanup_window(w) PROVE Within(w)
    BY <2>8 DEF cleanup_window, Owned
  <2>9. ASSUME NEW p \in Profile, NEW retained_tabs \in SUBSET Tab,
               unregister_profile(p, retained_tabs)
        PROVE  Within(profiles[p])
    <3>1. ASSUME NEW t \in profile_tab_ids(p)
          PROVE  /\ tabs[t].window = profiles[p]
                 /\ tabs'[t] # Absent => tabs'[t].window = profiles[p]
      <4>1. tabs[t] \in TabOwner /\ tabs[t].profile = p /\ t \in Tab
        BY <3>1 DEF profile_tab_ids
      <4>2. tabs[t].window = profiles[p]
        BY <4>1 DEF OwnershipChain, TabChain, authorize_profile
      <4>3. tabs'[t] # Absent => tabs'[t] = [tabs[t] EXCEPT !.profile = NoProfile]
        BY <2>9, <3>1, <4>1 DEF unregister_profile
      <4>4. QED
        BY <4>1, <4>2, <4>3 DEF TabOwner
    <3>2. ASSUME NEW t \in Tab \ profile_tab_ids(p) PROVE tabs'[t] = tabs[t]
      BY <2>9, <3>2 DEF unregister_profile
    <3>3. QED
      BY <2>9, <3>1, <3>2 DEF unregister_profile
  <2>10. QED
    BY <2>1, <2>2, <2>3, <2>4, <2>5, <2>6, <2>7, <2>8, <2>9, WithinOne
       DEF Next, Register, Release
<1>2. QED
  BY <1>1, TypeCorrect, OwnershipChainHolds, PTL DEF Spec, WindowIsolation, ChainInv
=============================================================================
