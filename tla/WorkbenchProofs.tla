-------------------------- MODULE WorkbenchProofs ---------------------------
(* Proofs about Workbench for any number of checks, commands, connections,  *)
(* contexts and reloads, and whatever a setting lets a behaviour meet.      *)
EXTENDS Workbench, SequenceTheorems, TLAPS

Connection == [up : BOOLEAN, context : Context, automatic : BOOLEAN,
               certainty : {"clean", "active", "unknown"}]

Resource == [session : Nat, conn : Nat, context : Context]

(* A change of the context names one, a change of the mode too.             *)
Sent == /\ cmd = [c \in Command |-> cmd[c]]
        /\ \A c \in Command : /\ At(c, "context") => cmd[c].arg \in Context
                              /\ At(c, "mode") => cmd[c].arg \in BOOLEAN

Typed ==
  /\ connected \in Connected \cup {Absent}
  /\ generations \in Nat /\ minted \in Nat
  /\ connected # Absent => connected.generation <= generations
  /\ native \in Seq(Connection)
  /\ resource \in Resource \cup {Absent}
  /\ attempt \in Check \cup {Absent}
  /\ check \in [Check -> CheckRow \cup {Absent}]
  /\ Sent

(* A session is the one issued last or an older one, on a connection that   *)
(* was opened, of a profile that is connected.                              *)
Owned == resource # Absent => /\ connected # Absent
                              /\ resource.session <= minted
                              /\ resource.conn \in DOMAIN native

Inside == {"session", "ping", "reopening", "replacing"}

(* The check has the session of the tab in hand.                            *)
Concerns(k) == /\ check[k] # Absent /\ check[k].at \in Inside
               /\ resource # Absent /\ check[k].session = resource.session

(* What a check still knows of the session it cloned, however long ago.  A  *)
(* cancelled check is one of an earlier connection.                         *)
Knows(k) ==
  /\ check[k].generation <= generations
  /\ health_generation_is_current(k) => check[k].cancel = "no"
  /\ check[k].at \in Inside =>
       /\ check[k].session \in Nat /\ check[k].session <= minted
       /\ check[k].conn \in DOMAIN native /\ check[k].context \in Context
  /\ check[k].at = "reopening" => check[k].automatic \in BOOLEAN
  /\ check[k].at = "replacing" => check[k].new \in DOMAIN native
  /\ check[k].at \in {"reopening", "replacing"} /\ ~setting.timeouts =>
       ~native[check[k].conn].up /\ native[check[k].conn].certainty = "clean"
  /\ Concerns(k) =>
       /\ check[k].cancel = "no" /\ check[k].generation = connected.generation
       /\ check[k].conn = resource.conn

HealthInv ==
  /\ Typed /\ Owned /\ OneLiveCheck
  /\ \A k \in Check : check[k] # Absent => Knows(k)

-----------------------------------------------------------------------------
(* The connections.  Nothing brings a lost one back, and what was in doubt  *)
(* when it went, or was not, stays so.                                      *)
Grows ==
  /\ native' \in Seq(Connection)
  /\ DOMAIN native \subseteq DOMAIN native'
  /\ \A i \in DOMAIN native :
       ~native[i].up => ~native'[i].up /\ native'[i].certainty = native[i].certainty

LEMMA NativeSame == ASSUME native \in Seq(Connection), UNCHANGED native PROVE Grows
  BY DEF Grows

LEMMA NativeSet == ASSUME native \in Seq(Connection), NEW i, NEW r,
                          i \in DOMAIN native => /\ r \in Connection
                                                 /\ ~native[i].up => ~r.up /\ r.certainty = native[i].certainty,
                          native' = [native EXCEPT ![i] = r]
                   PROVE  Grows
<1>1. CASE i \in DOMAIN native
  <2>1. i \in 1..Len(native) /\ DOMAIN native = 1..Len(native)
    BY <1>1, LenProperties
  <2>2. native' \in Seq(Connection) /\ DOMAIN native' = DOMAIN native
    BY <1>1, <2>1, ExceptSeq
  <2>3. QED
    BY <1>1, <2>2 DEF Grows
<1>2. CASE i \notin DOMAIN native
  <2>1. native = [x \in DOMAIN native |-> native[x]]
    BY LenProperties
  <2>2. native' = native
    BY <1>2, <2>1
  <2>3. QED
    BY <2>2, NativeSame
<1>3. QED
  BY <1>1, <1>2

LEMMA NativeOpened == ASSUME native \in Seq(Connection), NEW r \in Connection,
                             native' = Append(native, r)
                      PROVE  Grows /\ Len(native) + 1 \in DOMAIN native'
<1>1. /\ native' \in Seq(Connection) /\ Len(native') = Len(native) + 1
      /\ \A i \in 1..Len(native) : native'[i] = native[i]
  BY AppendProperties
<1>2. Len(native) \in Nat /\ DOMAIN native = 1..Len(native) /\ DOMAIN native' = 1..(Len(native) + 1)
  BY <1>1, LenProperties
<1>3. QED
  BY <1>1, <1>2 DEF Grows

LEMMA FreshIsOne == Fresh \in Connection
  BY WorkbenchAssumption DEF Fresh, Connection

(* No step brings a lost connection back or changes its certainty.          *)
LEMMA NativeGrows == ASSUME HealthInv, [Next]_vars PROVE Grows
<1> USE DEF HealthInv, Typed
<1>s. \A i \in DOMAIN native : native[i] \in Connection
  BY ElementOfSeq, LenProperties
<1>1. CASE UNCHANGED native
  BY <1>1, NativeSame
<1>2. CASE open_tab_session
  BY <1>2, FreshIsOne, NativeOpened DEF open_tab_session
<1>3. CASE Jobs
  <2>1. ASSUME NEW j \in jobs, JobEnds(j) PROVE Grows
    <3>1. PICK certainty \in Leaves(j) :
            native' = [native EXCEPT ![j.conn].certainty = certainty] /\ native[j.conn].up
      BY <2>1 DEF JobEnds
    <3> DEFINE r == [native[j.conn] EXCEPT !.certainty = certainty]
    <3>2. j.conn \in DOMAIN native => r \in Connection /\ r.up
      BY <1>s, <3>1 DEF Leaves, Connection
    <3>3. native' = [native EXCEPT ![j.conn] = r]
      BY <3>1
    <3> HIDE DEF r
    <3>4. QED
      BY <3>1, <3>2, <3>3, NativeSet
  <2>2. QED
    BY <1>1, <1>3, <2>1 DEF Jobs, JobLost
<1>4. CASE SessionCommands
  <2>1. ASSUME NEW c \in Command, ContextConfirmed(c) \/ ContextUnconfirmed(c) PROVE Grows
    <3>1. /\ native' = [native EXCEPT ![cmd[c].conn].context = cmd[c].arg]
          /\ native[cmd[c].conn].up /\ cmd[c].arg \in Context
      BY <2>1 DEF ContextConfirmed, ContextUnconfirmed, Up, Sent
    <3> DEFINE i == cmd[c].conn  r == [native[i] EXCEPT !.context = cmd[c].arg]
    <3>2. i \in DOMAIN native => r \in Connection /\ r.up
      BY <1>s, <3>1 DEF Connection
    <3>3. native' = [native EXCEPT ![i] = r]
      BY <3>1
    <3>h. native[i].up
      BY <3>1
    <3> HIDE DEF r, i
    <3>4. QED
      BY <3>h, <3>2, <3>3, NativeSet
  <2>2. ASSUME NEW c \in Command, ModeSet(c) PROVE Grows
    <3>1. PICK automatic \in BOOLEAN : native' = [native EXCEPT ![cmd[c].conn].automatic = automatic]
      BY <2>2 DEF ModeSet, Sent
    <3> DEFINE i == cmd[c].conn  r == [native[i] EXCEPT !.automatic = automatic]
    <3>2. i \in DOMAIN native =>
            r \in Connection /\ r.up = native[i].up /\ r.certainty = native[i].certainty
      BY <1>s DEF Connection
    <3>3. native' = [native EXCEPT ![i] = r]
      BY <3>1
    <3> HIDE DEF r, i
    <3>4. QED
      BY <3>2, <3>3, NativeSet
  <2>3. ASSUME NEW c \in Command, TransactionEnded(c) PROVE Grows
    <3>1. native' = [native EXCEPT ![cmd[c].conn].certainty = "clean"] /\ native[cmd[c].conn].up
      BY <2>3 DEF TransactionEnded, Up
    <3> DEFINE i == cmd[c].conn  r == [native[i] EXCEPT !.certainty = "clean"]
    <3>2. i \in DOMAIN native => r \in Connection /\ r.up
      BY <1>s, <3>1 DEF Connection
    <3>3. native' = [native EXCEPT ![i] = r]
      BY <3>1
    <3>h. native[i].up
      BY <3>1
    <3> HIDE DEF r, i
    <3>4. QED
      BY <3>h, <3>2, <3>3, NativeSet
  <2>4. QED
    BY <1>1, <1>4, <2>1, <2>2, <2>3
       DEF SessionCommands, change_tab_context, set_transaction_mode, commit_or_rollback,
           LostUnder, FailsOtherwise
<1>5. CASE TableCommands
  <2>1. ASSUME NEW c \in Command, BatchEnds(c) PROVE Grows
    <3>1. PICK certainty \in {"clean", "unknown"} :
            native' = [native EXCEPT ![cmd[c].conn].certainty = certainty] /\ native[cmd[c].conn].up
      BY <2>1 DEF BatchEnds, Up
    <3> DEFINE i == cmd[c].conn  r == [native[i] EXCEPT !.certainty = certainty]
    <3>2. i \in DOMAIN native => r \in Connection /\ r.up
      BY <1>s, <3>1 DEF Connection
    <3>3. native' = [native EXCEPT ![i] = r]
      BY <3>1
    <3>h. native[i].up
      BY <3>1
    <3> HIDE DEF r, i
    <3>4. QED
      BY <3>h, <3>2, <3>3, NativeSet
  <2>2. QED
    BY <1>1, <1>5, <2>1
       DEF TableCommands, preview_table_mutations, PlanKept, apply_table_mutations,
           discard_mutation_plan, load_schema, registries
<1>6. CASE Health
  <2>1. ASSUME NEW k \in Check, ReopenSession(k), ~ UNCHANGED native PROVE Grows
    <3> DEFINE r == [Fresh EXCEPT !.context = check[k].context, !.automatic = check[k].automatic]
    <3>1. native' = Append(native, r)
      BY <2>1 DEF ReopenSession
    <3>2. r \in Connection
      BY <2>1, FreshIsOne DEF ReopenSession, Polled, Knows, Inside, Fresh, Connection
    <3> HIDE DEF r
    <3>3. QED
      BY <3>1, <3>2, NativeOpened
  <2>2. QED
    BY <1>1, <1>6, <2>1
       DEF Health, begin_connection_attempt, check_profile_health, CheckCancelled, PingMetadata,
           ReopenMetadata, CloneSessions, SkipInUse, PingOk, PingFails, ReplaceSession
<1>7. CASE LoseSession
  <2>1. native' = [native EXCEPT ![resource.conn].up = FALSE]
    BY <1>7 DEF LoseSession
  <2> DEFINE i == resource.conn  r == [native[i] EXCEPT !.up = FALSE]
  <2>2. i \in DOMAIN native => r \in Connection /\ ~r.up /\ r.certainty = native[i].certainty
    BY <1>s DEF Connection
  <2>3. native' = [native EXCEPT ![i] = r]
    BY <2>1
  <2> HIDE DEF r, i
  <2>4. QED
    BY <2>2, <2>3, NativeSet
<1>8. CASE connect_profile \/ disconnect_profile \/ close_tab_session \/ LoseMetadata
           \/ start_execution \/ start_explain \/ cleanup \/ UNCHANGED vars
  BY <1>1, <1>8 DEF connect_profile, disconnect_profile, close_tab_session, LoseMetadata,
                    start_execution, start_explain, cleanup, vars
<1>9. QED
  BY <1>2, <1>3, <1>4, <1>5, <1>6, <1>7, <1>8 DEF Next, Step

(* A command keeps the argument it was sent with.                           *)
LEMMA CommandsSent == ASSUME Sent, [Next]_vars PROVE Sent'
<1>1. CASE UNCHANGED cmd
  BY <1>1 DEF Sent, At, Free
<1>2. ASSUME NEW c \in Command, Answer(c) PROVE Sent'
  BY <1>2 DEF Answer, Sent, At, Free
<1>3. ASSUME NEW c \in Command, NEW request, Send(c, request),
             request.op = "context" => request.arg \in Context,
             request.op = "mode" => request.arg \in BOOLEAN
      PROVE  Sent'
  BY <1>3 DEF Send, Sent, At, Free
<1>4. CASE SessionCommands
  <2>1. PICK c \in Command :
          \/ change_tab_context(c) \/ ContextConfirmed(c) \/ ContextUnconfirmed(c)
          \/ set_transaction_mode(c) \/ ModeSet(c)
          \/ commit_or_rollback(c) \/ TransactionEnded(c)
          \/ LostUnder(c) \/ FailsOtherwise(c)
    BY <1>4 DEF SessionCommands
  <2>2. CASE change_tab_context(c)
    BY <1>3, <2>2 DEF change_tab_context, Request
  <2>3. CASE set_transaction_mode(c)
    BY <1>3, <2>3 DEF set_transaction_mode, Request
  <2>4. CASE commit_or_rollback(c)
    BY <1>3, <2>4 DEF commit_or_rollback, Request
  <2>5. CASE \/ ContextConfirmed(c) \/ ContextUnconfirmed(c) \/ ModeSet(c)
             \/ TransactionEnded(c) \/ LostUnder(c) \/ FailsOtherwise(c)
    BY <1>2, <2>5 DEF ContextConfirmed, ContextUnconfirmed, ModeSet, TransactionEnded, LostUnder,
                      FailsOtherwise
  <2>6. QED
    BY <2>1, <2>2, <2>3, <2>4, <2>5
<1>5. CASE TableCommands
  <2>1. ASSUME NEW c \in Command, preview_table_mutations(c) \/ apply_table_mutations(c)
        PROVE  Sent'
    BY <1>3, <2>1 DEF preview_table_mutations, apply_table_mutations, Request
  <2>2. QED
    BY <1>1, <1>2, <1>5, <2>1 DEF TableCommands, PlanKept, BatchEnds, discard_mutation_plan,
                                  load_schema
<1>6. CASE Health
  BY <1>1, <1>6 DEF Health, begin_connection_attempt, check_profile_health, CheckCancelled,
                    PingMetadata, ReopenMetadata, CloneSessions, SkipInUse, PingOk, PingFails,
                    ReopenSession, ReplaceSession, HealthKeeps
<1>7. CASE \/ connect_profile \/ disconnect_profile \/ open_tab_session \/ close_tab_session
           \/ start_execution \/ start_explain \/ Jobs \/ LoseSession \/ LoseMetadata
           \/ cleanup \/ UNCHANGED vars
  BY <1>1, <1>7 DEF connect_profile, disconnect_profile, open_tab_session, close_tab_session,
                    start_execution, start_explain, Jobs, JobEnds, JobLost, LoseSession,
                    LoseMetadata, cleanup, vars
<1>8. QED
  BY <1>4, <1>5, <1>6, <1>7 DEF Next, Step

-----------------------------------------------------------------------------
(* A step that leaves checks alone keeps what they know: the session may    *)
(* end, or change its context, but keeps its connection.                    *)
Quiet ==
  /\ UNCHANGED <<check, attempt>>
  /\ connected' \in Connected \cup {Absent}
  /\ resource # Absent => connected' # Absent /\ connected'.generation = connected.generation
  /\ generations' \in Nat /\ generations <= generations' /\ minted' = minted
  /\ connected' # Absent => \/ /\ connected # Absent
                               /\ connected'.generation = connected.generation
                            \/ connected'.generation \in (generations + 1) .. generations'
  /\ resource' # Absent => /\ resource # Absent /\ resource' \in Resource
                           /\ resource'.session = resource.session
                           /\ resource'.conn = resource.conn

(* A step that leaves checks, attempts and sessions as they are.            *)
LEMMA QuietKeeps == ASSUME HealthInv, Quiet, Grows, Sent', setting' = setting PROVE HealthInv'
<1> USE DEF HealthInv, Quiet
<1>1. Typed'
  <2>1. connected' # Absent => connected'.generation <= generations'
    BY DEF Typed, Connected
  <2>2. QED
    BY <2>1 DEF Typed, Grows
<1>2. Owned'
  BY DEF Owned, Grows
<1>3. OneLiveCheck'
  BY DEF OneLiveCheck
<1>4. ASSUME NEW k \in Check, check'[k] # Absent PROVE Knows(k)'
  <2>1. Knows(k)
    BY <1>4
  <2>2. Concerns(k)' => Concerns(k)
    BY DEF Concerns
  <2>3. check[k] \in CheckRow
    BY <1>4 DEF Typed
  <2>4. health_generation_is_current(k)' => check[k].cancel = "no"
    BY <2>1, <2>3 DEF Knows, health_generation_is_current, Typed, CheckRow, Connected
  <2>5. check[k].generation <= generations'
    BY <2>1, <2>3 DEF Knows, Typed, CheckRow
  <2>6. QED
    BY <2>1, <2>2, <2>4, <2>5 DEF Knows, Grows, Concerns, Owned, Inside
<1>5. QED
  BY <1>1, <1>2, <1>3, <1>4

(* The commands are such steps, whatever they do to jobs and plans.         *)
LEMMA QuietSteps == ASSUME HealthInv,
                           \/ connect_profile \/ close_tab_session \/ start_execution
                           \/ start_explain \/ Jobs \/ SessionCommands \/ TableCommands
                           \/ LoseSession \/ LoseMetadata \/ UNCHANGED vars
                    PROVE  Quiet
<1> USE DEF HealthInv, Typed
<1>1. CASE UNCHANGED registries /\ UNCHANGED check
  BY <1>1 DEF registries, Quiet, Owned
<1>2. ASSUME UNCHANGED <<connected, generations, minted, attempt, check>>,
             resource' = resource \/ resource' = Absent
      PROVE  Quiet
  BY <1>2 DEF Quiet, Owned
<1>3. CASE connect_profile \/ LoseMetadata
  <2>1. CASE connect_profile
    <3>1. resource = Absent /\ resource' = Absent
      BY <2>1 DEF connect_profile, Owned
    <3>2. /\ connected' \in Connected /\ generations' \in Nat /\ generations' = generations + 1
          /\ connected'.generation = generations + 1
          /\ UNCHANGED <<check, attempt, minted>>
      BY <2>1 DEF connect_profile, Connected
    <3>3. QED
      BY <3>1, <3>2 DEF Quiet
  <2>2. CASE LoseMetadata
    <3>1. /\ connected' \in Connected
          /\ connected'.generation = connected.generation
      BY <2>2 DEF LoseMetadata, Connected
    <3>2. resource # Absent => connected' # Absent
      BY <3>1, WorkbenchAssumption
    <3>3. QED
      BY <2>2, <3>1, <3>2 DEF LoseMetadata, Quiet, Owned
  <2>3. QED
    BY <1>3, <2>1, <2>2
<1>4. CASE close_tab_session
  BY <1>2, <1>4 DEF close_tab_session, SessionGoes
<1>5. CASE start_execution \/ start_explain \/ LoseSession \/ UNCHANGED vars
  BY <1>1, <1>5 DEF start_execution, start_explain, LoseSession, vars
<1>6. CASE Jobs
  BY <1>1, <1>2, <1>6 DEF Jobs, JobEnds, JobLost, close_lost_session, SessionGoes
<1>7. CASE SessionCommands
  <2>1. ASSUME NEW c \in Command, ContextConfirmed(c), session_resource(cmd[c].session)
        PROVE  Quiet
    <3>1. resource \in Resource /\ cmd[c].arg \in Context
      BY <2>1 DEF ContextConfirmed, session_resource, Sent
    <3>2. resource' \in Resource /\ resource'.session = resource.session /\ resource'.conn = resource.conn
      BY <2>1, <3>1 DEF ContextConfirmed, Resource
    <3>3. QED
      BY <2>1, <3>2 DEF ContextConfirmed, session_resource, Quiet, Owned
  <2>2. QED
    BY <1>1, <1>2, <1>7, <2>1
       DEF SessionCommands, change_tab_context, ContextConfirmed, ContextUnconfirmed,
           set_transaction_mode, ModeSet, commit_or_rollback, TransactionEnded, LostUnder,
           FailsOtherwise, close_lost_session, SessionGoes
<1>8. CASE TableCommands
  BY <1>1, <1>8 DEF TableCommands, preview_table_mutations, PlanKept, apply_table_mutations,
                    BatchEnds, discard_mutation_plan, load_schema
<1>9. QED
  BY <1>3, <1>4, <1>5, <1>6, <1>7, <1>8

-----------------------------------------------------------------------------
(* The steps of a check.  What another check knows is left alone: while the *)
(* step is taken nothing but the connection of the session may change, and  *)
(* that is changed only by the one check that was not cancelled.            *)
Around(k) ==
  /\ UNCHANGED <<generations, minted, setting>>
  /\ connected' \in Connected \cup {Absent}
  /\ (connected # Absent) = (connected' # Absent)
  /\ connected # Absent => connected'.generation = connected.generation
  /\ resource' # Absent => /\ resource # Absent /\ resource' \in Resource
                           /\ resource'.session = resource.session
                           /\ resource'.conn \in DOMAIN native'
                           /\ resource'.conn # resource.conn => Concerns(k) /\ check'[k] = Absent

(* A check moves while everything around it stays.                          *)
LEMMA AroundKeeps ==
  ASSUME HealthInv, NEW k \in Check, Around(k), Grows, Sent',
         attempt' \in Check \cup {Absent},
         NEW row \in CheckRow \cup {Absent}, check' = [check EXCEPT ![k] = row],
         row # Absent => Knows(k)', OneLiveCheck'
  PROVE  HealthInv'
<1> USE DEF HealthInv, Around
<1>1. /\ check \in [Check -> CheckRow \cup {Absent}] /\ check' \in [Check -> CheckRow \cup {Absent}]
      /\ check'[k] = row /\ \A l \in Check \ {k} : check'[l] = check[l]
  BY DEF Typed
<1>2. Typed'
  BY <1>1 DEF Typed, Grows
<1>3. Owned'
  BY DEF Owned, Grows
<1>4. ASSUME NEW l \in Check, l # k, check'[l] # Absent PROVE Knows(l)'
  <2>1. Knows(l) /\ check[l] \in CheckRow /\ check'[l] = check[l]
    BY <1>1, <1>4 DEF Typed
  <2>2. Concerns(l)' => Concerns(l)
    BY <2>1 DEF Concerns
  <2>3. Concerns(l)' => resource'.conn = resource.conn
    <3>1. Concerns(l) /\ Concerns(k) => l = k
      BY <2>1 DEF Knows, OneLiveCheck, Concerns
    <3>2. QED
      BY <1>4, <2>2, <3>1 DEF Concerns
  <2>4. health_generation_is_current(l)' => check[l].cancel = "no"
    BY <2>1 DEF Knows, health_generation_is_current
  <2>5. QED
    BY <2>1, <2>2, <2>3, <2>4 DEF Knows, Grows, Concerns, Owned, Inside
<1>5. QED
  BY <1>1, <1>2, <1>3, <1>4

LEMMA Finishes == ASSUME HealthInv, NEW k \in Check, check[k] # Absent, finish_own_attempt(k),
                         Around(k), Grows, Sent'
                  PROVE  HealthInv'
<1>1. check' = [check EXCEPT ![k] = Absent] /\ attempt' \in Check \cup {Absent}
  BY DEF finish_own_attempt, HealthInv, Typed
<1>2. OneLiveCheck'
  BY WorkbenchAssumption DEF HealthInv, Typed, OneLiveCheck, finish_own_attempt
<1>3. QED
  BY <1>1, <1>2, AroundKeeps

LEMMA GoesOn == ASSUME HealthInv, NEW k \in Check, check[k] # Absent,
                       NEW known \in CheckRow, known.cancel = check[k].cancel, Goes(k, known),
                       Around(k), Grows, Sent', Knows(k)'
                PROVE  HealthInv'
<1> DEFINE row == [known EXCEPT !.cancel = IF check[k].cancel = "no" THEN "no" ELSE "late"]
<1>1. check' = [check EXCEPT ![k] = row] /\ attempt' = attempt
  BY DEF Goes
<1>2. row \in CheckRow /\ (row.cancel = "no" => check[k].cancel = "no")
  BY DEF CheckRow
<1> HIDE DEF row
<1>3. OneLiveCheck'
  BY <1>1, <1>2, WorkbenchAssumption DEF HealthInv, Typed, OneLiveCheck
<1>4. QED
  BY <1>1, <1>2, <1>3, AroundKeeps DEF HealthInv, Typed

(* The row of a check that goes on.                                         *)
LEMMA RowOf == ASSUME HealthInv, NEW k \in Check, NEW known \in CheckRow, Goes(k, known)
               PROVE  /\ check'[k] \in CheckRow /\ check'[k].at = known.at
                      /\ check'[k].generation = known.generation
                      /\ check'[k].session = known.session /\ check'[k].conn = known.conn
                      /\ check'[k].context = known.context /\ check'[k].new = known.new
                      /\ check'[k].automatic = known.automatic
                      /\ check'[k].cancel = IF check[k].cancel = "no" THEN "no" ELSE "late"
  BY DEF Goes, HealthInv, Typed, CheckRow

(* A step of a check that leaves the session where it is, or ends it.       *)
LEMMA SameAround == ASSUME HealthInv, NEW k \in Check,
                           UNCHANGED <<generations, minted, setting, connected>>,
                           resource' = resource \/ resource' = Absent, Grows
                    PROVE  Around(k)
  BY DEF HealthInv, Typed, Owned, Around, Grows

(* Every step of check_profile_health.                                      *)
LEMMA HealthKeepsInv ==
  ASSUME HealthInv, NEW k \in Check, check_profile_health(k), Grows, Sent', setting' = setting
  PROVE  HealthInv'
<1>k. check[k] \in CheckRow /\ check[k] # Absent /\ Knows(k)
  BY DEF HealthInv, Typed, check_profile_health, CheckCancelled, PingMetadata, ReopenMetadata,
         CloneSessions, SkipInUse, PingOk, PingFails, ReopenSession, ReplaceSession, Polled
<1>1. CASE CheckCancelled(k) \/ PingOk(k)
  BY <1>1, <1>k, SameAround, Finishes DEF CheckCancelled, PingOk, HealthKeeps
<1>2. CASE PingMetadata(k)
  <2>1. Around(k)
    BY <1>2, SameAround DEF PingMetadata, HealthKeeps
  <2>2. ASSUME NEW at \in {"sessions", "reopen"}, Goes(k, [check[k] EXCEPT !.at = at])
        PROVE  HealthInv'
    <3> DEFINE known == [check[k] EXCEPT !.at = at]
    <3>1. /\ known \in CheckRow /\ known.cancel = check[k].cancel /\ known.at = at
          /\ known.generation = check[k].generation
      BY <1>k DEF CheckRow
    <3> HIDE DEF known
    <3>2. Knows(k)'
      BY <1>2, <1>k, <2>2, <3>1, RowOf
         DEF known, PingMetadata, HealthKeeps, Knows, Inside, Concerns, health_generation_is_current
    <3>3. QED
      BY <1>k, <2>1, <2>2, <3>1, <3>2, GoesOn DEF known
  <2>3. QED
    BY <1>2, <1>k, <2>1, <2>2, Finishes DEF PingMetadata
<1>3. CASE ReopenMetadata(k)
  <2>1. Around(k)
    BY <1>3, WorkbenchAssumption
       DEF ReopenMetadata, OwnsProfile, health_generation_is_current, HealthKeeps, Around,
           HealthInv, Typed, Owned, Connected, Grows
  <2>2. ASSUME Goes(k, [check[k] EXCEPT !.at = "sessions"]) PROVE HealthInv'
    <3> DEFINE known == [check[k] EXCEPT !.at = "sessions"]
    <3>1. /\ known \in CheckRow /\ known.cancel = check[k].cancel /\ known.at = "sessions"
          /\ known.generation = check[k].generation
      BY <1>k DEF CheckRow
    <3> HIDE DEF known
    <3>2. Knows(k)'
      BY <1>k, <2>1, <2>2, <3>1, RowOf
         DEF known, Around, Knows, Inside, Concerns, health_generation_is_current
    <3>3. QED
      BY <1>k, <2>1, <2>2, <3>1, <3>2, GoesOn DEF known
  <2>3. QED
    BY <1>3, <1>k, <2>1, <2>2, Finishes DEF ReopenMetadata
<1>4. CASE CloneSessions(k)
  <2>1. Around(k)
    BY <1>4, SameAround DEF CloneSessions, HealthKeeps
  <2>2. CASE health_generation_is_current(k) /\ resource # Absent
    <3> DEFINE known == [check[k] EXCEPT !.at = "session", !.session = resource.session,
                                         !.conn = resource.conn, !.context = resource.context]
    <3>1. resource \in Resource /\ resource.session <= minted /\ resource.conn \in DOMAIN native
      BY <2>2 DEF HealthInv, Typed, Owned
    <3>2. /\ known \in CheckRow /\ known.cancel = check[k].cancel /\ known.at = "session"
          /\ known.generation = check[k].generation /\ known.session = resource.session
          /\ known.conn = resource.conn /\ known.context = resource.context
      BY <1>k, <3>1 DEF CheckRow, Resource
    <3>3. Goes(k, known)
      BY <1>4, <2>2 DEF CloneSessions
    <3> HIDE DEF known
    <3>4. Knows(k)'
      BY <1>4, <1>k, <2>2, <3>1, <3>2, <3>3, RowOf
         DEF CloneSessions, HealthKeeps, Knows, Inside, Concerns, health_generation_is_current,
             Resource
    <3>5. QED
      BY <1>k, <2>1, <3>2, <3>3, <3>4, GoesOn
  <2>3. QED
    BY <1>4, <1>k, <2>1, <2>2, Finishes DEF CloneSessions
<1>5. CASE SkipInUse(k)
  <2>1. Around(k)
    BY <1>5, SameAround DEF SkipInUse, HealthKeeps
  <2>2. ASSUME Goes(k, [check[k] EXCEPT !.at = "ping"]) PROVE HealthInv'
    <3> DEFINE known == [check[k] EXCEPT !.at = "ping"]
    <3>1. /\ known \in CheckRow /\ known.cancel = check[k].cancel /\ known.at = "ping"
          /\ known.generation = check[k].generation /\ known.session = check[k].session
          /\ known.conn = check[k].conn /\ known.context = check[k].context
      BY <1>k DEF CheckRow
    <3> HIDE DEF known
    <3>2. Knows(k)'
      BY <1>5, <1>k, <2>2, <3>1, RowOf
         DEF known, SkipInUse, Polled, HealthKeeps, Knows, Inside, Concerns,
             health_generation_is_current
    <3>3. QED
      BY <1>k, <2>1, <2>2, <3>1, <3>2, GoesOn DEF known
  <2>3. QED
    BY <1>5, <1>k, <2>1, <2>2, Finishes DEF SkipInUse
<1>6. CASE PingFails(k)
  <2>1. Around(k)
    BY <1>6, SameAround DEF PingFails, HealthKeeps, SessionGoes
  <2> DEFINE automatic == native[check[k].conn].automatic
             known == [check[k] EXCEPT !.at = "reopening", !.automatic = automatic]
  <2>2. ASSUME Goes(k, known), Replaceable(k) PROVE HealthInv'
    <3>0. automatic \in BOOLEAN
      <4>1. check[k].conn \in DOMAIN native
        BY <1>6, <1>k DEF Knows, Inside, PingFails, Polled
      <4>2. native[check[k].conn] \in Connection
        BY <4>1, ElementOfSeq, LenProperties DEF HealthInv, Typed
      <4>3. QED
        BY <4>2 DEF Connection
    <3>1. /\ known \in CheckRow /\ known.cancel = check[k].cancel /\ known.at = "reopening"
          /\ known.generation = check[k].generation /\ known.session = check[k].session
          /\ known.conn = check[k].conn /\ known.context = check[k].context
          /\ known.automatic \in BOOLEAN
      BY <1>k, <3>0 DEF CheckRow
    <3> HIDE DEF known
    <3>2. UNCHANGED <<native, connected, generations, minted>>
          /\ (resource' = resource \/ resource' = Absent)
      BY <1>6 DEF PingFails, HealthKeeps, SessionGoes
    <3>3. ~setting.timeouts => ~native[check[k].conn].up
      BY <1>6 DEF PingFails, PingCanFail
    <3>4. check[k].at = "ping"
      BY <1>6 DEF PingFails, Polled
    <3>5. Knows(k)'
      BY <1>k, <2>2, <3>1, <3>2, <3>3, <3>4, RowOf
         DEF Replaceable, Knows, Inside, Concerns, health_generation_is_current
    <3>6. QED
      BY <1>k, <2>1, <2>2, <3>1, <3>5, GoesOn
  <2>3. QED
    BY <1>6, <1>k, <2>1, <2>2, Finishes DEF PingFails
<1>7. CASE ReopenSession(k)
  <2>1. Around(k)
    BY <1>7, SameAround DEF ReopenSession, HealthKeeps
  <2>2. ASSUME Goes(k, [check[k] EXCEPT !.at = "replacing", !.new = Len(native) + 1]),
               ~ UNCHANGED native
        PROVE  HealthInv'
    <3> DEFINE next == Len(native) + 1
               known == [check[k] EXCEPT !.at = "replacing", !.new = next]
    <3>0. next \in Nat /\ next \in DOMAIN native'
      <4>1. PICK r : native' = Append(native, r)
        BY <1>7, <2>2 DEF ReopenSession
      <4>2. Len(native) \in Nat
        BY LenProperties DEF HealthInv, Typed
      <4>3. native' \in Seq(Connection) /\ native \in Seq(Connection)
        BY DEF Grows, HealthInv, Typed
      <4>4. Len(native') = Len(native) + 1
        BY <4>1, <4>3
      <4>5. QED
        BY <4>2, <4>3, <4>4, LenProperties
    <3> HIDE DEF next
    <3>1. /\ known \in CheckRow /\ known.cancel = check[k].cancel /\ known.at = "replacing"
          /\ known.generation = check[k].generation /\ known.session = check[k].session
          /\ known.conn = check[k].conn /\ known.context = check[k].context
          /\ known.new = next
      BY <1>k, <3>0 DEF CheckRow
    <3>2. Goes(k, known) /\ check[k].at = "reopening" /\ UNCHANGED <<connected, resource>>
          /\ UNCHANGED <<generations, minted, setting>>
      BY <1>7, <2>2 DEF next, ReopenSession, Polled, HealthKeeps
    <3> HIDE DEF known
    <3>3. Knows(k)'
      BY <1>k, <3>0, <3>1, <3>2, RowOf
         DEF Knows, Grows, Inside, Concerns, health_generation_is_current
    <3>4. QED
      BY <1>k, <2>1, <3>1, <3>2, <3>3, GoesOn
  <2>3. QED
    BY <1>7, <1>k, <2>1, <2>2, Finishes DEF ReopenSession
<1>8. CASE ReplaceSession(k)
  <2>1. Around(k)
    <3>1. /\ check[k].at = "replacing" /\ check[k].new \in DOMAIN native
          /\ UNCHANGED <<connected, native, generations, minted>> /\ check'[k] = Absent
      BY <1>8, <1>k DEF ReplaceSession, HealthKeeps, finish_own_attempt, Polled, Knows, HealthInv,
                        Typed
    <3>2. CASE session_resource(check[k].session)
      <4>1. /\ Concerns(k) /\ resource \in Resource
            /\ resource' = [resource EXCEPT !.conn = check[k].new]
        BY <1>8, <1>k, <3>1, <3>2
           DEF ReplaceSession, session_resource, Concerns, Inside, HealthInv, Typed
      <4>2. check[k].new \in Nat
        BY <3>1, LenProperties DEF HealthInv, Typed
      <4>3. resource' \in Resource /\ resource'.session = resource.session
            /\ resource'.conn = check[k].new
        BY <4>1, <4>2 DEF Resource
      <4>4. QED
        BY <3>1, <4>1, <4>3 DEF Around, Concerns, HealthInv, Typed
    <3>3. CASE ~session_resource(check[k].session)
      BY <1>8, <3>1, <3>3, SameAround DEF ReplaceSession
    <3>4. QED
      BY <3>2, <3>3
  <2>2. QED
    BY <1>8, <1>k, <2>1, Finishes DEF ReplaceSession
<1>9. QED
  BY <1>1, <1>2, <1>3, <1>4, <1>5, <1>6, <1>7, <1>8 DEF check_profile_health

LEMMA HealthBegins ==
  ASSUME HealthInv, NEW k \in Check, begin_connection_attempt(k), Sent', setting' = setting
  PROVE  HealthInv'
<1> USE DEF HealthInv, begin_connection_attempt
<1>0. connected \in Connected /\ connected.generation <= generations
  BY DEF Typed
<1> DEFINE row == [at |-> "metadata", generation |-> connected.generation,
                   session |-> Absent, conn |-> Absent, context |-> Absent,
                   automatic |-> Absent, new |-> Absent, cancel |-> "no"]
<1>1. /\ row \in CheckRow /\ check' = [check EXCEPT ![k] = row] /\ row.at = "metadata"
      /\ row.generation = connected.generation /\ row.cancel = "no"
  BY <1>0 DEF CheckRow, Connected
<1> HIDE DEF row
<1>2. check'[k] = row /\ \A l \in Check \ {k} : check'[l] = check[l]
  BY <1>1 DEF Typed
<1>3. Typed'
  BY <1>1 DEF Typed
<1>4. Owned'
  BY DEF Owned
<1>5. OneLiveCheck'
  BY <1>1, <1>2, WorkbenchAssumption DEF Typed, OneLiveCheck
<1>6. ASSUME NEW l \in Check \ {k}, check'[l] # Absent PROVE Knows(l)'
  BY <1>2, <1>6 DEF Knows, Inside, Concerns, health_generation_is_current
<1>7. Knows(k)'
  BY <1>0, <1>1, <1>2 DEF Knows, Inside, Concerns
<1>8. QED
  BY <1>3, <1>4, <1>5, <1>6, <1>7

(* disconnect_profile and cleanup cancel the check that holds the entry.    *)
LEMMA ConnectionEnds ==
  ASSUME HealthInv, connected' = Absent, resource' = Absent, cancel_health_attempt,
         UNCHANGED <<generations, minted, native, setting>>, Sent',
         attempt' = attempt \/ attempt' = Absent
  PROVE  HealthInv'
<1> USE DEF HealthInv
<1>1. attempt # Absent => check[attempt] \in CheckRow
  BY DEF Typed, OneLiveCheck
<1>2. ASSUME NEW k \in Check
      PROVE  IF k = attempt THEN /\ check[k] \in CheckRow
                                 /\ check'[k] = [check[k] EXCEPT !.cancel = "sent"]
                            ELSE check'[k] = check[k]
  BY <1>1, WorkbenchAssumption DEF cancel_health_attempt, Typed
<1>3. ASSUME NEW k \in Check, k = attempt
      PROVE  check'[k] \in CheckRow /\ check'[k].cancel = "sent"
             /\ check'[k].at = check[k].at /\ check'[k].generation = check[k].generation
             /\ check'[k].session = check[k].session /\ check'[k].conn = check[k].conn
             /\ check'[k].context = check[k].context /\ check'[k].new = check[k].new
             /\ check'[k].automatic = check[k].automatic
  BY <1>2, <1>3 DEF CheckRow
<1>4. check' \in [Check -> CheckRow \cup {Absent}]
  BY <1>2, <1>3 DEF cancel_health_attempt, Typed
<1>5. Typed' /\ Owned'
  BY <1>4 DEF Typed, Owned
<1>6. OneLiveCheck'
  <2>1. attempt' # Absent => check'[attempt'] # Absent
    BY <1>3, WorkbenchAssumption DEF Typed
  <2>2. ASSUME NEW k \in Check, check'[k] # Absent, check'[k].cancel = "no" PROVE attempt' = k
    <3>1. k # attempt
      BY <1>3, <2>2
    <3>2. QED
      BY <1>2, <2>2, <3>1 DEF OneLiveCheck
  <2>3. QED
    BY <2>1, <2>2 DEF OneLiveCheck
<1>7. ASSUME NEW k \in Check, check'[k] # Absent PROVE Knows(k)'
  <2>1. check[k] # Absent /\ Knows(k)
    BY <1>2, <1>7, WorkbenchAssumption
  <2>2. QED
    BY <1>2, <1>3, <2>1 DEF Knows, Inside, Concerns, health_generation_is_current
<1>8. QED
  BY <1>5, <1>6, <1>7

(* The identifier of a new session is one no check has cloned.              *)
LEMMA SessionOpens == ASSUME HealthInv, open_tab_session, Grows, Sent', setting' = setting
                      PROVE  HealthInv'
<1> USE DEF HealthInv, open_tab_session
<1>1. Len(native) \in Nat /\ Len(native) + 1 \in DOMAIN native'
  <2>1. native' \in Seq(Connection) /\ native \in Seq(Connection)
    BY DEF Grows, Typed
  <2>2. Len(native) \in Nat /\ Len(native') = Len(native) + 1
    BY <2>1, LenProperties
  <2>3. QED
    BY <2>1, <2>2, LenProperties
<1> DEFINE next == Len(native) + 1
<1>2. resource' = [session |-> minted + 1, conn |-> next, context |-> Home]
  OBVIOUS
<1>3. next \in Nat /\ next \in DOMAIN native'
  BY <1>1
<1> HIDE DEF next
<1>4. Typed' /\ Owned'
  BY <1>2, <1>3, WorkbenchAssumption DEF Typed, Owned, Resource, Grows
<1>5. OneLiveCheck'
  BY DEF OneLiveCheck
<1>6. ASSUME NEW k \in Check, check'[k] # Absent PROVE Knows(k)'
  <2>1. Knows(k) /\ check[k] \in CheckRow
    BY <1>6 DEF Typed
  <2>2. ~Concerns(k)'
    BY <1>2, <2>1 DEF Concerns, Knows, Typed
  <2>3. QED
    BY <2>1, <2>2 DEF Typed, Knows, Inside, Grows, health_generation_is_current
<1>7. QED
  BY <1>4, <1>5, <1>6

(* HealthInv is inductive.                                                  *)
LEMMA HealthInductive == HealthInv /\ [Next]_vars => HealthInv'
<1> SUFFICES ASSUME HealthInv, [Next]_vars PROVE HealthInv'
  OBVIOUS
<1>1. Grows /\ Sent' /\ setting' = setting
  BY NativeGrows, CommandsSent DEF HealthInv, Typed, Next, cleanup, vars
<1>2. CASE Health
  BY <1>1, <1>2, HealthBegins, HealthKeepsInv DEF Health
<1>3. CASE open_tab_session
  BY <1>1, <1>3, SessionOpens
<1>4. CASE disconnect_profile \/ cleanup
  BY <1>1, <1>4, ConnectionEnds DEF disconnect_profile, cleanup, SessionGoes
<1>5. CASE \/ connect_profile \/ close_tab_session \/ start_execution
           \/ start_explain \/ Jobs \/ SessionCommands \/ TableCommands
           \/ LoseSession \/ LoseMetadata \/ UNCHANGED vars
  BY <1>1, <1>5, QuietSteps, QuietKeeps
<1>6. QED
  BY <1>2, <1>3, <1>4, <1>5 DEF Next, Step

LEMMA HealthInitially == Init => HealthInv
<1> SUFFICES ASSUME Init PROVE HealthInv
  OBVIOUS
<1>1. \A k \in Check : check[k] = Absent
  BY DEF Init
<1>2. native \in Seq(Connection)
  BY EmptySeq DEF Init
<1>3. QED
  BY <1>1, <1>2 DEF Init, HealthInv, Typed, Sent, At, Free, Owned, OneLiveCheck

LEMMA HealthInvHolds == Spec => []HealthInv
  BY HealthInitially, HealthInductive, PTL DEF Spec

(* A check that was cancelled, or found what it looked for gone, gives back *)
(* its own entry and no other (finish_connection_attempt with its token):   *)
(* a profile is never left without health checks, nor checked twice.        *)
THEOREM ChecksAreReleased == Spec => []OneLiveCheck
<1>1. HealthInv => OneLiveCheck
  BY DEF HealthInv
<1>2. QED
  BY <1>1, HealthInvHolds, PTL

(* Who changes the connection of the profile or the session while a check   *)
(* takes a step is that check, and the generation it kept is the current.   *)
THEOREM ChecksKeepTheirGeneration == Spec => OwnGeneration
<1> DEFINE Touches(k) == /\ check[k] # Absent /\ check'[k] # check[k]
                         /\ <<connected, resource>>' # <<connected, resource>>
                         /\ connected' # Absent
           Current(k) == connected # Absent /\ connected.generation = check[k].generation
<1>1. ASSUME HealthInv, [Next]_vars, NEW k \in Check, Touches(k) PROVE Current(k)
  <2>1. ~(disconnect_profile \/ cleanup)
    BY <1>1 DEF disconnect_profile, cleanup
  <2>2. CASE \/ connect_profile \/ close_tab_session \/ start_execution
             \/ start_explain \/ Jobs \/ SessionCommands \/ TableCommands
             \/ LoseSession \/ LoseMetadata \/ UNCHANGED vars
    BY <1>1, <2>2, QuietSteps DEF Quiet
  <2>3. CASE open_tab_session
    BY <1>1, <2>3 DEF open_tab_session
  <2>4. CASE Health
    <3>1. PICK l \in Check : check_profile_health(l)
      BY <1>1, <2>4 DEF Health, begin_connection_attempt
    <3>2. l = k
      <4>1. check \in [Check -> CheckRow \cup {Absent}]
        BY <1>1 DEF HealthInv, Typed
      <4>2. \A d \in Check \ {l} : check'[d] = check[d]
        BY <3>1, <4>1
           DEF check_profile_health, CheckCancelled, PingMetadata, ReopenMetadata, CloneSessions,
               SkipInUse, PingOk, PingFails, ReopenSession, ReplaceSession, Goes,
               finish_own_attempt
      <4>3. QED
        BY <1>1, <4>2
    <3>3. CASE ReplaceSession(k)
      <4>1. Concerns(k) /\ Knows(k) /\ connected # Absent
        BY <1>1, <3>3 DEF ReplaceSession, session_resource, Concerns, Inside, Polled, HealthInv,
                          Owned
      <4>2. QED
        BY <4>1 DEF Knows
    <3>4. CASE ~ReplaceSession(k)
      BY <1>1, <3>1, <3>2, <3>4
         DEF check_profile_health, CheckCancelled, PingMetadata, ReopenMetadata, CloneSessions,
             SkipInUse, PingOk, PingFails, ReopenSession, OwnsProfile,
             health_generation_is_current
    <3>5. QED
      BY <3>3, <3>4
  <2>5. QED
    BY <1>1, <2>1, <2>2, <2>3, <2>4 DEF Next, Step
<1>2. HealthInv /\ [Next]_vars =>
        \A k \in Check :
          (check[k] # Absent /\ check'[k] # check[k] /\ <<connected, resource>>' # <<connected, resource>>
             /\ connected' # Absent)
          => connected # Absent /\ connected.generation = check[k].generation
  BY <1>1
<1>3. QED
  BY <1>2, HealthInvHolds, PTL DEF Spec, OwnGeneration

(* What a check throws away without a word had no transaction on it when    *)
(* the connection went, whatever was begun or sent since.                   *)
THEOREM ReplacementsAreClean == Spec => NothingLost
<1> DEFINE Replaces(k) == /\ Polled(k, "replacing") /\ ~setting.timeouts
                          /\ resource # Absent /\ resource' # Absent
                          /\ resource'.conn # resource.conn
           Clean == native[resource.conn].certainty = "clean"
<1>1. ASSUME HealthInv, [Next]_vars, NEW k \in Check, Replaces(k) PROVE Clean
  <2>1. ~(disconnect_profile \/ cleanup \/ open_tab_session)
    BY <1>1 DEF disconnect_profile, cleanup, open_tab_session, SessionGoes
  <2>2. CASE \/ connect_profile \/ close_tab_session \/ start_execution
             \/ start_explain \/ Jobs \/ SessionCommands \/ TableCommands
             \/ LoseSession \/ LoseMetadata \/ UNCHANGED vars
    BY <1>1, <2>2, QuietSteps DEF Quiet
  <2>3. CASE Health
    <3>1. PICK l \in Check : ReplaceSession(l) /\ session_resource(check[l].session)
      BY <1>1, <2>3
         DEF Health, begin_connection_attempt, check_profile_health, CheckCancelled, PingMetadata,
             ReopenMetadata, CloneSessions, SkipInUse, PingOk, PingFails, ReopenSession,
             ReplaceSession, SessionGoes
    <3>2. Concerns(l) /\ Knows(l) /\ check[l].at = "replacing"
      BY <1>1, <3>1 DEF ReplaceSession, session_resource, Concerns, Inside, Polled, HealthInv
    <3>3. QED
      BY <1>1, <3>2 DEF Knows
  <2>4. QED
    BY <1>1, <2>1, <2>2, <2>3 DEF Next, Step
<1>2. HealthInv /\ [Next]_vars =>
        \A k \in Check :
          (/\ Polled(k, "replacing") /\ ~setting.timeouts
           /\ resource # Absent /\ resource' # Absent /\ resource'.conn # resource.conn)
          => native[resource.conn].certainty = "clean"
  BY <1>1
<1>3. QED
  BY <1>2, HealthInvHolds, PTL DEF Spec, NothingLost

-----------------------------------------------------------------------------
(* What its user was shown is the one approval and the one plan that the    *)
(* session of the tab can still use, and no identifier is given out twice.  *)
(* A plan or an approval of a session that is gone may be left behind: it   *)
(* names an identifier that no later session has.                           *)
ApprovalRow == [token : Nat, session : Nat, statement : Statement,
                context : Context]

PlanRow == [id : Nat, session : Nat, context : Context]

Used(Row) == [reviewed : Row \cup {Absent}, started : Row]

Asked == \A c \in Command : ~Free(c) => /\ cmd[c].session \in Nat /\ cmd[c].session <= minted
                                        /\ cmd[c].context \in Context

UseTyped ==
  /\ approvals \subseteq ApprovalRow /\ plans \subseteq PlanRow /\ issued \in Nat
  /\ asked \in ApprovalRow \cup {Absent} /\ previewed \in PlanRow \cup {Absent}
  /\ ran \in Seq(Used(ApprovalRow)) /\ applied \in Seq(Used(PlanRow))

Shown ==
  /\ \A a \in approvals : /\ a.token <= issued /\ a.session <= minted
                          /\ session_resource(a.session) => asked = a
                          /\ \A m \in DOMAIN ran : ran[m].started.token # a.token
  /\ \A p \in plans : /\ p.id <= issued /\ p.session <= minted
                      /\ session_resource(p.session) => previewed = p
                      /\ \A m \in DOMAIN applied : applied[m].started.id # p.id
  /\ \A p, q \in plans : p = q
  /\ \A m \in DOMAIN ran : ran[m].started.token <= issued
  /\ \A m \in DOMAIN applied : applied[m].started.id <= issued

(* Session identifiers are only ever issued.                                *)
LEMMA MintedGrows == ASSUME HealthInv, [Next]_vars PROVE minted' \in Nat /\ minted <= minted'
<1>0. minted \in Nat
  BY DEF HealthInv, Typed
<1>1. CASE \/ connect_profile \/ close_tab_session \/ start_execution
           \/ start_explain \/ Jobs \/ SessionCommands \/ TableCommands
           \/ LoseSession \/ LoseMetadata \/ UNCHANGED vars
  BY <1>0, <1>1, QuietSteps DEF Quiet
<1>2. CASE open_tab_session \/ disconnect_profile \/ cleanup
  BY <1>0, <1>2 DEF open_tab_session, disconnect_profile, cleanup
<1>3. CASE Health
  BY <1>0, <1>3 DEF Health, begin_connection_attempt, check_profile_health, CheckCancelled,
                    PingMetadata, ReopenMetadata, CloneSessions, SkipInUse, PingOk, PingFails,
                    ReopenSession, ReplaceSession, HealthKeeps
<1>4. QED
  BY <1>1, <1>2, <1>3 DEF Next, Step

(* A command in flight names its context and a session that was issued.     *)
LEMMA CommandsAsked == ASSUME Asked, HealthInv, [Next]_vars PROVE Asked'
<1>0. minted \in Nat /\ minted' \in Nat /\ minted <= minted'
      /\ cmd = [c \in Command |-> cmd[c]]
  BY MintedGrows DEF HealthInv, Typed, Sent
<1>1. CASE UNCHANGED cmd
  BY <1>0, <1>1 DEF Asked, Free
<1>2. ASSUME NEW c \in Command, Answer(c) PROVE Asked'
  BY <1>0, <1>2 DEF Answer, Asked, Free
<1>3. ASSUME NEW c \in Command, NEW op, NEW arg, resource # Absent, Send(c, Request(op, arg))
      PROVE  Asked'
  <2>1. resource \in Resource /\ resource.session <= minted
    BY <1>3 DEF HealthInv, Typed, Owned
  <2> DEFINE request == Request(op, arg)
  <2>2. request.session \in Nat /\ request.session <= minted /\ request.context \in Context
    BY <2>1 DEF Request, Resource
  <2>3. cmd' = [cmd EXCEPT ![c] = request]
    BY <1>3 DEF Send
  <2> HIDE DEF request
  <2>4. QED
    BY <1>0, <2>2, <2>3 DEF Asked, Free
<1>4. CASE SessionCommands
  <2>1. ASSUME NEW c \in Command,
               change_tab_context(c) \/ set_transaction_mode(c) \/ commit_or_rollback(c)
        PROVE  Asked'
    BY <1>3, <2>1 DEF change_tab_context, set_transaction_mode, commit_or_rollback
  <2>2. QED
    BY <1>2, <1>4, <2>1 DEF SessionCommands, ContextConfirmed, ContextUnconfirmed, ModeSet,
                            TransactionEnded, LostUnder, FailsOtherwise
<1>5. CASE TableCommands
  <2>1. ASSUME NEW c \in Command, preview_table_mutations(c) \/ apply_table_mutations(c)
        PROVE  Asked'
    BY <1>3, <2>1 DEF preview_table_mutations, apply_table_mutations
  <2>2. QED
    BY <1>1, <1>2, <1>5, <2>1 DEF TableCommands, PlanKept, BatchEnds, discard_mutation_plan,
                                  load_schema
<1>6. CASE Health
  BY <1>1, <1>6 DEF Health, begin_connection_attempt, check_profile_health, CheckCancelled,
                    PingMetadata, ReopenMetadata, CloneSessions, SkipInUse, PingOk, PingFails,
                    ReopenSession, ReplaceSession, HealthKeeps
<1>7. CASE \/ connect_profile \/ disconnect_profile \/ open_tab_session \/ close_tab_session
           \/ start_execution \/ start_explain \/ Jobs \/ LoseSession \/ LoseMetadata
           \/ cleanup \/ UNCHANGED vars
  BY <1>1, <1>7 DEF connect_profile, disconnect_profile, open_tab_session, close_tab_session,
                    start_execution, start_explain, Jobs, JobEnds, JobLost, LoseSession,
                    LoseMetadata, cleanup, vars
<1>8. QED
  BY <1>4, <1>5, <1>6, <1>7 DEF Next, Step

(* A step that gives nothing out and starts nothing that was given out.     *)
Withdraws ==
  /\ approvals' \subseteq approvals /\ plans' \subseteq plans
  /\ UNCHANGED <<issued, ran, applied>>
  /\ asked' = asked \/ asked' = Absent
  /\ previewed' = previewed \/ previewed' = Absent
  /\ minted' \in Nat /\ minted <= minted'
  /\ resource' # Absent => \/ /\ resource # Absent
                              /\ resource'.session = resource.session
                           \/ resource'.session \in (minted + 1) .. minted'
  /\ \A a \in approvals' : session_resource(a.session) /\ session_resource(a.session)' => asked' = asked
  /\ \A p \in plans' : session_resource(p.session) /\ session_resource(p.session)' => previewed' = previewed

(* Such a step keeps what is known of approvals, plans and their uses.      *)
LEMMA WithdrawsKeeps == ASSUME HealthInv, UseTyped, Shown, UsedAsReviewed, Withdraws
                        PROVE  UseTyped' /\ Shown' /\ UsedAsReviewed'
<1> USE DEF Withdraws
<1>1. UseTyped'
  BY DEF UseTyped
<1>2. UsedAsReviewed'
  BY DEF UsedAsReviewed, Faithful
<1>3. ASSUME NEW a \in approvals', session_resource(a.session)' PROVE session_resource(a.session)
  BY <1>3 DEF Shown, UseTyped, ApprovalRow, session_resource, HealthInv, Typed
<1>4. ASSUME NEW p \in plans', session_resource(p.session)' PROVE session_resource(p.session)
  BY <1>4 DEF Shown, UseTyped, PlanRow, session_resource, HealthInv, Typed
<1>5. minted \in Nat /\ \A a \in approvals : a.session \in Nat
      /\ \A p \in plans : p.session \in Nat
  BY DEF UseTyped, ApprovalRow, PlanRow, HealthInv, Typed
<1>6. ASSUME NEW a \in approvals'
      PROVE  /\ a.token <= issued' /\ a.session <= minted'
             /\ session_resource(a.session)' => asked' = a
             /\ \A m \in DOMAIN ran' : ran'[m].started.token # a.token
  BY <1>3, <1>5 DEF Shown
<1>7. ASSUME NEW p \in plans'
      PROVE  /\ p.id <= issued' /\ p.session <= minted'
             /\ session_resource(p.session)' => previewed' = p
             /\ \A m \in DOMAIN applied' : applied'[m].started.id # p.id
  <2>1. /\ p \in plans /\ p.id <= issued /\ p.session <= minted
        /\ session_resource(p.session) => previewed = p
        /\ \A m \in DOMAIN applied : applied[m].started.id # p.id
    BY DEF Shown
  <2>2. session_resource(p.session)' => previewed' = p
    BY <1>4, <2>1
  <2>3. p.session <= minted'
    <3>1. minted' \in Nat /\ minted <= minted'
      OBVIOUS
    <3> HIDE DEF Withdraws
    <3>2. minted \in Nat
      BY <1>5
    <3>3. p.session \in Nat
      BY <2>1 DEF UseTyped, PlanRow
    <3>4. QED
      BY <2>1, <3>1, <3>2, <3>3
  <2>4. QED
    BY <2>1, <2>2, <2>3
<1>8. Shown'
  BY <1>6, <1>7 DEF Shown
<1>9. QED
  BY <1>1, <1>2, <1>8

(* What starts is added to what was started.                                *)
LEMMA StartsOnce ==
  ASSUME NEW Row, NEW starts \in Seq(Used(Row)), Faithful(starts),
         NEW e \in Used(Row), e.reviewed = e.started,
         \A m \in DOMAIN starts : starts[m].started # e.started
  PROVE  /\ Append(starts, e) \in Seq(Used(Row)) /\ Faithful(Append(starts, e))
         /\ \A m \in DOMAIN Append(starts, e) : \/ m \in DOMAIN starts /\ Append(starts, e)[m] = starts[m]
                                                \/ Append(starts, e)[m] = e
<1> DEFINE more == Append(starts, e)
<1>1. /\ more \in Seq(Used(Row)) /\ Len(more) = Len(starts) + 1
      /\ \A i \in 1..Len(starts) : more[i] = starts[i]
      /\ more[Len(starts) + 1] = e
  BY AppendProperties
<1>2. Len(starts) \in Nat /\ DOMAIN starts = 1..Len(starts) /\ DOMAIN more = 1..(Len(starts) + 1)
  BY <1>1, LenProperties
<1> HIDE DEF more
<1>3. \A m \in DOMAIN more : \/ m \in DOMAIN starts /\ more[m] = starts[m]
                             \/ m = Len(starts) + 1 /\ more[m] = e
  BY <1>1, <1>2
<1>4. ASSUME NEW m \in DOMAIN more, NEW n \in DOMAIN more
      PROVE  /\ more[m].reviewed = more[m].started
             /\ more[m].started = more[n].started => m = n
  BY <1>3 DEF Faithful
<1>5. Faithful(more)
  BY <1>4 DEF Faithful
<1>6. QED
  BY <1>1, <1>3, <1>5 DEF more

Using == UseTyped /\ Shown /\ UsedAsReviewed

(* issue_approval leaves one approval, under a token nothing started with.  *)
LEMMA ApprovalsAreAsked == ASSUME HealthInv, Using, AsksApproval, UNCHANGED <<resource, minted>>
                           PROVE  Using'
<1> USE DEF Using
<1>1. resource \in Resource /\ resource.session <= minted /\ minted \in Nat /\ issued \in Nat
  BY DEF AsksApproval, Startable, HealthInv, Typed, Owned, UseTyped
<1>2. PICK statement \in Statement : issue_approval(statement)
  BY DEF AsksApproval
<1> DEFINE a == Approval(issued + 1, statement)
<1>3. a \in ApprovalRow /\ a.token = issued + 1 /\ a.session = resource.session
  BY <1>1 DEF Approval, ApprovalRow, Resource
<1>4. /\ approvals' = {a} /\ asked' = a /\ issued' = issued + 1
      /\ UNCHANGED <<plans, previewed, applied, ran>>
  BY <1>2 DEF AsksApproval, issue_approval
<1> HIDE DEF a
<1>5. UseTyped'
  BY <1>1, <1>3, <1>4 DEF UseTyped
<1>6. UsedAsReviewed'
  BY <1>4 DEF UsedAsReviewed, Faithful
<1>7. /\ \A m \in DOMAIN ran : ran[m].started.token \in Nat
      /\ \A m \in DOMAIN applied : applied[m].started.id \in Nat
      /\ \A p \in plans : p.id \in Nat
  <2>1. /\ \A m \in DOMAIN ran : ran[m] \in Used(ApprovalRow)
        /\ \A m \in DOMAIN applied : applied[m] \in Used(PlanRow)
    BY ElementOfSeq, LenProperties DEF UseTyped
  <2>2. QED
    BY <2>1 DEF UseTyped, Used, ApprovalRow, PlanRow
<1>8. Shown'
  BY <1>1, <1>3, <1>4, <1>7 DEF Shown, session_resource
<1>9. QED
  BY <1>5, <1>6, <1>8

(* consume_approval starts what was asked last, or withdraws the token.     *)
LEMMA ApprovalsStartOnce == ASSUME HealthInv, Using, StartsApproved, UNCHANGED <<resource, minted>>
                            PROVE  Using'
<1> USE DEF Using
<1>1. PICK a \in approvals, statement \in Statement :
        \/ /\ consume_approval(a, statement)
           /\ ran' = Append(ran, [reviewed |-> asked, started |-> Approval(a.token, statement)])
           /\ asked' = Absent
           /\ dispose_tab_results
        \/ /\ ~consume_approval(a, statement)
           /\ approvals' = approvals \ {a}
           /\ UNCHANGED <<asked, ran>>
  BY DEF StartsApproved
<1>2. UNCHANGED <<plans, issued, previewed, applied>>
  BY DEF StartsApproved
<1>3. CASE ~consume_approval(a, statement)
  <2>1. Withdraws
    BY <1>1, <1>2, <1>3 DEF Withdraws, HealthInv, Typed
  <2>2. QED
    BY <2>1, WithdrawsKeeps
<1>4. CASE consume_approval(a, statement)
  <2> DEFINE e == [reviewed |-> asked, started |-> Approval(a.token, statement)]
  <2>1. Approval(a.token, statement) = a
    BY <1>4 DEF consume_approval, Approval, UseTyped, ApprovalRow
  <2>2. asked = a
    BY <1>4 DEF consume_approval, StartsApproved, Startable, Shown, session_resource
  <2>3. e \in Used(ApprovalRow) /\ e.reviewed = a /\ e.started = a
    BY <2>1, <2>2 DEF Used, UseTyped
  <2>4. ran' = Append(ran, e) /\ approvals' = {} /\ asked' = Absent
    BY <1>1, <1>4 DEF dispose_tab_results
  <2> HIDE DEF e
  <2>5. \A m \in DOMAIN ran : ran[m].started # e.started
    BY <2>3 DEF Shown
  <2>6. /\ ran' \in Seq(Used(ApprovalRow)) /\ Faithful(ran')
        /\ \A m \in DOMAIN ran' : \/ m \in DOMAIN ran /\ ran'[m] = ran[m]
                                  \/ ran'[m] = e
    BY <2>3, <2>4, <2>5, StartsOnce DEF UseTyped, UsedAsReviewed
  <2>7. UseTyped'
    BY <1>2, <2>4, <2>6 DEF UseTyped
  <2>8. UsedAsReviewed'
    BY <1>2, <2>6 DEF UsedAsReviewed, Faithful
  <2>9. Shown'
    BY <1>2, <2>3, <2>4, <2>6 DEF Shown, session_resource
  <2>10. QED
    BY <2>7, <2>8, <2>9
<1>5. QED
  BY <1>3, <1>4

(* What object_detail answered becomes the one plan, under a new id.        *)
LEMMA PlansArePreviewed ==
  ASSUME HealthInv, Asked, Using, NEW c \in Command, PlanKept(c) PROVE Using'
<1> USE DEF Using
<1>1. issued \in Nat /\ minted \in Nat /\ ~Free(c) /\ UNCHANGED <<minted, resource>>
  BY DEF PlanKept, At, UseTyped, HealthInv, Typed, registries
<1> DEFINE p == [id |-> issued + 1, session |-> cmd[c].session, context |-> cmd[c].context]
<1>2. p \in PlanRow /\ p.id = issued + 1 /\ p.session <= minted
  BY <1>1 DEF Asked, PlanRow
<1>3. /\ plans' = {p} /\ previewed' = p /\ issued' = issued + 1
      /\ UNCHANGED <<approvals, asked, applied, ran>>
  BY DEF PlanKept
<1> HIDE DEF p
<1>4. UseTyped'
  BY <1>1, <1>2, <1>3 DEF UseTyped
<1>5. UsedAsReviewed'
  BY <1>3 DEF UsedAsReviewed, Faithful
<1>6. /\ \A m \in DOMAIN ran : ran[m].started.token \in Nat
      /\ \A m \in DOMAIN applied : applied[m].started.id \in Nat
      /\ \A a \in approvals : a.token \in Nat
  <2>1. /\ \A m \in DOMAIN ran : ran[m] \in Used(ApprovalRow)
        /\ \A m \in DOMAIN applied : applied[m] \in Used(PlanRow)
    BY ElementOfSeq, LenProperties DEF UseTyped
  <2>2. QED
    BY <2>1 DEF UseTyped, Used, ApprovalRow, PlanRow
<1>7. Shown'
  BY <1>1, <1>2, <1>3, <1>6 DEF Shown, session_resource
<1>8. QED
  BY <1>4, <1>5, <1>7

(* apply_table_mutations takes out the one plan, previewed last.            *)
LEMMA PlansStartOnce ==
  ASSUME HealthInv, Using, NEW c \in Command, apply_table_mutations(c) PROVE Using'
<1> USE DEF Using
<1>1. PICK p \in plans :
        /\ p.session = resource.session /\ p.context = resource.context
        /\ plans' = plans \ {p}
        /\ applied' = Append(applied, [reviewed |-> previewed,
                                       started |-> [id |-> p.id, session |-> resource.session,
                                                    context |-> resource.context]])
  BY DEF apply_table_mutations, TakesPlan
<1>2. /\ previewed' = Absent /\ UNCHANGED <<approvals, issued, asked, ran, resource, minted>>
  BY DEF apply_table_mutations, registries
<1>3. [id |-> p.id, session |-> resource.session, context |-> resource.context] = p
  BY <1>1 DEF UseTyped, PlanRow
<1>4. previewed = p /\ plans' = {}
  <2>1. session_resource(p.session)
    BY <1>1 DEF session_resource, apply_table_mutations
  <2>2. QED
    BY <1>1, <2>1 DEF Shown
<1> DEFINE e == [reviewed |-> previewed, started |-> p]
<1>5. e \in Used(PlanRow) /\ e.reviewed = p /\ e.started = p
  BY <1>4 DEF Used, UseTyped
<1>6. applied' = Append(applied, e)
  BY <1>1, <1>3
<1> HIDE DEF e
<1>7. /\ \A m \in DOMAIN applied : applied[m].started # e.started
      /\ p.id <= issued
  BY <1>5 DEF Shown
<1>8. /\ applied' \in Seq(Used(PlanRow)) /\ Faithful(applied')
      /\ \A m \in DOMAIN applied' : \/ m \in DOMAIN applied /\ applied'[m] = applied[m]
                                    \/ applied'[m] = e
  BY <1>5, <1>6, <1>7, StartsOnce DEF UseTyped, UsedAsReviewed
<1>9. UseTyped'
  BY <1>2, <1>4, <1>8 DEF UseTyped
<1>10. UsedAsReviewed'
  BY <1>2, <1>8 DEF UsedAsReviewed, Faithful
<1>11. Shown'
  BY <1>2, <1>4, <1>5, <1>7, <1>8 DEF Shown, session_resource
<1>12. QED
  BY <1>9, <1>10, <1>11

(* Every other step gives nothing out and starts nothing reviewed.          *)
LEMMA OthersWithdraw ==
  ASSUME HealthInv, Using, [Next]_vars,
         start_execution => ~AsksApproval /\ ~StartsApproved,
         \A c \in Command : ~PlanKept(c) /\ ~apply_table_mutations(c)
  PROVE  Withdraws
<1> USE DEF Using
<1>0. minted' \in Nat /\ minted <= minted' /\ minted \in Nat
  BY MintedGrows DEF HealthInv, Typed
<1>q. ASSUME UNCHANGED <<plans, approvals, issued, shown, applied, ran>>,
             resource' # Absent => resource # Absent /\ resource'.session = resource.session
      PROVE  Withdraws
  BY <1>0, <1>q DEF Withdraws, shown
<1>g. ASSUME SessionGoes, approvals' \subseteq approvals, plans' \subseteq plans,
             UNCHANGED <<issued, applied, ran>>
      PROVE  Withdraws
  BY <1>0, <1>g DEF Withdraws, SessionGoes, session_resource
<1>l. ASSUME NEW s, close_lost_session(s), UNCHANGED <<issued, applied, ran>> PROVE Withdraws
  <2>1. approvals' \subseteq approvals /\ plans' \subseteq plans
    BY <1>l DEF close_lost_session, dispose_tab_results
  <2>2. CASE session_resource(s)
    BY <1>g, <1>l, <2>1, <2>2 DEF close_lost_session
  <2>3. CASE ~session_resource(s)
    BY <1>0, <1>l, <2>1, <2>3 DEF close_lost_session, Withdraws, shown
  <2>4. QED
    BY <2>2, <2>3
<1>1. CASE UNCHANGED vars
  BY <1>q, <1>1 DEF vars, registries, issuedOnce, history
<1>2. CASE \/ connect_profile \/ disconnect_profile \/ LoseSession \/ LoseMetadata
  BY <1>q, <1>2 DEF connect_profile, disconnect_profile, LoseSession, LoseMetadata, registries,
                    issuedOnce, history
<1>3. CASE open_tab_session
  <2>1. resource = Absent /\ resource'.session = minted + 1 /\ minted' = minted + 1
        /\ UNCHANGED <<plans, approvals, issued, asked, previewed, applied, ran>>
    BY <1>3 DEF open_tab_session, issuedOnce, history, shown
  <2>2. QED
    BY <1>0, <2>1 DEF Withdraws
<1>4. CASE close_tab_session \/ cleanup
  BY <1>g, <1>4 DEF close_tab_session, cleanup, dispose_tab_results
<1>5. CASE start_execution \/ start_explain
  <2>1. /\ approvals' = {} /\ asked' = Absent
        /\ UNCHANGED <<resource, plans, issued, previewed, applied, ran>>
    BY <1>5 DEF start_execution, StartsUnflagged, start_explain, dispose_tab_results, registries
  <2>2. QED
    BY <1>0, <2>1 DEF Withdraws
<1>6. CASE Jobs
  <2>1. PICK j \in jobs : JobEnds(j) \/ JobLost(j)
    BY <1>6 DEF Jobs
  <2>2. CASE JobEnds(j)
    BY <1>q, <2>2 DEF JobEnds, registries, issuedOnce, history
  <2>3. CASE JobLost(j) /\ j.kind = "query"
    BY <1>l, <2>3 DEF JobLost
  <2>4. CASE JobLost(j) /\ j.kind # "query"
    <3>1. CASE session_resource(j.session)
      BY <1>g, <2>4, <3>1 DEF JobLost
    <3>2. CASE ~session_resource(j.session)
      BY <1>0, <2>4, <3>2 DEF JobLost, Withdraws, shown
    <3>3. QED
      BY <3>1, <3>2
  <2>5. QED
    BY <2>1, <2>2, <2>3, <2>4
<1>7. CASE SessionCommands
  <2>1. PICK c \in Command :
          \/ change_tab_context(c) \/ ContextConfirmed(c) \/ ContextUnconfirmed(c)
          \/ set_transaction_mode(c) \/ ModeSet(c)
          \/ commit_or_rollback(c) \/ TransactionEnded(c)
          \/ LostUnder(c) \/ FailsOtherwise(c)
    BY <1>7 DEF SessionCommands
  <2>2. CASE LostUnder(c)
    BY <1>l, <2>2 DEF LostUnder
  <2>3. CASE ContextUnconfirmed(c)
    <3>1. CASE close_lost_session(cmd[c].session) /\ UNCHANGED issued
      BY <1>l, <2>3, <3>1 DEF ContextUnconfirmed
    <3>2. CASE UNCHANGED <<resource, issuedOnce, shown>>
      BY <1>q, <2>3, <3>2 DEF ContextUnconfirmed, issuedOnce
    <3>3. QED
      BY <2>3, <3>1, <3>2 DEF ContextUnconfirmed
  <2>4. CASE ContextConfirmed(c)
    <3>1. resource' # Absent => resource # Absent /\ resource'.session = resource.session
      BY <1>7, QuietSteps DEF Quiet
    <3>2. QED
      BY <1>q, <2>4, <3>1 DEF ContextConfirmed, issuedOnce, history
  <2>5. CASE \/ change_tab_context(c) \/ set_transaction_mode(c) \/ ModeSet(c)
             \/ commit_or_rollback(c) \/ TransactionEnded(c) \/ FailsOtherwise(c)
    BY <1>q, <2>5 DEF change_tab_context, set_transaction_mode, ModeSet, commit_or_rollback,
                      TransactionEnded, FailsOtherwise, registries, issuedOnce, history
  <2>6. QED
    BY <2>1, <2>2, <2>3, <2>4, <2>5
<1>8. CASE TableCommands
  <2>1. ASSUME NEW c \in Command, preview_table_mutations(c) \/ BatchEnds(c) PROVE Withdraws
    BY <1>q, <2>1 DEF preview_table_mutations, BatchEnds, registries, issuedOnce, history
  <2>2. CASE discard_mutation_plan
    <3>1. PICK p \in plans : /\ plans' = plans \ {p}
                             /\ previewed' = IF previewed = p THEN Absent ELSE previewed
      BY <2>2 DEF discard_mutation_plan
    <3>2. \A q \in plans' : session_resource(q.session) => previewed' = previewed
      BY <3>1 DEF Shown
    <3>3. UNCHANGED <<resource, approvals, issued, asked, applied, ran>>
      BY <2>2 DEF discard_mutation_plan, registries
    <3>4. QED
      BY <1>0, <3>1, <3>2, <3>3 DEF Withdraws
  <2>3. CASE load_schema
    <3>1. plans' = {} /\ previewed' = Absent
          /\ UNCHANGED <<resource, approvals, issued, asked, applied, ran>>
      BY <2>3 DEF load_schema, invalidate_profile_mutation_plans, registries
    <3>2. QED
      BY <1>0, <3>1 DEF Withdraws
  <2>4. QED
    BY <1>8, <2>1, <2>2, <2>3 DEF TableCommands
<1>9. CASE Health
  <2>1. PICK k \in Check : begin_connection_attempt(k) \/ check_profile_health(k)
    BY <1>9 DEF Health
  <2>2. CASE PingFails(k)
    <3>1. UNCHANGED <<plans, issued, applied, ran>>
      BY <2>2 DEF PingFails, HealthKeeps
    <3>2. \/ UNCHANGED <<resource, approvals, shown>>
          \/ SessionGoes /\ approvals' = {}
          \/ UNCHANGED <<resource, shown>> /\ approvals' = {}
      BY <2>2 DEF PingFails, dispose_tab_results
    <3>3. CASE SessionGoes /\ approvals' = {}
      BY <1>g, <3>1, <3>3
    <3>4. CASE UNCHANGED <<resource, shown>> /\ approvals' \subseteq approvals
      BY <1>0, <3>1, <3>4 DEF Withdraws, shown
    <3>5. QED
      BY <3>2, <3>3, <3>4
  <2>3. CASE ReplaceSession(k)
    <3>1. resource' # Absent => resource # Absent /\ resource'.session = resource.session
      BY <2>3 DEF ReplaceSession, session_resource, HealthInv, Typed, Resource
    <3>2. QED
      BY <1>q, <2>3, <3>1 DEF ReplaceSession, HealthKeeps
  <2>4. CASE ~PingFails(k) /\ ~ReplaceSession(k)
    BY <1>q, <2>1, <2>4
       DEF begin_connection_attempt, check_profile_health, CheckCancelled, PingMetadata,
           ReopenMetadata, CloneSessions, SkipInUse, PingOk, ReopenSession, HealthKeeps,
           issuedOnce, history
  <2>5. QED
    BY <2>2, <2>3, <2>4
<1>10. QED
  BY <1>1, <1>2, <1>3, <1>4, <1>5, <1>6, <1>7, <1>8, <1>9 DEF Next, Step

(* An approval starts the statement that was shown, in the session and the  *)
(* context it was shown for, once; a plan is applied as it was previewed,   *)
(* once: whatever was asked, previewed, refreshed, lost or replaced between *)
(* (consume_approval, apply_table_mutations).                               *)
THEOREM UsedOnceAsReviewed == Spec => []UsedAsReviewed
<1>1. Init => HealthInv /\ Asked /\ Using
  <2> SUFFICES ASSUME Init PROVE Asked /\ Using
    BY HealthInitially
  <2>1. ran = <<>> /\ applied = <<>> /\ DOMAIN ran = {} /\ DOMAIN applied = {}
    BY DEF Init
  <2>2. UseTyped
    BY <2>1, EmptySeq DEF Init, UseTyped
  <2>3. QED
    BY <2>1, <2>2 DEF Init, Asked, Free, Using, Shown, UsedAsReviewed, Faithful
<1>2. ASSUME HealthInv, Asked, Using, [Next]_vars PROVE (HealthInv /\ Asked /\ Using)'
  <2>1. HealthInv' /\ Asked'
    BY <1>2, HealthInductive, CommandsAsked
  <2>2. CASE start_execution /\ (AsksApproval \/ StartsApproved)
    <3>1. UNCHANGED <<resource, minted>>
      BY <2>2 DEF start_execution, registries
    <3>2. QED
      BY <1>2, <2>1, <2>2, <3>1, ApprovalsAreAsked, ApprovalsStartOnce
  <2>3. CASE \E c \in Command : PlanKept(c) \/ apply_table_mutations(c)
    BY <1>2, <2>1, <2>3, PlansArePreviewed, PlansStartOnce
  <2>4. CASE /\ start_execution => ~AsksApproval /\ ~StartsApproved
             /\ \A c \in Command : ~PlanKept(c) /\ ~apply_table_mutations(c)
    <3>1. Withdraws
      BY <1>2, <2>4, OthersWithdraw
    <3>2. QED
      BY <1>2, <2>1, <3>1, WithdrawsKeeps DEF Using
  <2>5. QED
    BY <2>1, <2>2, <2>3, <2>4
<1>3. Using => UsedAsReviewed
  BY DEF Using
<1>4. QED
  BY <1>1, <1>2, <1>3, PTL DEF Spec
=============================================================================
