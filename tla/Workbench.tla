----------------------------- MODULE Workbench -----------------------------
(***************************************************************************)
(* The commands of phase2.rs that work on the session of one tab while the *)
(* health checks of its profile look at the same session:                  *)
(* connect_profile, disconnect_profile, open_tab_session,                   *)
(* close_tab_session, start_execution, start_explain, change_tab_context,  *)
(* set_transaction_mode, commit_transaction, rollback_transaction,         *)
(* preview_table_mutations, apply_table_mutations, discard_mutation_plan,  *)
(* the metadata loads, and check_profile_health.                           *)
(*                                                                         *)
(* The registries of Phase2Runtime name a session by its identifier, which *)
(* survives when a health check gives the session another connection.      *)
(* Commands and checks keep clones of what they read and go on with them   *)
(* after each await; a step of this module is what runs between two awaits *)
(* (SessionLifecycle splits these at each lock).  The client of the native *)
(* side may send any request with the identifiers it was given.            *)
(***************************************************************************)
EXTENDS Integers, Sequences, FiniteSets

CONSTANTS
  Context,        \* databases or schemas a session can be in
  Home,           \* the one a new connection starts in
  Statement,      \* flagged texts; the others need no approval
  Command, Check, \* commands and health checks in flight
  Settings,       \* the bounds and faults a behaviour may keep to
  Absent

Operation == {"execute", "explain", "context", "mode", "transaction", "plan", "refresh"}

(* sends: what the client asks for, `commands' at a time, during `checks';  *)
(* generations, sessions, connections, issues (plans and approvals) and    *)
(* reloads bound what is opened and given out; loses: the connections that *)
(* may be lost; timeouts: a ping may fail although the connection is well. *)
Setting == [sends : SUBSET Operation, commands : Nat, generations : Nat, sessions : Nat,
            connections : Nat, issues : Nat, reloads : Nat, checks : SUBSET Check,
            loses : SUBSET {"metadata", "session"}, timeouts : BOOLEAN]

Connected == [generation : Nat, metadata : {"up", "down"}]

(* What a check knows: the generation it began under, the clone of the      *)
(* session it looks at, and the connection that is to replace it.          *)
CheckRow ==
  [at : {"metadata", "reopen", "sessions", "session", "ping", "reopening", "replacing"},
   generation : Nat, session : Nat \cup {Absent}, conn : Nat \cup {Absent},
   context : Context \cup {Absent}, automatic : BOOLEAN \cup {Absent},
   new : Nat \cup {Absent}, cancel : {"no", "sent", "late"}]

ASSUME WorkbenchAssumption ==
  /\ Home \in Context
  /\ Settings \subseteq Setting
  /\ Absent \notin Check \cup Command
  /\ Absent \notin Connected \cup CheckRow

VARIABLES
  connected,    \* Phase2Runtime.connected: [generation, metadata] or Absent
  generations,  \* explicit connections so far
  native,       \* the native connections opened for the tab, in order
  resource,     \* Phase2Runtime.sessions: [session, conn, context] or Absent
  minted,       \* session identifiers issued
  plans,        \* Phase2Runtime.mutation_plans
  approvals,    \* Phase2Runtime.pending_approvals
  issued,       \* plan identifiers and approval tokens issued
  jobs,         \* Phase2Runtime.executions
  attempt,      \* the Health entry of connection_attempts: a check or Absent
  check,        \* [Check -> a health check in flight, or Absent]
  cmd,          \* [Command -> a command in flight, or Absent]
  reloads,      \* clean-ups so far
  asked,        \* history: the approval its user was asked for last and may still give
  previewed,    \* history: the plan its user may still apply, or Absent
  applied,      \* history: the batches handed to the adapter
  ran,          \* history: the approved executions
  setting

registries == <<connected, generations, resource, minted, attempt>>
issuedOnce == <<plans, approvals, issued>>
shown == <<asked, previewed>>
history == <<shown, applied, ran>>
vars == <<registries, native, issuedOnce, jobs, check, cmd, reloads, history, setting>>

Fresh == [up |-> TRUE, context |-> Home, automatic |-> TRUE, certainty |-> "clean"]

Init ==
  /\ connected = Absent /\ generations = 0
  /\ native = <<>> /\ resource = Absent /\ minted = 0
  /\ plans = {} /\ approvals = {} /\ issued = 0
  /\ jobs = {}
  /\ attempt = Absent
  /\ check = [k \in Check |-> Absent]
  /\ cmd = [c \in Command |-> Absent]
  /\ reloads = 0
  /\ asked = Absent /\ previewed = Absent /\ applied = <<>> /\ ran = <<>>
  /\ setting \in Settings

-----------------------------------------------------------------------------
(* What the commands share.                                                *)

(* authorize_session and session_resource.                                 *)
session_resource(s) == resource # Absent /\ resource.session = s

ensure_session_idle(s) == \A j \in jobs : j.session # s

HasPlan(s) == \E p \in plans : p.session = s

(* dispose_tab_results, of the tab: its approvals go with its results.     *)
dispose_tab_results == approvals' = {}

(* What the user of the tab was shown goes with its session.                *)
SessionGoes == resource' = Absent /\ asked' = Absent /\ previewed' = Absent

(* close_lost_session_if_needed, when the error was a lost connection.  The *)
(* registry of sessions is asked by identifier.                            *)
close_lost_session(s) ==
  /\ IF session_resource(s) THEN SessionGoes ELSE UNCHANGED <<resource, shown>>
  /\ plans' = {p \in plans : p.session # s}
  /\ dispose_tab_results

Free(c) == cmd[c] = Absent

Answer(c) == cmd' = [cmd EXCEPT ![c] = Absent]

(* The command goes on with the clone of the resource it read.             *)
Send(c, request) ==
  /\ Free(c)
  /\ Cardinality({d \in Command : ~Free(d)}) < setting.commands
  /\ cmd' = [cmd EXCEPT ![c] = request]

Request(op, arg) ==
  [op |-> op, arg |-> arg, session |-> resource.session, conn |-> resource.conn,
   context |-> resource.context]

At(c, op) == ~Free(c) /\ cmd[c].op = op

Up(c) == native[cmd[c].conn].up

(* The connection was lost under the command.                              *)
LostUnder(c) ==
  /\ ~Free(c) /\ ~Up(c)
  /\ close_lost_session(cmd[c].session)
  /\ Answer(c)
  /\ UNCHANGED <<connected, generations, minted, attempt, native, issued, jobs, check, applied, ran>>

(* Another error, of the server or of the adapter.                         *)
FailsOtherwise(c) ==
  /\ ~Free(c) /\ Up(c) /\ cmd[c].op \in {"context", "mode", "transaction", "preview", "apply"}
  /\ Answer(c)
  /\ UNCHANGED <<registries, native, issuedOnce, jobs, check, history>>

-----------------------------------------------------------------------------
(* The connection of the profile and the session of the tab.               *)

connect_profile ==
  /\ connected = Absent
  /\ generations < setting.generations
  /\ generations' = generations + 1
  /\ connected' = [generation |-> generations + 1, metadata |-> "up"]
  /\ UNCHANGED <<native, resource, minted, attempt, issuedOnce, jobs, check, cmd, history>>

(* A cancelled check is told on its next poll; until then it may finish    *)
(* the step it is in.                                                      *)
cancel_health_attempt ==
  check' = [k \in Check |->
              IF k = attempt THEN [check[k] EXCEPT !.cancel = "sent"] ELSE check[k]]

disconnect_profile ==
  /\ connected # Absent
  /\ resource = Absent
  /\ cancel_health_attempt
  /\ connected' = Absent
  /\ UNCHANGED <<generations, native, resource, minted, attempt, issuedOnce, jobs, cmd, history>>

open_tab_session ==
  /\ connected # Absent
  /\ resource = Absent
  /\ minted < setting.sessions /\ Len(native) < setting.connections
  /\ native' = Append(native, Fresh)
  /\ minted' = minted + 1
  /\ resource' = [session |-> minted + 1, conn |-> Len(native) + 1, context |-> Home]
  /\ UNCHANGED <<connected, generations, attempt, issuedOnce, jobs, check, cmd, history>>

close_tab_session ==
  /\ resource # Absent
  /\ ensure_session_idle(resource.session)
  /\ ~HasPlan(resource.session)
  /\ native[resource.conn].certainty = "clean"
  /\ SessionGoes
  /\ dispose_tab_results
  /\ UNCHANGED <<connected, generations, minted, attempt, native, plans, issued, jobs, check, cmd,
                 applied, ran>>

(* Phase2Runtime::cleanup, when a page loads.                              *)
cleanup ==
  /\ reloads < setting.reloads
  /\ reloads' = reloads + 1
  /\ connected' = Absent /\ attempt' = Absent
  /\ SessionGoes
  /\ plans' = {} /\ approvals' = {} /\ jobs' = {}
  /\ cancel_health_attempt
  /\ UNCHANGED <<generations, native, minted, issued, cmd, applied, ran, setting>>

-----------------------------------------------------------------------------
(* Executions.  A flagged statement needs an approval for the statement,   *)
(* the session and the context its fingerprint was computed from.          *)

Approval(token, statement) ==
  [token |-> token, session |-> resource.session, statement |-> statement,
   context |-> resource.context]

(* The tab's other approvals go.                                           *)
issue_approval(statement) ==
  /\ issued < setting.issues
  /\ issued' = issued + 1
  /\ LET a == Approval(issued + 1, statement)
     IN approvals' = {a} /\ asked' = a

(* Faulty: the fingerprint is not compared.                                *)
consume_approval_of_session(a, statement) == a.session = resource.session

(* consume_approval removes the token, then compares.                      *)
consume_approval(a, statement) ==
  /\ a.session = resource.session
  /\ a.statement = statement
  /\ a.context = resource.context

StartsJob(kind) == jobs' = jobs \cup {[session |-> resource.session, conn |-> resource.conn,
                                       kind |-> kind]}

Startable ==
  /\ resource # Absent /\ connected # Absent
  /\ ensure_session_idle(resource.session)

(* An unflagged script.  What may write is refused while the certainty is  *)
(* unknown; a read is not.                                                 *)
StartsUnflagged ==
  /\ Startable
  /\ StartsJob("query")
  /\ dispose_tab_results
  /\ asked' = Absent
  /\ UNCHANGED <<plans, issued, previewed, applied, ran>>

AsksApproval ==
  /\ Startable
  /\ native[resource.conn].certainty # "unknown"
  /\ \E statement \in Statement : issue_approval(statement)
  /\ UNCHANGED <<plans, jobs, previewed, applied, ran>>

StartsApproved ==
  /\ Startable
  /\ native[resource.conn].certainty # "unknown"
  /\ \E a \in approvals, statement \in Statement :
       \/ /\ consume_approval(a, statement)
          /\ StartsJob("query")
          /\ ran' = Append(ran, [reviewed |-> asked, started |-> Approval(a.token, statement)])
          /\ asked' = Absent
          /\ dispose_tab_results
       \/ /\ ~consume_approval(a, statement)
          /\ approvals' = approvals \ {a}
          /\ UNCHANGED <<jobs, asked, ran>>
  /\ UNCHANGED <<plans, issued, previewed, applied>>

start_execution ==
  /\ "execute" \in setting.sends
  /\ StartsUnflagged \/ AsksApproval \/ StartsApproved
  /\ UNCHANGED <<registries, native, check, cmd>>

start_explain ==
  /\ "explain" \in setting.sends
  /\ Startable
  /\ StartsJob("explain")
  /\ dispose_tab_results
  /\ asked' = Absent
  /\ UNCHANGED <<registries, native, plans, issued, check, cmd, previewed, applied, ran>>

(* What a script leaves behind: handwritten BEGIN and COMMIT, a lazy BEGIN *)
(* in manual mode, a cancelled statement.                                  *)
Leaves(j) ==
  IF j.kind = "explain" THEN {native[j.conn].certainty} ELSE {"clean", "active", "unknown"}

(* The end of bridge_execution_events and of run_explain.                  *)
JobEnds(j) ==
  /\ native[j.conn].up
  /\ \E certainty \in Leaves(j) : native' = [native EXCEPT ![j.conn].certainty = certainty]
  /\ jobs' = jobs \ {j}
  /\ UNCHANGED <<registries, issuedOnce, check, cmd, history>>

(* run_explain leaves the approvals and the results of the tab.            *)
JobLost(j) ==
  /\ ~native[j.conn].up
  /\ jobs' = jobs \ {j}
  /\ IF j.kind = "query" THEN close_lost_session(j.session)
     ELSE /\ IF session_resource(j.session) THEN SessionGoes ELSE UNCHANGED <<resource, shown>>
          /\ plans' = {p \in plans : p.session # j.session}
          /\ UNCHANGED approvals
  /\ UNCHANGED <<connected, generations, minted, attempt, native, issued, check, cmd, applied, ran>>

Jobs == \E j \in jobs : JobEnds(j) \/ JobLost(j)

-----------------------------------------------------------------------------
(* change_tab_context, set_transaction_mode, commit and rollback.          *)


change_tab_context(c) ==
  /\ "context" \in setting.sends
  /\ resource # Absent
  /\ ensure_session_idle(resource.session)
  /\ ~HasPlan(resource.session)
  /\ native[resource.conn].certainty = "clean"
  /\ \E context \in Context \ {resource.context} : Send(c, Request("context", context))
  /\ UNCHANGED <<registries, native, issuedOnce, jobs, check, history>>

(* The server changed the context and confirmed it.  The session may have  *)
(* gone meanwhile.                                                         *)
ContextConfirmed(c) ==
  /\ At(c, "context") /\ Up(c)
  /\ native' = [native EXCEPT ![cmd[c].conn].context = cmd[c].arg]
  /\ IF session_resource(cmd[c].session)
       THEN resource' = [resource EXCEPT !.context = cmd[c].arg]
       ELSE UNCHANGED resource
  /\ Answer(c)
  /\ UNCHANGED <<connected, generations, minted, attempt, issuedOnce, jobs, check, history>>

(* The change was made and its confirmation failed; a mismatch is reported  *)
(* as a lost connection.                                                   *)
ContextUnconfirmed(c) ==
  /\ At(c, "context") /\ Up(c)
  /\ native' = [native EXCEPT ![cmd[c].conn].context = cmd[c].arg]
  /\ \/ /\ close_lost_session(cmd[c].session)
        /\ UNCHANGED issued
     \/ UNCHANGED <<resource, issuedOnce, shown>>
  /\ Answer(c)
  /\ UNCHANGED <<connected, generations, minted, attempt, jobs, check, applied, ran>>

(* The mode and the end of a transaction ask for no idle session: they wait *)
(* for the connection.                                                     *)
set_transaction_mode(c) ==
  /\ "mode" \in setting.sends
  /\ resource # Absent
  /\ \E automatic \in BOOLEAN : Send(c, Request("mode", automatic))
  /\ UNCHANGED <<registries, native, issuedOnce, jobs, check, history>>

(* PostgreSQL keeps the mode on the client's side: it asks no server.      *)
ModeSet(c) ==
  /\ At(c, "mode")
  /\ cmd[c].arg => native[cmd[c].conn].certainty = "clean"
  /\ native' = [native EXCEPT ![cmd[c].conn].automatic = cmd[c].arg]
  /\ Answer(c)
  /\ UNCHANGED <<registries, issuedOnce, jobs, check, history>>

commit_or_rollback(c) ==
  /\ "transaction" \in setting.sends
  /\ resource # Absent
  /\ Send(c, Request("transaction", Absent))
  /\ UNCHANGED <<registries, native, issuedOnce, jobs, check, history>>

TransactionEnded(c) ==
  /\ At(c, "transaction") /\ Up(c)
  /\ native' = [native EXCEPT ![cmd[c].conn].certainty = "clean"]
  /\ Answer(c)
  /\ UNCHANGED <<registries, issuedOnce, jobs, check, history>>

SessionCommands ==
  \E c \in Command :
    \/ change_tab_context(c) \/ ContextConfirmed(c) \/ ContextUnconfirmed(c)
    \/ set_transaction_mode(c) \/ ModeSet(c)
    \/ commit_or_rollback(c) \/ TransactionEnded(c)
    \/ LostUnder(c) \/ FailsOtherwise(c)

-----------------------------------------------------------------------------
(* Staged table changes.                                                   *)

CleanAutomatic(i) == native[i].automatic /\ native[i].certainty = "clean"

preview_table_mutations(c) ==
  /\ "plan" \in setting.sends
  /\ resource # Absent /\ connected # Absent
  /\ ensure_session_idle(resource.session)
  /\ CleanAutomatic(resource.conn)
  /\ Send(c, Request("preview", Absent))
  /\ UNCHANGED <<registries, native, issuedOnce, jobs, check, history>>

(* object_detail has answered.  The plan is kept under the session and the *)
(* context the request began with; the tab's other plans go.               *)
PlanKept(c) ==
  /\ At(c, "preview") /\ Up(c)
  /\ issued < setting.issues
  /\ issued' = issued + 1
  /\ LET p == [id |-> issued + 1, session |-> cmd[c].session, context |-> cmd[c].context]
     IN plans' = {p} /\ previewed' = p
  /\ Answer(c)
  /\ UNCHANGED <<registries, native, approvals, jobs, check, asked, applied, ran>>

(* The plan is taken out under the lock that validated it.                 *)
TakesPlan(p) == plans' = plans \ {p}

apply_table_mutations(c) ==
  /\ "plan" \in setting.sends
  /\ resource # Absent
  /\ ensure_session_idle(resource.session)
  /\ \E p \in plans :
       /\ p.session = resource.session
       /\ p.context = resource.context
       /\ TakesPlan(p)
       /\ applied' = Append(applied, [reviewed |-> previewed,
                                      started |-> [id |-> p.id, session |-> resource.session,
                                                   context |-> resource.context]])
  /\ previewed' = Absent
  /\ Send(c, Request("apply", Absent))
  /\ UNCHANGED <<registries, native, approvals, issued, jobs, check, asked, ran>>

(* Committed, or rolled back and refused; an end that could not be         *)
(* confirmed leaves the certainty unknown.                                 *)
BatchEnds(c) ==
  /\ At(c, "apply") /\ Up(c)
  /\ CleanAutomatic(cmd[c].conn)
  /\ \E certainty \in {"clean", "unknown"} :
       native' = [native EXCEPT ![cmd[c].conn].certainty = certainty]
  /\ Answer(c)
  /\ UNCHANGED <<registries, issuedOnce, jobs, check, history>>

discard_mutation_plan ==
  /\ "plan" \in setting.sends
  /\ \E p \in plans :
       /\ session_resource(p.session)
       /\ plans' = plans \ {p}
       /\ previewed' = IF previewed = p THEN Absent ELSE previewed
  /\ UNCHANGED <<registries, native, approvals, issued, jobs, check, cmd, asked, applied, ran>>

invalidate_profile_mutation_plans == plans' = {}

(* load_schema_namespaces, load_schema_objects and                         *)
(* load_schema_object_detail change no more than this before they ask the  *)
(* metadata session.                                                       *)
load_schema ==
  /\ "refresh" \in setting.sends
  /\ invalidate_profile_mutation_plans
  /\ previewed' = Absent
  /\ UNCHANGED <<registries, native, approvals, issued, jobs, check, cmd, asked, applied, ran>>

TableCommands ==
  \/ \E c \in Command :
       \/ preview_table_mutations(c) \/ PlanKept(c)
       \/ apply_table_mutations(c) \/ BatchEnds(c)
  \/ discard_mutation_plan
  \/ load_schema

-----------------------------------------------------------------------------
(* check_profile_health.  The check keeps the generation, then the         *)
(* session, its connection, its context and its mode.                      *)

health_generation_is_current(k) ==
  connected # Absent /\ connected.generation = check[k].generation

begin_connection_attempt(k) ==
  /\ k \in setting.checks
  /\ check[k] = Absent
  /\ connected # Absent
  /\ attempt = Absent
  /\ attempt' = k
  /\ check' = [check EXCEPT ![k] = [at |-> "metadata", generation |-> connected.generation,
                                    session |-> Absent, conn |-> Absent, context |-> Absent,
                                    automatic |-> Absent, new |-> Absent, cancel |-> "no"]]
  /\ UNCHANGED <<connected, generations, native, resource, minted, issuedOnce, jobs, cmd, history>>

(* Faulty: whatever check holds the entry now.                             *)
finish_any_attempt(k) ==
  /\ check' = [check EXCEPT ![k] = Absent]
  /\ attempt' = Absent

(* Only the entry of this check.                                           *)
finish_own_attempt(k) ==
  /\ check' = [check EXCEPT ![k] = Absent]
  /\ attempt' = IF attempt = k THEN Absent ELSE attempt

(* A check that was cancelled between two polls finishes its step, and is  *)
(* told on the next poll.                                                  *)
Polled(k, at) ==
  /\ check[k] # Absent /\ check[k].at = at
  /\ check[k].cancel # "late"

Goes(k, known) ==
  /\ check' = [check EXCEPT ![k] =
                 [known EXCEPT !.cancel = IF check[k].cancel = "no" THEN "no" ELSE "late"]]
  /\ UNCHANGED attempt

CheckCancelled(k) ==
  /\ check[k] # Absent /\ check[k].cancel # "no"
  /\ finish_own_attempt(k)
  /\ UNCHANGED <<connected, generations, native, resource, minted, issuedOnce, jobs, cmd, history>>

HealthKeeps == UNCHANGED <<generations, minted, plans, issued, jobs, cmd, applied, ran>>

PingMetadata(k) ==
  /\ Polled(k, "metadata")
  /\ \/ Goes(k, [check[k] EXCEPT !.at = "sessions"])
     \/ IF health_generation_is_current(k)
          THEN connected.metadata = "down" /\ Goes(k, [check[k] EXCEPT !.at = "reopen"])
          ELSE finish_own_attempt(k)
  /\ UNCHANGED <<connected, native, resource, approvals, shown>> /\ HealthKeeps

(* Faulty: the connection of the profile is set without a look at its       *)
(* generation.                                                             *)
OwnsAnyProfile(k) == connected # Absent

OwnsProfile(k) == health_generation_is_current(k)

ReopenMetadata(k) ==
  /\ Polled(k, "reopen")
  /\ \/ /\ OwnsProfile(k)
        /\ connected' = [connected EXCEPT !.metadata = "up"]
        /\ Goes(k, [check[k] EXCEPT !.at = "sessions"])
     \/ /\ ~OwnsProfile(k)
        /\ finish_own_attempt(k)
        /\ UNCHANGED connected
     \/ /\ Goes(k, [check[k] EXCEPT !.at = "sessions"])
        /\ UNCHANGED connected
  /\ UNCHANGED <<native, resource, approvals, shown>> /\ HealthKeeps

(* The sessions are cloned once, before the loop that awaits each of them. *)
CloneSessions(k) ==
  /\ Polled(k, "sessions")
  /\ IF health_generation_is_current(k) /\ resource # Absent
       THEN Goes(k, [check[k] EXCEPT !.at = "session", !.session = resource.session,
                                     !.conn = resource.conn, !.context = resource.context])
       ELSE finish_own_attempt(k)
  /\ UNCHANGED <<connected, native, resource, approvals, shown>> /\ HealthKeeps

(* Executions and plans own their connections.                             *)
SkipInUse(k) ==
  /\ Polled(k, "session")
  /\ IF /\ health_generation_is_current(k)
        /\ ensure_session_idle(check[k].session)
        /\ ~HasPlan(check[k].session)
       THEN Goes(k, [check[k] EXCEPT !.at = "ping"])
       ELSE finish_own_attempt(k)
  /\ UNCHANGED <<connected, native, resource, approvals, shown>> /\ HealthKeeps

(* It is well, or another command has the connection.                      *)
PingOk(k) ==
  /\ Polled(k, "ping")
  /\ \/ native[check[k].conn].up
     \/ \E j \in jobs : j.conn = check[k].conn
     \/ \E c \in Command : ~Free(c) /\ cmd[c].conn = check[k].conn
  /\ finish_own_attempt(k)
  /\ UNCHANGED <<connected, native, resource, approvals, shown>> /\ HealthKeeps

(* Faulty: no timeout, so a lost connection never answers.                 *)
PingWaits(k) == setting.timeouts

PingCanFail(k) == ~native[check[k].conn].up \/ setting.timeouts

(* Faulty: the certainty is not looked at.                                 *)
ReplaceableAlways(k) == TRUE

Replaceable(k) == native[check[k].conn].certainty = "clean"

(* A session in a transaction is closed for the user to review; an idle,   *)
(* clean one is opened again.                                              *)
PingFails(k) ==
  /\ Polled(k, "ping") /\ PingCanFail(k)
  /\ IF ~health_generation_is_current(k) \/ ~ensure_session_idle(check[k].session)
       THEN finish_own_attempt(k) /\ UNCHANGED <<resource, approvals, shown>>
       ELSE IF Replaceable(k)
              THEN /\ Goes(k, [check[k] EXCEPT !.at = "reopening",
                                               !.automatic = native[check[k].conn].automatic])
                   /\ UNCHANGED <<resource, approvals, shown>>
              ELSE /\ IF session_resource(check[k].session)
                        THEN SessionGoes
                        ELSE UNCHANGED <<resource, shown>>
                   /\ dispose_tab_results
                   /\ finish_own_attempt(k)
  /\ UNCHANGED <<connected, native>> /\ HealthKeeps

(* open, change_context when it is not the cloned one, set_automatic when   *)
(* it was manual; then the generation and the idleness are asked again.    *)
ReopenSession(k) ==
  /\ Polled(k, "reopening")
  /\ \/ /\ Len(native) < setting.connections
        /\ native' = Append(native, [Fresh EXCEPT !.context = check[k].context,
                                                  !.automatic = check[k].automatic])
        /\ IF health_generation_is_current(k) /\ ensure_session_idle(check[k].session)
             THEN Goes(k, [check[k] EXCEPT !.at = "replacing", !.new = Len(native) + 1])
             ELSE finish_own_attempt(k)
     \/ finish_own_attempt(k) /\ UNCHANGED native
  /\ UNCHANGED <<connected, resource, approvals, shown>> /\ HealthKeeps

(* After one more await, by the identifier of the session alone.           *)
ReplaceSession(k) ==
  /\ Polled(k, "replacing")
  /\ resource' = IF session_resource(check[k].session)
                   THEN [resource EXCEPT !.conn = check[k].new] ELSE resource
  /\ finish_own_attempt(k)
  /\ UNCHANGED <<connected, native, approvals, shown>> /\ HealthKeeps

check_profile_health(k) ==
  \/ CheckCancelled(k)
  \/ PingMetadata(k) \/ ReopenMetadata(k)
  \/ CloneSessions(k) \/ SkipInUse(k) \/ PingOk(k) \/ PingFails(k)
  \/ ReopenSession(k) \/ ReplaceSession(k)

Health == \E k \in Check : begin_connection_attempt(k) \/ check_profile_health(k)

-----------------------------------------------------------------------------

LoseSession ==
  /\ "session" \in setting.loses
  /\ resource # Absent
  /\ native[resource.conn].up
  /\ native' = [native EXCEPT ![resource.conn].up = FALSE]
  /\ UNCHANGED <<registries, issuedOnce, jobs, check, cmd, history>>

LoseMetadata ==
  /\ "metadata" \in setting.loses
  /\ connected # Absent
  /\ connected' = [connected EXCEPT !.metadata = "down"]
  /\ UNCHANGED <<generations, native, resource, minted, attempt, issuedOnce, jobs, check, cmd, history>>

Step ==
  \/ connect_profile \/ disconnect_profile \/ open_tab_session \/ close_tab_session
  \/ start_execution \/ start_explain \/ Jobs
  \/ SessionCommands \/ TableCommands \/ Health
  \/ LoseSession \/ LoseMetadata

Next == (Step /\ UNCHANGED <<reloads, setting>>) \/ cleanup

(* Every await of a check is bounded by a timeout, and jobs and commands    *)
(* end; the user owes nothing.                                             *)
Fairness == \A k \in Check : WF_vars(check_profile_health(k) /\ UNCHANGED <<reloads, setting>>)

Spec == Init /\ [][Next]_vars /\ Fairness

-----------------------------------------------------------------------------
(* Correctness.                                                            *)

TypeOK ==
  /\ connected \in [generation : 1 .. generations, metadata : {"up", "down"}] \cup {Absent}
  /\ generations \in 0 .. setting.generations
  /\ native \in Seq([up : BOOLEAN, context : Context, automatic : BOOLEAN,
                     certainty : {"clean", "active", "unknown"}])
  /\ Len(native) <= setting.connections
  /\ resource \in [session : 1 .. minted, conn : DOMAIN native, context : Context] \cup {Absent}
  /\ minted \in 0 .. setting.sessions
  /\ plans \subseteq [id : 1 .. issued, session : 1 .. minted, context : Context]
  /\ approvals \subseteq [token : 1 .. issued, session : 1 .. minted, statement : Statement,
                          context : Context]
  /\ issued \in 0 .. setting.issues
  /\ jobs \subseteq [session : 1 .. minted, conn : DOMAIN native, kind : {"query", "explain"}]
  /\ attempt \in Check \cup {Absent}
  /\ check \in [Check -> CheckRow \cup {Absent}]
  /\ reloads \in 0 .. setting.reloads
  /\ setting \in Settings

(* A reconnection is silent, so the connection a check throws away, when it *)
(* really was lost, has no transaction open or in doubt: the certainty was *)
(* read before another connection was opened, and commands run meanwhile.  *)
NothingLost ==
  [][\A k \in Check :
       (/\ Polled(k, "replacing") /\ ~setting.timeouts
        /\ resource # Absent /\ resource' # Absent /\ resource'.conn # resource.conn)
       => native[resource.conn].certainty = "clean"]_vars

(* A check works for the explicit connection it began under: it never       *)
(* brings back a profile that was disconnected, nor touches the connection *)
(* or the session that a later Connect made (health_generation_is_current, *)
(* and the identifier of the session).                                     *)
OwnGeneration ==
  [][\A k \in Check :
       (check[k] # Absent /\ check'[k] # check[k] /\ <<connected, resource>>' # <<connected, resource>>
          /\ connected' # Absent)
       => connected # Absent /\ connected.generation = check[k].generation]_vars

(* Entries and checks go together: whoever holds the Health entry of the    *)
(* profile is still running and will give it back, and no second check of  *)
(* the profile runs that was not cancelled.                                *)
OneLiveCheck ==
  /\ attempt # Absent => check[attempt] # Absent
  /\ \A k \in Check : check[k] # Absent /\ check[k].cancel = "no" => attempt = k

(* What starts is what its user reviewed last and could still see, once:    *)
(* an approval starts one execution of the statement, on the session and   *)
(* in the context that were shown, and not after another execution of the  *)
(* tab or the end of the session; a plan starts one batch, not after a     *)
(* newer preview, a discard, a refresh of the metadata or the end of its   *)
(* session, and never in another context.                                  *)
Faithful(starts) ==
  \A m, n \in DOMAIN starts :
    /\ starts[m].reviewed = starts[m].started
    /\ starts[m].started = starts[n].started => m = n

UsedAsReviewed == Faithful(ran) /\ Faithful(applied)

(* A check ends, and the profile can be checked again.                     *)
HealthEnds == \A k \in Check : check[k] # Absent ~> check[k] = Absent
=============================================================================
