----------------------- MODULE SessionLifecycleClaims -----------------------
(***************************************************************************)
(* What the documentation says of connections, sessions and executions and *)
(* an interleaving of SessionLifecycle refutes.  Each has a configuration  *)
(* of its own.  Two claims are predicates of SessionLifecycle that hold    *)
(* only while the page serialises its commands (OneJob) or is not reloaded *)
(* (RegistriesMatch).                                                      *)
(***************************************************************************)
EXTENDS SessionLifecycle

CONSTANTS w1, p1, t1, s1, s2, e1, e2, c1, c2

ClaimHome == [x \in Tab |-> p1]

(* Two commands at a time, and no connection is lost.                      *)
Calm(reloads, serialises) ==
  {[commands |-> 2, reloads |-> reloads, losses |-> FALSE, serialises |-> serialises]}

ClaimReload == Calm(1, TRUE)
ClaimNoReload == Calm(0, TRUE)
ClaimAnyPage == Calm(0, FALSE)

(* "Per-tab session opens are deduplicated by tab identifier"              *)
(* (docs/architecture/0013, line 35): a tab has one native session.  The   *)
(* page's table of pending opens does not survive a reload, and            *)
(* open_tab_session looks for an existing session before it opens one.     *)
OneSessionPerTab ==
  \A r, s \in Session :
    r # s /\ native_sessions[r] # Absent => native_sessions[r] # native_sessions[s]

(* "Pending session opens [...] block [...] profile disconnect" (0013,     *)
(* line 37): no tab has a session of a disconnected profile.  The page     *)
(* checks before it asks for the disconnect; the open may begin after.     *)
DisconnectedMeansIdle ==
  \A s \in Session : native_sessions[s] # Absent => Home[native_sessions[s]] \in connected

(* "Cancellation or timeout drops the in-progress future before a session  *)
(* can enter runtime state" (docs/architecture/0006, line 26): what was    *)
(* told to cancel never enters it.  The entry of the attempt outlives the  *)
(* select! that watches it.                                                *)
CancelledStaysOut ==
  [][\A c \in Command :
       At(c, "connect", "opened") /\ cmd[c].cancelled /\ cmd'[c] = Absent
         => connected' \subseteq connected]_vars

(* "Connection test/setup futures have one native owner, [...] and an      *)
(* explicit cancellation channel" (0006, line 26): the connection that the *)
(* page waits for can be cancelled.  finish_connection_attempt of a        *)
(* command of the page before removes the entry that the new one made.     *)
ConnectCanBeCancelled ==
  \A c \in Command :
    At(c, "connect", "opening") /\ ~cmd[c].cancelled /\ cmd[c].generation = page.generation
      => attempts[cmd[c].profile] = c
=============================================================================
