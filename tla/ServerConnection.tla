--------------------------- MODULE ServerConnection ---------------------------
(***************************************************************************)
(* The far end of one native database session: what the server, or the     *)
(* SQLite library, holds for it, and the control connections by which a    *)
(* server session is cancelled.  None of it is code of the repository; it  *)
(* is modelled from what the adapters in querynot-core ask of it.  The     *)
(* adapters (MySqlSession, PostgresSession, SqliteSession) extend this.    *)
(*                                                                         *)
(*   server.up          the connection is alive                            *)
(*   server.tx          "none", "open", or "aborted" (PostgreSQL after an  *)
(*                      error inside a transaction)                        *)
(*   server.autocommit  the session variable of the MySQL family           *)
(*   server.dirty       writes of the open transaction: "user" for what    *)
(*                      the editor ran, "m1" and "m2" for a staged batch   *)
(*   server.saved       the writes that are committed                      *)
(*   kills              control requests on their way: "current" aims at   *)
(*                      the execution that is running, "late" at one that  *)
(*                      has ended, "confirming" has been obeyed and not    *)
(*                      yet reported                                       *)
(***************************************************************************)
EXTENDS Naturals, FiniteSets

CONSTANTS Engines,   \* the engines a session is opened on
          Scripts,   \* the statement sets an editor script draws from; the
                     \* empty one stands for a table tab, which runs none
          Losses     \* whether the connection may be lost

VARIABLES engine, server, kills, script

serverVars == <<engine, server, kills, script>>

MySqlFamily == {"mysql", "mysql57"}    \* "mysql" stands for 8.x and MariaDB
Tags == {"user", "m1", "m2"}

ServerType ==
  [up : BOOLEAN, tx : {"none", "open", "aborted"}, autocommit : BOOLEAN,
   dirty : SUBSET Tags, saved : SUBSET Tags]

FreshServer ==
  [up |-> TRUE, tx |-> "none", autocommit |-> TRUE, dirty |-> {}, saved |-> {}]

(***************************************************************************)
(* The effect of one accepted statement: the set of states it may lead to. *)
(* An empty set is a statement the engine refuses in this state.           *)
(***************************************************************************)
Ended(kept) == [server EXCEPT !.tx = "none", !.dirty = {}, !.saved = @ \cup kept]
Opened == [server EXCEPT !.tx = "open"]

Written(tag) ==
  IF server.tx = "open" \/ ~server.autocommit
  THEN [server EXCEPT !.tx = "open", !.dirty = @ \cup {tag}]
  ELSE [server EXCEPT !.saved = @ \cup {tag}]

\* Back to a savepoint: the writes after it, here none or all, are undone.
BackToSavepoint ==
  IF server.tx = "none" THEN {}
  ELSE {Opened, [Opened EXCEPT !.dirty = @ \ {"user"}]}

MySqlEffect(kind) ==
  CASE kind = "begin"          -> {[Ended(server.dirty) EXCEPT !.tx = "open"]}
    [] kind \in {"commit", "ddl"} -> {Ended(server.dirty)}
    [] kind = "rollback"       -> {Ended({})}
    [] kind = "rollback_to"    -> BackToSavepoint
    [] kind = "autocommit_off" -> {[server EXCEPT !.autocommit = FALSE]}
    [] kind = "autocommit_on"  -> {IF server.autocommit THEN server
                                   ELSE [Ended(server.dirty) EXCEPT !.autocommit = TRUE]}
    [] kind \in {"write", "unclassified"} -> {Written("user")}
    [] kind \in Tags           -> {Written(kind)}
    [] kind = "read"           -> {IF server.autocommit THEN server ELSE Opened}
    [] OTHER                   -> {server}

PostgresEffect(kind) ==
  IF server.tx = "aborted" /\ kind \notin {"commit", "rollback", "rollback_to"} THEN {}
  ELSE CASE kind = "begin"      -> {Opened}
         [] kind = "commit"     -> {Ended(IF server.tx = "aborted" THEN {} ELSE server.dirty)}
         [] kind = "rollback"   -> {Ended({})}
         [] kind = "savepoint"  -> IF server.tx = "open" THEN {server} ELSE {}
         [] kind = "rollback_to" -> BackToSavepoint
         [] kind \in {"write", "ddl", "unclassified"} -> {Written("user")}
         [] kind \in Tags       -> {Written(kind)}
         [] OTHER               -> {server}

SqliteEffect(kind) ==
  CASE kind = "begin"      -> IF server.tx = "none" THEN {Opened} ELSE {}
    [] kind = "savepoint"  -> {Opened}
    [] kind = "release"    -> IF server.tx = "none" THEN {} ELSE {Opened, Ended(server.dirty)}
    [] kind = "commit"     -> IF server.tx = "none" THEN {} ELSE {Ended(server.dirty)}
    [] kind = "rollback"   -> IF server.tx = "none" THEN {} ELSE {Ended({})}
    [] kind = "rollback_to" -> BackToSavepoint
    [] kind \in {"write", "ddl"} -> {Written("user")}
    [] kind \in Tags       -> {Written(kind)}
    [] OTHER               -> {server}

Effect(kind) == CASE engine = "postgres" -> PostgresEffect(kind)
                  [] engine = "sqlite"   -> SqliteEffect(kind)
                  [] OTHER               -> MySqlEffect(kind)

\* What a refused or interrupted statement leaves behind: PostgreSQL aborts
\* the open transaction; SQLite undoes the statement alone or, interrupted
\* or out of space, the whole transaction; a MySQL session out of auto-commit
\* may have opened its transaction all the same.
Refusals ==
  CASE engine = "sqlite" -> {server, Ended({})}
    [] engine = "postgres" /\ server.tx = "open" -> {[server EXCEPT !.tx = "aborted"]}
    [] engine \in MySqlFamily /\ ~server.autocommit -> {server, Opened}
    [] OTHER -> {server}

Dropped == [server EXCEPT !.up = FALSE, !.tx = "none", !.dirty = {}]

(***************************************************************************)
(* One round trip of a call on the session's connection.  A statement of   *)
(* the client's own is refused only when the engine must; "fallible" ones  *)
(* may fail for any reason.  A lost connection may have run the statement  *)
(* before it went; a SQLite database is a file, not a connection.          *)
(***************************************************************************)
Ask(kind, fallible, reply) ==
  \/ /\ reply = "ok"
     /\ server.up
     /\ server' \in Effect(kind)
     /\ UNCHANGED kills
  \/ /\ reply = "refused"
     /\ server.up
     /\ fallible \/ Effect(kind) = {}
     /\ server' \in Refusals
     /\ UNCHANGED kills
  \/ /\ reply = "interrupted"
     /\ server.up
     /\ \E k \in kills \ {"confirming"} :
          kills' = (kills \ {k}) \cup (IF k = "current" THEN {"confirming"} ELSE {})
     /\ server' \in Refusals
  \/ /\ reply = "lost"
     /\ engine # "sqlite" /\ (~server.up \/ Losses)
     /\ server' \in {Dropped} \cup
          {[Dropped EXCEPT !.saved = after.saved] :
             after \in IF server.up THEN Effect(kind) ELSE {}}
     /\ UNCHANGED kills

Replies == {"ok", "refused", "interrupted", "lost"}

=============================================================================
