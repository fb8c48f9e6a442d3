---------------------------- MODULE AdapterSessions ----------------------------
(***************************************************************************)
(* One native session of each engine, and what a session owes its tab.     *)
(***************************************************************************)
EXTENDS ResultStream

M == INSTANCE MySqlSession
P == INSTANCE PostgresSession
S == INSTANCE SqliteSession

Next == M!Next \/ P!Next \/ S!Next

Spec == Init /\ [][Next]_vars

(***************************************************************************)
(* Statements that open or keep a transaction by hand, which the SQLite    *)
(* adapter reads by their leading keyword alone.                           *)
(***************************************************************************)
Handwritten == {"begin", "savepoint", "rollback_to", "release"}

\* A session that is at rest and shows no open transaction hides no work of
\* the user's: whatever was cancelled, failed or changed its mode in between.
\* It holds where the server is asked (as long as the last question was
\* answered), and on SQLite for scripts without handwritten control; elsewhere
\* TransactionShown (AdapterSessionsClaims) refutes it.
CleanHidesNothing ==
  ( /\ Quiet /\ server.up /\ session.certainty = "clean"
    /\ \/ engine = "mysql" /\ reply # "unanswered"
       \/ engine = "sqlite" /\ script \cap Handwritten = {} )
  => "user" \notin server.dirty

\* A staged batch is saved as a whole or not at all, what it answered is what
\* happened, and a batch of unknown fate leaves a session that no further batch
\* may use.
BatchIsAtomic ==
  /\ TableTab /\ command = NoCommand => server.saved \in {{}, {"m1", "m2"}}
  /\ reply = "applied" => server.saved = {"m1", "m2"}
  /\ reply = "rolled back" => server.saved = {} /\ server.dirty = {}
  /\ reply = "unconfirmed" /\ command = NoCommand => session.certainty = "unknown"

\* A result that ends as completed, and not for its size or for an error of its
\* statement, was shown in full: no row was passed over, and none was in a batch
\* the page refused.
CompletedResultIsWhole ==
  ended.state = "completed" => ended.whole \/ ended.capped \/ ended.failed

\* In manual mode nothing the user runs is committed behind a commit: no
\* ordinary write of a MySQL-family script is saved on its own, whichever call
\* changed the mode while the script was waiting.
ManualWritesWait ==
  [][ (/\ engine \in MySqlFamily /\ exec.phase = "stream" /\ exec.kind = "write"
       /\ ~session.automatic /\ "autocommit_on" \notin script)
      => server'.saved \subseteq server.saved ]_vars
=============================================================================
