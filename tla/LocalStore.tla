----------------------------- MODULE LocalStore -----------------------------
(***************************************************************************)
(* How the native process opens its local SQLite store: LocalStore::open    *)
(* and migrate of store.rs, a statement at a time, with the process able to *)
(* die between any two of them and every statement able to fail.            *)
(*                                                                         *)
(* Of the file the model keeps what a later start can find out: whether it  *)
(* exists, whether quick_check accepts it, the committed version and the    *)
(* committed statements of the migrations, and whether its pages can be     *)
(* returned.  What a transaction did and did not commit is in `opening'.    *)
(***************************************************************************)
EXTENDS Integers, Sequences, FiniteSets

CONSTANTS
  StoreFiles    \* the stores a first start may find

VARIABLES
  db,         \* the file: [exists, sound, version, objects, vacuum]
  opening,    \* the open under way: [stage, existed, made]
  health      \* what bootstrap reported, "closed" before it did

storeVars == <<db, opening, health>>

CurrentStoreVersion == 3

(* MIGRATION_1 .. MIGRATION_3: how many statements each has. *)
Migrations == <<5, 3, 2>>

Statements(version) == {<<version, i>> : i \in 1..Migrations[version]}

Schema(version) == UNION {Statements(v) : v \in 1..version}

NoFile == [exists |-> FALSE, sound |-> TRUE, version |-> 0, objects |-> {}, vacuum |-> FALSE]

(* A store some version of the program left behind.  One of a newer program *)
(* holds what this one cannot name.                                         *)
StoreOf(version) ==
  [exists |-> TRUE, sound |-> TRUE, version |-> version, vacuum |-> TRUE,
   objects |-> IF version <= CurrentStoreVersion THEN Schema(version) ELSE {<<version, 1>>}]

Damaged ==
  [exists |-> TRUE, sound |-> FALSE, version |-> 1, objects |-> Schema(1), vacuum |-> TRUE]

(* None, a damaged one, or what some version of the program left behind.    *)
ASSUME StoreAssumption ==
  StoreFiles \subseteq {NoFile, Damaged} \cup {StoreOf(v) : v \in 1..(CurrentStoreVersion + 1)}

Closed == [stage |-> "closed", existed |-> FALSE, made |-> {}]

StoreInit ==
  /\ db \in StoreFiles
  /\ opening = Closed /\ health = "closed"

-----------------------------------------------------------------------------

(* The end of an open: the connection closes, and what its transaction did  *)
(* not commit is undone.                                                    *)
Report(state) ==
  /\ health' = state
  /\ opening' = Closed

Stage(s) == opening' = [opening EXCEPT !.stage = s]

(* The file is created by the connection, the mode is set by restrict_file. *)
Connect ==
  /\ opening = Closed /\ health = "closed"
  /\ db' = [db EXCEPT !.exists = TRUE]
  /\ opening' = [stage |-> "check", existed |-> db.exists, made |-> {}]
  /\ UNCHANGED health

(* A faulty form: the answer of quick_check is not looked at. *)
QuickGlance ==
  /\ opening.stage = "check"
  /\ Stage(IF opening.existed THEN "version" ELSE "vacuum")
  /\ UNCHANGED <<db, health>>

QuickCheck ==
  /\ opening.stage = "check"
  /\ IF db.sound THEN /\ Stage(IF opening.existed THEN "version" ELSE "vacuum")
                      /\ UNCHANGED health
                 ELSE Report("migration_failed")
  /\ UNCHANGED db

SetAutoVacuum ==
  /\ opening.stage = "vacuum"
  /\ db' = [db EXCEPT !.vacuum = TRUE]
  /\ Stage("version") /\ UNCHANGED health

(* migrate reads user_version once; its loop goes on from there. *)
ReadVersion ==
  /\ opening.stage = "version"
  /\ IF db.version > CurrentStoreVersion
     THEN Report("migration_failed")
     ELSE /\ Stage(IF db.version = CurrentStoreVersion THEN "pool" ELSE "statements")
          /\ UNCHANGED health
  /\ UNCHANGED db

(* A faulty form: the statements commit one by one. *)
AutocommitStatement ==
  /\ opening.stage = "statements"
  /\ opening.made # Statements(db.version + 1)
  /\ LET statement == <<db.version + 1, Cardinality(opening.made) + 1>>
     IN /\ opening' = [opening EXCEPT !.made = @ \cup {statement}]
        /\ db' = [db EXCEPT !.objects = @ \cup {statement}]
  /\ UNCHANGED health

(* The statements of the next version, in order and in one transaction. *)
RunStatement ==
  /\ opening.stage = "statements"
  /\ opening.made # Statements(db.version + 1)
  /\ opening' = [opening EXCEPT !.made = @ \cup {<<db.version + 1, Cardinality(@) + 1>>}]
  /\ UNCHANGED <<db, health>>

(* PRAGMA user_version is a write of the same transaction. *)
CommitVersion ==
  /\ opening.stage = "statements"
  /\ opening.made = Statements(db.version + 1)
  /\ db' = [db EXCEPT !.version = @ + 1, !.objects = @ \cup opening.made]
  /\ opening' = [opening EXCEPT !.made = {},
                   !.stage = IF db.version + 1 = CurrentStoreVersion THEN "pool" ELSE "statements"]
  /\ UNCHANGED health

OpenPool ==
  /\ opening.stage = "pool"
  /\ Report("healthy") /\ UNCHANGED db

(* StoreError::Unavailable is reported as degraded, the other errors of the *)
(* calls of a stage as a failed migration.                                  *)
Failures(stage) ==
  CASE stage \in {"closed", "check"}       -> {"degraded", "migration_failed"}
    [] stage \in {"vacuum", "pool"}        -> {"degraded"}
    [] stage \in {"version", "statements"} -> {"migration_failed"}

(* One call of the open fails: bootstrap_with_fault gives the process no    *)
(* store for as long as it runs.                                            *)
OpenFails ==
  /\ health = "closed"
  /\ \E state \in Failures(opening.stage) : Report(state)
  /\ UNCHANGED db

StoreNext ==
  \/ Connect \/ QuickCheck \/ SetAutoVacuum \/ ReadVersion
  \/ RunStatement \/ CommitVersion \/ OpenPool

(* The process is gone: SQLite rolls an open transaction back at the next   *)
(* connection.                                                              *)
StoreDies == opening' = Closed /\ health' = "closed" /\ UNCHANGED db

-----------------------------------------------------------------------------

StoreTypeOK ==
  /\ db.version \in 0..(CurrentStoreVersion + 1)
  /\ {db.exists, db.sound, db.vacuum} \subseteq BOOLEAN
  /\ opening.stage \in {"closed", "check", "vacuum", "version", "statements", "pool"}
  /\ opening.made \subseteq Schema(CurrentStoreVersion)
  /\ health \in {"closed", "healthy", "degraded", "migration_failed"}

(* Whatever dies or fails between two statements or two migrations, the     *)
(* file holds what the version it names has and nothing of the next one     *)
(* (migrate, store.rs:738), and a process that was told "healthy" works on  *)
(* the whole current schema.                                                *)
SchemaWhole ==
  /\ db.version <= CurrentStoreVersion => db.objects = Schema(db.version)
  /\ health = "healthy" => db.sound /\ db.version = CurrentStoreVersion

(* A store that is damaged or of a newer program is never written, and an   *)
(* older one only gains: "The existing store was preserved" (store.rs:122). *)
OldStoreKept ==
  [][/\ db.objects \subseteq db'.objects
     /\ (~db.sound \/ db.version > CurrentStoreVersion) => db' = db]_storeVars
=============================================================================
