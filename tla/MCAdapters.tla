------------------------------ MODULE MCAdapters ------------------------------
(***************************************************************************)
(* Each engine with a table tab, with a query that streams rows, and with  *)
(* the statements that move a transaction.                                 *)
(***************************************************************************)
EXTENDS AdapterSessions

MCScripts ==
  {{}, {"select"}, {"write", "read"}, {"begin", "write", "commit", "rollback"},
   {"savepoint", "rollback_to", "release"},
   {"write", "autocommit_off", "autocommit_on"},
   {"ddl", "show", "unclassified"}}
=============================================================================
