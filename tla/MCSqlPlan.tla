----------------------------- MODULE MCSqlPlan -----------------------------
(* SqlPlan with the alphabet of each dialect, and with a script of one      *)
(* statement for each predicate, and for each few of what may stand around  *)
(* it.                                                                     *)
EXTENDS SqlPlan

Common == {"quote", "double", "dash", "slash", "star", "semicolon", "letter", "drop", "select",
           "space", "newline", "return"}

Script(d, symbols) ==
  [dialect |-> d, conforming |-> TRUE, alphabet |-> symbols, strict |-> FALSE, changes |-> FALSE]

Sqlite == Script("sqlite", Common \cup {"tick", "open", "close"})
MySql == Script("mysql", Common \cup {"tick", "hash", "backslash", "custom", "directive", "restore"})
Postgres == Script("postgres", Common \cup {"backslash", "E", "tag", "otherTag"})

(* Comparisons by the signs that are one token, and <>, which is two.       *)
Simple ==
  {Compare(l, s, r) : l \in Column \cup Number, s \in {"=", "<", ">", "<>"}, r \in Column \cup Number}
Other ==
  {Word(<<"TRUE">>, TRUE), Word(<<"NOT", "FALSE">>, TRUE), Word(<<"a", "IS", "NULL">>, FALSE),
   Word(<<"?", "=", "?">>, TRUE), Among("a", "1"), Between("a", "1", "2")}

Leaf == Simple \cup Other
Few == {Compare("a", "=", "1"), Compare("a", "=", "a"), Compare("1", "=", "1"), Compare("b", "<", "2")}
Pair == {And(p, q) : p \in Leaf, q \in Leaf} \cup {Or(p, q) : p \in Few, q \in Few}

Nested ==
  {Group(p) : p \in Leaf \cup Pair} \cup {Not(p) : p \in Leaf}
  \cup {Not(Group(f[1])) : f \in Few \X Few}
  \cup {And(Group(Or(f[1], f[2])), f[3]) : f \in Few \X Few \X Few}
  \cup {And(Not(Group(And(f[1], f[2]))), f[3]) : f \in Few \X Few \X Few}
  \cup {And(Group(f[1]), Group(f[2])) : f \in Few \X Few}
  \cup {Group(Not(Group(And(f[1], Group(f[2]))))) : f \in Few \X Few}
  \cup {Or(And(f[1], f[2]), f[3]) : f \in Few \X Few \X Few}

MCPredicates == Leaf \cup Pair \cup Nested

(* A query in parentheses, and one of a row that is there.                  *)
Query(p) == <<"(", "SELECT", "b", "FROM", "u", "WHERE">> \o p.tokens \o <<")">>
NoQuery == <<"(", "SELECT", "b", "FROM", "u", ")">>
Queries == {NoQuery} \cup {Query(p) : p \in Few}

Delete == <<"DELETE", "FROM", "t">>
Update(value) == <<"UPDATE", "t", "SET", "a", "=">> \o value
Fronts == {Delete, Update(<<"1">>)} \cup {Update(q) : q \in Queries}
Tails == {<<>>, <<"ORDER", "BY", "a", "LIMIT", "1">>, <<"RETURNING", "a", "AND", "b", "=", "1">>}
         \cup {<<"RETURNING">> \o q : q \in Queries}

Around == {Group(p) : p \in Few} \cup {And(f[1], f[2]) : f \in Few \X Few} \cup Other

Within(before) ==
  {ChangeWhere(before \o f, p, t) : f \in Fronts, p \in Few \cup Around, t \in Tails}
  \cup {ChangeAll(before \o f, t) : f \in Fronts, t \in Tails}

MCChanges ==
  {ChangeWhere(Delete, p, <<>>) : p \in MCPredicates}
  \cup Within(<<>>) \cup Within(<<"WITH", "c", "AS">> \o NoQuery)

OneWord == [Script("sqlite", {"letter"}) EXCEPT !.changes = TRUE]

MCSettings == {Sqlite, MySql, Postgres, [Postgres EXCEPT !.conforming = FALSE], OneWord}
=============================================================================
