--------------------------- MODULE SqlPlanClaims ---------------------------
(***************************************************************************)
(* What the requirements say of the planner and sql.rs does not keep.       *)
(***************************************************************************)
EXTENDS MCSqlPlan

ClaimHash == {Script("mysql", {"hash", "newline", "space", "drop", "letter"})}
ClaimNested == {Script("postgres", {"slash", "star", "space", "drop", "select"})}
ClaimTrigger == {Script("sqlite", {"trigger", "fin", "letter", "space", "semicolon"})}
ClaimDashes ==
  {[Script("mysql", {"dash", "letter", "semicolon", "space"}) EXCEPT !.strict = TRUE]}
ClaimChanges == {OneWord}
OtherChanges ==
  {ChangeWhere(Delete, p, <<>>) :
     p \in {Compare("a", "<=", "a"), Compare("b", ">=", "b"), Among("a", "a")}}
(* A row of the other table that meets c = 1 is there.                      *)
Joins ==
  {ChangeWhere(f, Word(<<"c", "=", "1">>, TRUE), <<>>) :
     f \in {Update(<<"1", "FROM", "u">>), Delete \o <<"USING", "u">>}}

\* "The check must be dialect-aware and resilient to whitespace and comments"
\* (EXE-5): no comment of any dialect hides a DROP, or makes another statement a
\* read.
CommentsAreSeenThrough == status = "planned" => "veiled" \notin wrong

\* "Statement splitting and safety classification must handle the tested dialect's
\* [...] delimiters, and routine bodies" (EDT-9): a trigger is one statement.
RoutineBodiesWhole == status = "planned" => "body" \notin wrong

\* "Statement splitting [...] must handle the tested dialect's comments" (EDT-9):
\* a script is cut where MySQL would cut it.
CommentsAsServer == status = "planned" => "boundary" \notin wrong

\* "A constant-true predicate [...] is not effective and requires confirmation"
\* (EXE-5).
ConstantTrueFlagged == reason = "none" /\ Plain => Restricts(change)

\* "QueryNot requires confirmation for [...] UPDATE without an effective row-limiting
\* predicate" (EXE-5), a query in its SET with a WHERE or not.
QueriesSeenThrough ==
  reason = "none" /\ Head(change.tokens) = "UPDATE" => Restricts(change)

\* "Statements that cannot be classified confidently are identified as uncertain
\* rather than falsely described as safe" (EXE-5), one behind WITH included.
UnflaggedIsSafe ==
  /\ reason = "none"
  /\ \A i \in DOMAIN change.tokens : change.tokens[i] = "WHERE" => change.where \in 1 .. i
  => Restricts(change)

\* "[...] an engine-specific form whose target-row restriction cannot be established is
\* not effective and requires confirmation" (EXE-5): a join.
JoinsFlagged == reason = "none" => Restricts(change)
=============================================================================
