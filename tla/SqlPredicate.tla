---------------------------- MODULE SqlPredicate ----------------------------
(***************************************************************************)
(* classify_destructive of sql.rs: whether an UPDATE or DELETE is shown for *)
(* confirmation is decided on the tokens behind the first WHERE in it,      *)
(* whosever that is.  code_tokens yields a word, a number or one sign at a  *)
(* time, "?" for a string, and nothing for a comment.                       *)
(***************************************************************************)
EXTENDS Naturals, Sequences, FiniteSets, SequencesExt

(* The columns of the table that is changed, other names, and the numbers.  *)
Column == {"a", "b"}
Name == {"t", "u", "c"}
Number == {"1", "2"}
Keyword == {"TRUE", "FALSE", "NULL", "NOT", "AND", "OR", "IS", "IN", "LIKE", "BETWEEN",
            "UPDATE", "DELETE", "DROP", "TRUNCATE", "SET", "FROM", "WHERE", "SELECT", "WITH", "AS",
            "USING", "RETURNING", "ORDER", "BY", "LIMIT"}

is_identifier(token) == token \in Column \cup Name \cup (Keyword \ {"TRUE", "FALSE", "NULL"})

Comparison == {"=", "==", "!=", "<>", "<", ">", "<=", ">=", "LIKE", "GLOB"}

Token == Column \cup Name \cup Number \cup Keyword \cup Comparison \cup {"(", ")", "?", "+"}

AlwaysTrue ==
  {<<"TRUE">>, <<"1", "=", "1">>, <<"+", "1", "=", "+", "1">>, <<"1", "IS", "1">>, <<"NOT", "FALSE">>}

(* One parenthesis at the front and one at the back are taken off, whether  *)
(* or not they belong together.                                            *)
Stripped(tokens) ==
  LET front == IF Len(tokens) > 0 /\ Head(tokens) = "(" THEN Tail(tokens) ELSE tokens
  IN IF Len(front) > 0 /\ Last(front) = ")" THEN Front(front) ELSE front

(* What three tokens at the front say.                                     *)
Compares(t) ==
  LET left == t[1]
      operator == t[2]
      right == t[3]
      comparison == operator \in Comparison
  IN CASE comparison /\ is_identifier(left) /\ left = right -> "Ineffective"
       [] comparison /\ left # right /\ (is_identifier(left) \/ is_identifier(right)) -> "Effective"
       [] is_identifier(left) /\ operator = "IS" /\ right \in {"NULL", "TRUE", "FALSE"} -> "Effective"
       [] is_identifier(left) /\ operator = "IN" /\ Contains(SubSeq(t, 3, Len(t)), "(") -> "Effective"
       [] OTHER -> "Uncertain"

(* A predicate without AND.                                                *)
Alone(t) ==
  CASE t \notin AlwaysTrue /\ ~Contains(t, "OR") /\ Len(t) >= 3 -> Compares(t)
    [] t \in AlwaysTrue -> "Ineffective"
    [] OTHER -> "Uncertain"

Conjoined(left, right) ==
  IF left = right THEN left ELSE "Uncertain"

IsConjunction(t) == t \notin AlwaysTrue /\ ~Contains(t, "OR") /\ Contains(t, "AND")

and_index(t) == SelectInSeq(t, LAMBDA token : token = "AND")

predicate_effectiveness[tokens \in Seq(Token)] ==
  LET t == Stripped(tokens)
  IN IF IsConjunction(t)
     THEN Conjoined(predicate_effectiveness[SubSeq(t, 1, and_index(t) - 1)],
                    predicate_effectiveness[SubSeq(t, and_index(t) + 1, Len(t))])
     ELSE Alone(t)

(* Faulty: the search begins at the end.                                   *)
last_where_index(tokens) == SelectLastInSeq(tokens, LAMBDA token : token = "WHERE")

(* The first WHERE of all the tokens, or 0.                                *)
where_index(tokens) == SelectInSeq(tokens, LAMBDA token : token = "WHERE")

(* The reason of the flag of a statement, if it gets one.                   *)
classify_destructive(tokens) ==
  LET first == Head(tokens)
      where == where_index(tokens)
      behind == predicate_effectiveness[SubSeq(tokens, where + 1, Len(tokens))]
  IN CASE tokens = <<>> -> "none"
       [] tokens # <<>> /\ first \in {"DROP", "TRUNCATE"} -> first
       [] tokens # <<>> /\ first \notin {"DROP", "TRUNCATE", "UPDATE", "DELETE"} -> "none"
       [] OTHER -> CASE where = 0 -> "MissingPredicate"
                     [] where # 0 /\ behind = "Effective" -> "none"
                     [] where # 0 /\ behind = "Ineffective" -> "IneffectivePredicate"
                     [] OTHER -> "UncertainPredicate"

-----------------------------------------------------------------------------
(* What a predicate means: its tokens, and for each row whether it holds.   *)

Row == [Column -> 0 .. 3]

ValueOf(operand, row) ==
  CASE operand \in Column -> row[operand]
    [] operand = "1" -> 1
    [] operand = "2" -> 2

Holds(left, sign, right) ==
  CASE sign = "=" -> left = right
    [] sign = "<" -> left < right
    [] sign = ">" -> left > right
    [] sign = "<>" -> left # right
    [] sign = "<=" -> left <= right
    [] sign = ">=" -> left >= right

(* A sign of two characters is two tokens.                                 *)
SignTokens(sign) ==
  CASE sign = "<>" -> <<"<", ">">>
    [] sign = "<=" -> <<"<", "=">>
    [] sign = ">=" -> <<">", "=">>
    [] OTHER -> <<sign>>

Compare(left, sign, right) ==
  [tokens |-> <<left>> \o SignTokens(sign) \o <<right>>,
   rows |-> {row \in Row : Holds(ValueOf(left, row), sign, ValueOf(right, row))}]

Word(tokens, holds) == [tokens |-> tokens, rows |-> IF holds THEN Row ELSE {}]

Among(left, right) ==
  [tokens |-> <<left, "IN", "(", right, ")">>, rows |-> Compare(left, "=", right).rows]

Between(left, low, high) ==
  [tokens |-> <<left, "BETWEEN", low, "AND", high>>,
   rows |-> Compare(left, ">=", low).rows \cap Compare(left, "<=", high).rows]

Not(p) == [tokens |-> <<"NOT">> \o p.tokens, rows |-> Row \ p.rows]

And(p, q) == [tokens |-> p.tokens \o <<"AND">> \o q.tokens, rows |-> p.rows \cap q.rows]

Or(p, q) == [tokens |-> p.tokens \o <<"OR">> \o q.tokens, rows |-> p.rows \cup q.rows]

Group(p) == [p EXCEPT !.tokens = <<"(">> \o @ \o <<")">>]

(* A statement that changes rows: the place of its own WHERE, or 0, and the *)
(* rows it changes.  What is before and behind its predicate may hold       *)
(* queries with a WHERE of their own.                                       *)
ChangeWhere(front, p, tail) ==
  [tokens |-> front \o <<"WHERE">> \o p.tokens \o tail, where |-> Len(front) + 1, rows |-> p.rows]

ChangeAll(front, tail) == [tokens |-> front \o tail, where |-> 0, rows |-> Row]

(* It leaves some row alone.                                               *)
Restricts(change) == change.rows # Row
=============================================================================
