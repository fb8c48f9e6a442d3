------------------------------ MODULE SqlText ------------------------------
(***************************************************************************)
(* sql.rs: a document is split into statements by the scanner of its        *)
(* dialect (split_statements, split_mysql_statements,                       *)
(* split_postgres_statements), and each statement is read a second time by *)
(* code_tokens, which knows no dialect, for its safety flags and for the    *)
(* read-only gate.  A third reader is the server each statement is sent to. *)
(*                                                                         *)
(* The loops read a symbol with the one after it.  Here the document is     *)
(* given symbol by symbol and the three readers go over it side by side, so *)
(* a check covers documents of every length.  A symbol is a character that  *)
(* matters to a reader, a keyword, a dollar tag or a DELIMITER line.        *)
(***************************************************************************)
EXTENDS Naturals, FiniteSets

CONSTANTS
  Settings,  \* [dialect, conforming, alphabet, strict, changes] of a behaviour
  MaxDepth   \* of nested comments

(* directive and restore are the lines that make the custom delimiter, and  *)
(* the semicolon, the delimiter; tag and otherTag are two dollar tags; E    *)
(* and letter are letters, drop and select words, trigger the head of a      *)
(* CREATE TRIGGER up to its BEGIN and fin its END.                         *)
Letter == {"E", "letter", "drop", "select", "trigger", "fin"}
Tag == {"tag", "otherTag"}
Directive == {"directive", "restore"}
Blank == {"space", "newline", "return"}
Symbol == {"quote", "double", "tick", "open", "close", "dash", "slash", "star", "hash",
           "backslash", "semicolon", "custom"} \cup Letter \cup Tag \cup Directive \cup Blank
Edge == "edge" \* what lies before the first symbol and after the last

LexState == {"Code", "SingleQuote", "DoubleQuote", "Backtick", "Bracket", "LineComment",
             "BlockComment", "Dollar", "Dashes"}

ASSUME SqlTextAssumption ==
  /\ MaxDepth \in Nat \ {0}
  /\ \A s \in Settings :
       /\ s.dialect \in {"sqlite", "mysql", "postgres"} /\ s.alphabet \subseteq Symbol
       /\ s.dialect # "mysql" => s.alphabet \cap Directive = {} \* only its splitter knows them

VARIABLES
  symbol,    \* the symbol the readers are at; the next one is chosen as they go
  text,      \* the symbol before it, whether that one started a token, whether
             \* the statement is blank and the line starts here, the delimiter
  splitter,  \* the scanner of the dialect
  tokenizer, \* code_tokens on the statement that is being read
  server,    \* the server's reader, on the same statement
  status,    \* "scanning", "planned" or "Ambiguous"; or "odd": the text is one
             \* the dialects are known to differ on
  wrong,     \* history: how the readers disagreed so far
  setting

readers == <<splitter, tokenizer, server>>
vars == <<symbol, text, readers, status, wrong, setting>>

dialect == setting.dialect

(* escapes: a backslash hides the next character; depth: of comments; skip: *)
(* the symbol went with the one before it; word and first: the token being *)
(* read, until the first of the statement is known; ident: the identifier   *)
(* the server is in; veiled: the first word stands behind a comment that    *)
(* code_tokens does not know.                                              *)
NewReader == [state |-> "Code", escapes |-> FALSE, depth |-> 0, tag |-> "none", skip |-> FALSE,
              word |-> "none", first |-> "none", ident |-> "none", veiled |-> FALSE]

Reader == [state : LexState, escapes : BOOLEAN, depth : 0 .. MaxDepth, tag : Tag \cup {"none"},
           skip : BOOLEAN, word : Letter \cup {"none", "sign"},
           first : Letter \cup {"none", "sign"}, ident : {"none", "E", "name"}, veiled : BOOLEAN]

Init ==
  /\ setting \in Settings
  /\ symbol \in setting.alphabet
  /\ text = [prev |-> Edge, edge |-> TRUE, blank |-> TRUE, line |-> TRUE, delimiter |-> "semicolon"]
  /\ splitter = NewReader /\ tokenizer = NewReader /\ server = NewReader
  /\ status = "scanning"
  /\ wrong = {}

-----------------------------------------------------------------------------
(* What the scanners share: each is a step of reader r at c, before n.      *)

To(r, state) == [r EXCEPT !.state = state]

ToPast(r, state) == [r EXCEPT !.state = state, !.skip = TRUE]

(* A doubled quote stands for itself.                                      *)
Quoted(r, c, n, quote) ==
  IF c # quote THEN r
  ELSE IF n = quote THEN [r EXCEPT !.skip = TRUE]
  ELSE [To(r, "Code") EXCEPT !.escapes = FALSE]

Escaped(r, c, n, quote) ==
  IF c = "backslash" THEN [r EXCEPT !.skip = (n # Edge)] ELSE Quoted(r, c, n, quote)

LineComment(r, c) == IF c \in {"newline", "return"} THEN To(r, "Code") ELSE r

BlockComment(r, c, n) == IF c = "star" /\ n = "slash" THEN ToPast(r, "Code") ELSE r

Opened(c, n) ==
  CASE c = "quote" -> "SingleQuote"
    [] c = "double" -> "DoubleQuote"
    [] c = "tick" -> "Backtick"
    [] c = "open" -> "Bracket"
    [] OTHER -> "Code"

OpensComment(r, c, n) ==
  IF c = "dash" /\ n = "dash" THEN ToPast(r, "LineComment")
  ELSE IF c = "slash" /\ n = "star" THEN ToPast(r, "BlockComment")
  ELSE r

split_statements(r, c, n) ==
  CASE r.state = "Code" ->
         IF Opened(c, n) # "Code" THEN To(r, Opened(c, n)) ELSE OpensComment(r, c, n)
    [] r.state = "SingleQuote" -> Quoted(r, c, n, "quote")
    [] r.state = "DoubleQuote" -> Quoted(r, c, n, "double")
    [] r.state = "Backtick" -> Quoted(r, c, n, "tick")
    [] r.state = "Bracket" -> IF c = "close" THEN To(r, "Code") ELSE r
    [] r.state = "LineComment" -> LineComment(r, c)
    [] r.state = "BlockComment" -> BlockComment(r, c, n)

split_mysql_statements(r, c, n) ==
  CASE r.state = "Code" ->
         IF c = "hash" THEN To(r, "LineComment")
         ELSE IF c # "open" /\ Opened(c, n) # "Code" THEN To(r, Opened(c, n))
         ELSE OpensComment(r, c, n)
    [] r.state = "SingleQuote" -> Escaped(r, c, n, "quote")
    [] r.state = "DoubleQuote" -> Escaped(r, c, n, "double")
    [] r.state = "Backtick" -> Quoted(r, c, n, "tick")
    [] r.state = "LineComment" -> LineComment(r, c)
    [] r.state = "BlockComment" -> BlockComment(r, c, n)

NestedComment(r, c, n) ==
  IF c = "slash" /\ n = "star" THEN [r EXCEPT !.depth = @ + 1, !.skip = TRUE]
  ELSE IF c = "star" /\ n = "slash"
    THEN [r EXCEPT !.depth = @ - 1, !.skip = TRUE,
                   !.state = IF r.depth = 1 THEN "Code" ELSE "BlockComment"]
  ELSE r

(* postgres_token_boundary_before, of the symbol.                          *)
token_boundary_before == text.prev = Edge

(* Faulty: the E may end another word.                                     *)
any_E_prefix == text.prev = "E"

(* postgres_escape_string_prefix, of a quote.                              *)
escape_string_prefix == text.prev = "E" /\ text.edge

split_postgres_statements(r, c, n) ==
  CASE r.state = "Code" ->
         IF c = "quote" THEN [To(r, "SingleQuote") EXCEPT !.escapes = escape_string_prefix]
         ELSE IF c = "double" THEN To(r, "DoubleQuote")
         ELSE IF c = "slash" /\ n = "star" THEN [ToPast(r, "BlockComment") EXCEPT !.depth = 1]
         ELSE IF c \in Tag /\ token_boundary_before THEN [To(r, "Dollar") EXCEPT !.tag = c]
         ELSE OpensComment(r, c, n)
    [] r.state = "SingleQuote" ->
         IF r.escapes THEN Escaped(r, c, n, "quote") ELSE Quoted(r, c, n, "quote")
    [] r.state = "DoubleQuote" -> Quoted(r, c, n, "double")
    [] r.state = "LineComment" -> LineComment(r, c)
    [] r.state = "BlockComment" -> NestedComment(r, c, n)
    [] r.state = "Dollar" -> IF c = r.tag THEN [To(r, "Code") EXCEPT !.tag = "none"] ELSE r

(* standard_conforming_strings is not known.                               *)
IsAmbiguous(r, c, n) ==
  /\ dialect = "postgres"
  /\ r.state = "SingleQuote" /\ ~r.escapes /\ ~r.skip
  /\ c = "backslash" /\ n = "quote"

split_statements_for_dialect(r, c, n) ==
  IF r.skip THEN [r EXCEPT !.skip = FALSE]
  ELSE CASE dialect = "sqlite" -> split_statements(r, c, n)
         [] dialect = "mysql" -> split_mysql_statements(r, c, n)
         [] dialect = "postgres" -> split_postgres_statements(r, c, n)

(* A DELIMITER line is one where a line starts in code and nothing but      *)
(* space came before it in the statement.                                  *)
IsDirective(c) ==
  /\ c \in Directive
  /\ text.line /\ text.blank
  /\ splitter.state = "Code" /\ ~splitter.skip

(* The end of a statement.                                                 *)
Cuts(c) == splitter.state = "Code" /\ ~splitter.skip /\ c = text.delimiter

-----------------------------------------------------------------------------
(* code_tokens, up to the first of its tokens.                             *)

flush(r) == [r EXCEPT !.word = "none", !.first = IF @ = "none" THEN r.word ELSE @]

Push(r, c) ==
  IF r.first # "none" THEN r
  ELSE [r EXCEPT !.word = IF @ = "none" /\ c \in Letter THEN c ELSE "sign"]

PushSign(r) == LET f == flush(r) IN [f EXCEPT !.first = IF @ = "none" THEN "sign" ELSE @]

(* The text of a quoted identifier joins the token.                        *)
InIdentifier(r, c, quote) == IF c = quote THEN To(r, "Code") ELSE Push(r, c)

(* Faulty: the rest of the text is comment.                                *)
EndlessLineComment(r, c) == r

TokenLineComment(r, c) == LineComment(r, c)

TokenBlockComment(r, c, n) == BlockComment(r, c, n)

code_tokens(r, c, n) ==
  IF r.first # "none" THEN [NewReader EXCEPT !.first = r.first]
  ELSE IF r.skip THEN [r EXCEPT !.skip = FALSE]
  ELSE CASE r.state = "Code" ->
         IF c = "quote" THEN PushSign(To(r, "SingleQuote"))
         ELSE IF Opened(c, n) # "Code" THEN flush(To(r, Opened(c, n)))
         ELSE IF OpensComment(r, c, n) # r THEN flush(OpensComment(r, c, n))
         ELSE IF c \in Letter THEN Push(r, c)
         ELSE IF c \in Blank THEN flush(r)
         ELSE PushSign(r)
    [] r.state = "SingleQuote" -> Quoted(r, c, n, "quote")
    [] r.state = "DoubleQuote" -> InIdentifier(r, c, "double")
    [] r.state = "Backtick" -> InIdentifier(r, c, "tick")
    [] r.state = "Bracket" -> InIdentifier(r, c, "close")
    [] r.state = "LineComment" -> TokenLineComment(r, c)
    [] r.state = "BlockComment" -> TokenBlockComment(r, c, n)

leading_statement_keyword(r) == flush(r).first

-----------------------------------------------------------------------------
(* The servers, with their default settings but for                         *)
(* standard_conforming_strings.  SQLite and MySQL end a line comment at a   *)
(* newline; for MySQL two dashes open one only before a blank.  opened is   *)
(* the reader after what the symbol opens.                                 *)

ServerWord(opened, c) ==
  LET r == [opened EXCEPT !.ident = "none"]
  IN IF opened.state \in {"LineComment", "BlockComment", "Dashes"} THEN flush(r)
     ELSE IF c \in Letter THEN Push([r EXCEPT !.ident = IF c = "E" /\ opened.ident = "none" THEN "E" ELSE "name"], c)
     ELSE IF c \in Tag /\ opened.ident # "none" THEN Push([r EXCEPT !.ident = "name"], c)
     ELSE IF c \in Blank THEN flush(r)
     ELSE PushSign(r)

Veil(r) == [r EXCEPT !.veiled = @ \/ leading_statement_keyword(r) = "none"]

ServerLineComment(r, c) == IF c = "newline" THEN To(r, "Code") ELSE r

SqliteServer(r, c, n) ==
  CASE r.state = "LineComment" -> ServerLineComment(r, c)
    [] r.state = "Code" -> ServerWord(split_statements(r, c, n), c)
    [] OTHER -> split_statements(r, c, n)

MySqlCode(r, c, n) ==
  ServerWord(CASE c = "dash" /\ n = "dash" -> ToPast(r, "Dashes")
               [] c = "hash" -> split_mysql_statements(Veil(r), c, n)
               [] OTHER -> split_mysql_statements(r, c, n), c)

MySqlServer(r, c, n) ==
  CASE r.state = "LineComment" -> ServerLineComment(r, c)
    [] r.state = "Dashes" ->
         IF c \in Blank THEN ServerLineComment(To(r, "LineComment"), c)
         ELSE MySqlCode(PushSign(To(r, "Code")), c, n)
    [] r.state = "Code" -> MySqlCode(r, c, n)
    [] OTHER -> split_mysql_statements(r, c, n)

(* E opens an escape string where it starts a token; a dollar sign belongs  *)
(* to the identifier before it.                                            *)
PostgresServer(r, c, n) ==
  CASE r.state = "Code" /\ c = "quote" ->
         ServerWord([To(r, "SingleQuote") EXCEPT
                       !.escapes = ~setting.conforming \/ r.ident = "E"], c)
    [] r.state = "Code" /\ c \in Tag ->
         ServerWord(IF r.ident # "none" THEN r ELSE [To(r, "Dollar") EXCEPT !.tag = c], c)
    [] r.state = "Code" /\ c \notin Tag \cup {"quote"} ->
         ServerWord(split_postgres_statements(r, c, n), c)
    [] r.state = "BlockComment" ->
         NestedComment(IF c = "slash" /\ n = "star" THEN Veil(r) ELSE r, c, n)
    [] OTHER -> split_postgres_statements(r, c, n)

Serve(r, c, n) ==
  IF r.skip THEN [r EXCEPT !.skip = FALSE]
  ELSE CASE dialect = "sqlite" -> SqliteServer(r, c, n)
         [] dialect = "mysql" -> MySqlServer(r, c, n)
         [] dialect = "postgres" -> PostgresServer(r, c, n)

(* The server takes the symbol for the end of a statement.                 *)
ServerEnds(c) ==
  /\ c = text.delimiter /\ ~server.skip
  /\ server.state \in {"Code", "Dashes"}

(* The semicolons of a trigger's body end no statement.                    *)
InBody == dialect = "sqlite" /\ server.first = "trigger" /\ text.prev # "fin"

-----------------------------------------------------------------------------
(* The loop.                                                               *)

(* What is wrong with a statement that ends where reader t and reader s     *)
(* are: its DROP was not seen, or it is taken for a read and is another     *)
(* statement.  What starts with a sign or a quoted name is none.           *)
Misread(t, s) ==
  LET seen == leading_statement_keyword(t)
      real == leading_statement_keyword(s)
  IN CASE real = "drop" /\ seen # "drop" -> {IF s.veiled THEN "veiled" ELSE "drop"}
       [] seen = "select" /\ real \in Letter \ {"select", "drop"} -> {IF s.veiled THEN "veiled" ELSE "read"}
       [] OTHER -> {}

(* What the dialects are known to differ on: a carriage return in a line    *)
(* comment, two dashes that MySQL takes for two signs, adjoining dollar     *)
(* tags.                                                                   *)
IsOdd(c) ==
  \/ c = "return" /\ server.state \in {"LineComment", "Dashes"} /\ dialect # "postgres"
  \/ server.state = "Dashes" /\ ~server.skip /\ c \notin Blank
  \/ c \in Tag /\ text.prev = "tag"

After(c) == status' = IF IsOdd(c) /\ ~setting.strict THEN "odd" ELSE "scanning"

(* The next symbol, or the end of the document.                            *)
Advance(n) ==
  /\ symbol' = n
  /\ UNCHANGED setting

(* What can be asked of the symbol before.                                 *)
Kind(c) ==
  CASE c \in {"E", "fin"} -> c
    [] c \in Letter \ {"E", "fin"} -> "letter"
    [] c \in Tag -> "tag"
    [] OTHER -> Edge

Follows(c) == [text EXCEPT !.prev = Kind(c), !.edge = token_boundary_before]

(* A line that sets the delimiter is no part of a statement.               *)
ReadDirective(n) ==
  /\ IsDirective(symbol)
  /\ text' = [Follows(symbol) EXCEPT !.blank = TRUE, !.line = TRUE,
                 !.delimiter = IF symbol = "directive" THEN "custom" ELSE "semicolon"]
  /\ UNCHANGED <<readers, status, wrong>>
  /\ Advance(n)

(* Statements are numbered from the start of the next.                     *)
EndStatement(n) ==
  /\ Cuts(symbol)
  /\ LET t == code_tokens(tokenizer, symbol, n)
         s == Serve(server, symbol, n)
     IN wrong' = wrong \cup Misread(t, s) \cup (IF ServerEnds(symbol) THEN {} ELSE {"boundary"})
                       \cup (IF InBody THEN {"body"} ELSE {})
  /\ splitter' = NewReader /\ tokenizer' = NewReader /\ server' = NewReader
  /\ text' = [Follows(symbol) EXCEPT !.blank = TRUE, !.line = FALSE]
  /\ After(symbol)
  /\ Advance(n)

ReadSymbol(n) ==
  /\ symbol \notin Directive /\ ~Cuts(symbol)
  /\ ~IsAmbiguous(splitter, symbol, n)
  /\ splitter' = split_statements_for_dialect(splitter, symbol, n)
  /\ tokenizer' = code_tokens(tokenizer, symbol, n)
  /\ server' = Serve(server, symbol, n)
  /\ splitter'.depth <= MaxDepth /\ server'.depth <= MaxDepth
  /\ wrong' = wrong \cup IF ServerEnds(symbol) THEN {"boundary"} ELSE {}
  /\ text' = [Follows(symbol) EXCEPT !.blank = @ /\ symbol \in Blank,
                                     !.line = symbol = "newline" /\ ~splitter.skip]
  /\ After(symbol)
  /\ Advance(n)

Refuse(n) ==
  /\ symbol # Edge /\ IsAmbiguous(splitter, symbol, n)
  /\ status' = "Ambiguous"
  /\ UNCHANGED <<text, readers, wrong>>
  /\ Advance(n)

(* What is left is the last statement, if it is closed.                    *)
EndDocument ==
  /\ symbol = Edge
  /\ IF splitter.state \in {"Code", "LineComment"}
       THEN /\ status' = "planned"
            /\ wrong' = wrong \cup Misread(tokenizer, server)
                  \cup (IF server.state \in {"Code", "LineComment", "Dashes"} THEN {} ELSE {"boundary"})
       ELSE status' = "Ambiguous" /\ UNCHANGED wrong
  /\ UNCHANGED <<symbol, text, readers, setting>>

Next ==
  /\ status = "scanning"
  /\ \/ /\ symbol # Edge
        /\ \E n \in setting.alphabet \cup {Edge} :
              ReadDirective(n) \/ EndStatement(n) \/ ReadSymbol(n) \/ Refuse(n)
     \/ EndDocument

Spec == Init /\ [][Next]_vars

-----------------------------------------------------------------------------
(* Correctness.                                                            *)

TypeOK ==
  /\ symbol \in Symbol \cup {Edge}
  /\ text \in [prev : {"E", "fin", "letter", "tag", Edge}, edge : BOOLEAN, blank : BOOLEAN, line : BOOLEAN,
               delimiter : {"semicolon", "custom"}]
  /\ splitter \in Reader /\ tokenizer \in Reader /\ server \in Reader
  /\ splitter.state = "Dollar" <=> splitter.tag # "none"
  /\ (splitter.depth > 0) => splitter.state = "BlockComment"
  /\ status \in {"scanning", "planned", "Ambiguous", "odd"}

(* A script that is accepted is cut where the server would cut it: every    *)
(* text that is judged, shown and sent is one whole statement, whatever the  *)
(* literals, comments and dollar quotes around the delimiter and whatever    *)
(* standard_conforming_strings is; IsOdd names the texts of which it is not  *)
(* said.                                                                   *)
OneStatementEach == status = "planned" => "boundary" \notin wrong

(* A statement that drops is flagged, and what the read-only gate lets       *)
(* through is a read, unless the first word stands behind a comment that    *)
(* only its dialect has.                                                   *)
FlagsAreTrue == status = "planned" => {"drop", "read"} \cap wrong = {}
=============================================================================
