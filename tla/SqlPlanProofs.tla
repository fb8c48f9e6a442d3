--------------------------- MODULE SqlPlanProofs ---------------------------
(* Proofs about SqlPlan, for documents of any length in any alphabet,       *)
(* comments nested to any depth and predicates of any size.  The three      *)
(* readers of SqlText go over the same symbols but are different automata:  *)
(* the invariant says how far apart the splitter and code_tokens may be     *)
(* from the server.  predicate_effectiveness is recursive: that it is what  *)
(* its definition says, and what an effective predicate starts with, is     *)
(* proved by the shortest counterexample.                                   *)
EXTENDS SqlPlan, Integers, SequenceTheorems, WellFoundedInduction, TLAPS

States ==
  CASE dialect = "sqlite" -> LexState \ {"Dollar", "Dashes"}
    [] dialect = "mysql" -> LexState \ {"Bracket", "Dollar", "Dashes"}
    [] dialect = "postgres" -> LexState \ {"Backtick", "Bracket", "Dashes"}

ServerStates == IF dialect = "mysql" THEN States \cup {"Dashes"} ELSE States

TokenStates == LexState \ {"Dollar", "Dashes"}

(* A reader, whatever its depth. *)
In(states) ==
  [state : states, escapes : BOOLEAN, depth : Int, tag : Tag \cup {"none"}, skip : BOOLEAN,
   word : Letter \cup {"none", "sign"}, first : Letter \cup {"none", "sign"},
   ident : {"none", "E", "name"}, veiled : BOOLEAN]

Typed ==
  /\ setting \in Settings
  /\ symbol \in setting.alphabet \cup {Edge}
  /\ text \in [prev : {"E", "fin", "letter", "tag", Edge}, edge : BOOLEAN, blank : BOOLEAN,
               line : BOOLEAN, delimiter : {"semicolon", "custom"}]
  /\ splitter \in In(States) /\ tokenizer \in In(TokenStates) /\ server \in In(ServerStates)

(* In such a literal a backslash before a quote is ambiguous. *)
Doubtful(p) == dialect = "postgres" /\ p.state = "SingleQuote" /\ ~p.escapes

(* The splitter p and the server s are at the same place, before c.  Where  *)
(* standard_conforming_strings is off or an E stands behind a dollar tag,   *)
(* the server may skip what follows a backslash, if that is no quote.       *)
Level(p, s, c) ==
  /\ p.state = s.state \/ (p.state = "LineComment" /\ s.state = "Dashes")
  /\ p.depth = s.depth /\ p.tag = s.tag
  /\ p.escapes = s.escapes \/ Doubtful(p)
  /\ p.skip = s.skip \/ (Doubtful(p) /\ s.escapes /\ s.skip /\ c # "quote")

(* What the PostgreSQL server knows of the identifier it is in, and what    *)
(* the splitter sees of it in x, the symbols before.                        *)
Words(s, x, c) ==
  dialect = "postgres" =>
    /\ s.state # "Code" => s.ident = "none"
    /\ s.state = "Code" =>
         /\ s.skip => c = "slash" /\ s.ident = "none"
         /\ x.prev = Edge => s.ident = "none"
         /\ x.prev # Edge => s.ident # "none" \/ x.prev = "tag"
         /\ x.prev = "E" /\ x.edge => s.ident = "E"

(* What code_tokens makes of the first word, in t, and what the server does *)
(* in s: the word is behind a comment only the server knows, or none, or    *)
(* read by both, or not yet, and until then both are at the same place.     *)
Unread(t, s) ==
  /\ t.first = "none" /\ s.first = "none" /\ t.word = s.word /\ t.skip = s.skip
  /\ t.state = s.state \/ (t.state = "LineComment" /\ s.state = "Dashes")
  /\ s.state \in {"Code", "LineComment", "BlockComment", "Dashes"}
  /\ s.state # "Code" => s.word = "none"
  /\ s.state = "BlockComment" /\ dialect = "postgres" => s.depth = 1

Judged(t, s) ==
  \/ s.veiled
  \/ leading_statement_keyword(s) = "sign"
  \/ (s.first # "none" /\ t.first = s.first)
  \/ Unread(t, s)

Sound == {"boundary", "drop", "read"} \cap wrong = {}

TextInv ==
  /\ Typed
  /\ status = "scanning" => /\ Level(splitter, server, symbol)
                            /\ Words(server, text, symbol)
                            /\ Judged(tokenizer, server)
  /\ status \in {"scanning", "planned"} => Sound

-----------------------------------------------------------------------------
(* What a step of a reader leaves alone *)

LEMMA Moves ==
  ASSUME NEW S, NEW r \in In(S), NEW q \in S
  PROVE  /\ To(r, q) = [r EXCEPT !.state = q] /\ To(r, q) \in In(S)
         /\ ToPast(r, q) \in In(S)
BY DEF To, ToPast, In

LEMMA Flushes ==
  ASSUME NEW S, NEW r \in In(S)
  PROVE  /\ flush(r) \in In(S)
         /\ flush(r).word = "none"
         /\ flush(r).first = IF r.first = "none" THEN r.word ELSE r.first
         /\ flush(r).state = r.state /\ flush(r).escapes = r.escapes /\ flush(r).depth = r.depth
         /\ flush(r).tag = r.tag /\ flush(r).skip = r.skip /\ flush(r).ident = r.ident
         /\ flush(r).veiled = r.veiled
BY DEF In, flush

LEMMA Pushes ==
  ASSUME NEW S, NEW r \in In(S), NEW c
  PROVE  LET w == Push(r, c)
         IN /\ w \in In(S)
            /\ w.first = r.first
            /\ w.word = IF r.first # "none" THEN r.word
                        ELSE IF r.word = "none" /\ c \in Letter THEN c ELSE "sign"
            /\ w.state = r.state /\ w.escapes = r.escapes /\ w.depth = r.depth
            /\ w.tag = r.tag /\ w.skip = r.skip /\ w.ident = r.ident /\ w.veiled = r.veiled
BY DEF In, Push, Letter

LEMMA PushesSign ==
  ASSUME NEW S, NEW r \in In(S)
  PROVE  LET w == PushSign(r)
         IN /\ w \in In(S)
            /\ w.word = "none"
            /\ w.first = IF r.first # "none" THEN r.first
                         ELSE IF r.word # "none" THEN r.word ELSE "sign"
            /\ w.state = r.state /\ w.escapes = r.escapes /\ w.depth = r.depth
            /\ w.tag = r.tag /\ w.skip = r.skip /\ w.ident = r.ident /\ w.veiled = r.veiled
<1>1. flush(r) \in In(S)
  BY Flushes
<1>2. QED
  BY <1>1, Flushes DEF In, PushSign

(* What the server makes of a symbol of the text, once it knows what the    *)
(* symbol opens.                                                            *)
LEMMA ServerReads ==
  ASSUME NEW S, NEW o \in In(S), NEW c
  PROVE  LET w == ServerWord(o, c)
             comment == o.state \in {"LineComment", "BlockComment", "Dashes"}
             named == c \in Tag /\ o.ident # "none"
         IN /\ w \in In(S)
            /\ w.state = o.state /\ w.escapes = o.escapes /\ w.depth = o.depth /\ w.tag = o.tag
            /\ w.skip = o.skip /\ w.veiled = o.veiled
            /\ w.ident = IF comment THEN "none"
                         ELSE IF c \in Letter
                           THEN IF c = "E" /\ o.ident = "none" THEN "E" ELSE "name"
                         ELSE IF named THEN "name" ELSE "none"
            /\ comment \/ (c \in Blank /\ ~named) =>
                 /\ w.word = "none"
                 /\ w.first = IF o.first = "none" THEN o.word ELSE o.first
            /\ ~comment /\ (c \in Letter \/ named) =>
                 /\ w.first = o.first
                 /\ w.word = IF o.first # "none" THEN o.word
                             ELSE IF o.word = "none" /\ c \in Letter THEN c ELSE "sign"
            /\ ~comment /\ c \notin Letter \cup Blank /\ ~named =>
                 /\ w.word = "none"
                 /\ w.first = IF o.first # "none" THEN o.first
                              ELSE IF o.word # "none" THEN o.word ELSE "sign"
<1> DEFINE r == [o EXCEPT !.ident = "none"]
           e == [r EXCEPT !.ident = IF c = "E" /\ o.ident = "none" THEN "E" ELSE "name"]
           m == [r EXCEPT !.ident = "name"]
<1>1. /\ r \in In(S) /\ e \in In(S) /\ m \in In(S)
      /\ r.ident = "none" /\ m.ident = "name"
      /\ e.ident = IF c = "E" /\ o.ident = "none" THEN "E" ELSE "name"
      /\ \A x \in {r, e, m} :
           /\ x.state = o.state /\ x.escapes = o.escapes /\ x.depth = o.depth /\ x.tag = o.tag
           /\ x.skip = o.skip /\ x.veiled = o.veiled /\ x.word = o.word /\ x.first = o.first
  BY DEF In
<1>2. ServerWord(o, c) =
        IF o.state \in {"LineComment", "BlockComment", "Dashes"} THEN flush(r)
        ELSE IF c \in Letter THEN Push(e, c)
        ELSE IF c \in Tag /\ o.ident # "none" THEN Push(m, c)
        ELSE IF c \in Blank THEN flush(r)
        ELSE PushSign(r)
  BY DEF ServerWord
<1>3. Letter \cap Blank = {} /\ Letter \cap Tag = {} /\ Tag \cap Blank = {}
  BY DEF Letter, Tag, Blank
<1> HIDE DEF r, e, m
<1>4. CASE o.state \in {"LineComment", "BlockComment", "Dashes"}
  BY <1>1, <1>2, <1>4, Flushes
<1>5. CASE o.state \notin {"LineComment", "BlockComment", "Dashes"} /\ c \in Letter
  BY <1>1, <1>2, <1>3, <1>5, Pushes
<1>6. CASE o.state \notin {"LineComment", "BlockComment", "Dashes"} /\ c \in Tag /\ o.ident # "none"
  BY <1>1, <1>2, <1>3, <1>6, Pushes
<1>7. CASE /\ o.state \notin {"LineComment", "BlockComment", "Dashes"} /\ c \notin Letter
           /\ ~(c \in Tag /\ o.ident # "none") /\ c \in Blank
  BY <1>1, <1>2, <1>3, <1>7, Flushes
<1>8. CASE /\ o.state \notin {"LineComment", "BlockComment", "Dashes"} /\ c \notin Letter
           /\ ~(c \in Tag /\ o.ident # "none") /\ c \notin Blank
  BY <1>1, <1>2, <1>3, <1>8, PushesSign
<1>9. QED
  BY <1>4, <1>5, <1>6, <1>7, <1>8

-----------------------------------------------------------------------------
(* The steps the scanners share *)

(* What no splitter touches. *)
SameWord(q, r) == q.word = r.word /\ q.first = r.first /\ q.ident = r.ident /\ q.veiled = r.veiled

LEMMA QuotedIs ==
  ASSUME NEW S, "Code" \in S, NEW r \in In(S), NEW c, NEW n, NEW quote
  PROVE  LET q == Quoted(r, c, n, quote)
         IN /\ q \in In(S) /\ SameWord(q, r) /\ q.depth = r.depth /\ q.tag = r.tag
            /\ q.state = IF c = quote /\ n # quote THEN "Code" ELSE r.state
            /\ q.skip = IF c = quote /\ n = quote THEN TRUE ELSE r.skip
            /\ q.escapes = IF c = quote /\ n # quote THEN FALSE ELSE r.escapes
BY DEF Quoted, To, In, SameWord

LEMMA EscapedIs ==
  ASSUME NEW S, "Code" \in S, NEW r \in In(S), NEW c, NEW n, NEW quote
  PROVE  LET q == Escaped(r, c, n, quote)
         IN /\ q \in In(S) /\ SameWord(q, r) /\ q.depth = r.depth /\ q.tag = r.tag
            /\ c = "backslash" =>
                 q.state = r.state /\ q.skip = (n # Edge) /\ q.escapes = r.escapes
            /\ c # "backslash" =>
                 /\ q.state = IF c = quote /\ n # quote THEN "Code" ELSE r.state
                 /\ q.skip = IF c = quote /\ n = quote THEN TRUE ELSE r.skip
                 /\ q.escapes = IF c = quote /\ n # quote THEN FALSE ELSE r.escapes
<1>1. CASE c = "backslash"
  BY <1>1 DEF Escaped, In, SameWord
<1>2. CASE c # "backslash"
  <2>1. Escaped(r, c, n, quote) = Quoted(r, c, n, quote)
    BY <1>2 DEF Escaped
  <2>2. QED
    BY <1>2, <2>1 DEF Quoted, To, In, SameWord
<1>3. QED
  BY <1>1, <1>2

LEMMA LineCommentIs ==
  ASSUME NEW S, "Code" \in S, NEW r \in In(S), NEW c
  PROVE  LET q == LineComment(r, c)
         IN /\ q \in In(S) /\ SameWord(q, r) /\ q.depth = r.depth /\ q.tag = r.tag
            /\ q.skip = r.skip /\ q.escapes = r.escapes
            /\ q.state = IF c \in {"newline", "return"} THEN "Code" ELSE r.state
BY DEF LineComment, To, In, SameWord

LEMMA BlockCommentIs ==
  ASSUME NEW S, "Code" \in S, NEW r \in In(S), NEW c, NEW n
  PROVE  LET q == BlockComment(r, c, n)
         IN /\ q \in In(S) /\ SameWord(q, r) /\ q.depth = r.depth /\ q.tag = r.tag
            /\ q.escapes = r.escapes
            /\ q.state = IF c = "star" /\ n = "slash" THEN "Code" ELSE r.state
            /\ q.skip = IF c = "star" /\ n = "slash" THEN TRUE ELSE r.skip
BY DEF BlockComment, ToPast, In, SameWord

LEMMA OpensCommentIs ==
  ASSUME NEW S, {"LineComment", "BlockComment"} \subseteq S, NEW r \in In(S), NEW c, NEW n
  PROVE  LET q == OpensComment(r, c, n)
         IN /\ q \in In(S) /\ SameWord(q, r) /\ q.depth = r.depth /\ q.tag = r.tag
            /\ q.escapes = r.escapes
            /\ q.state = IF c = "dash" /\ n = "dash" THEN "LineComment"
                         ELSE IF c = "slash" /\ n = "star" THEN "BlockComment" ELSE r.state
            /\ q.skip = IF c = "dash" /\ n = "dash" THEN TRUE
                        ELSE IF c = "slash" /\ n = "star" THEN TRUE ELSE r.skip
            /\ c \notin {"dash", "slash"} => q = r
BY DEF OpensComment, ToPast, In, SameWord

LEMMA NestedCommentIs ==
  ASSUME NEW S, {"Code", "BlockComment"} \subseteq S, NEW r \in In(S), NEW c, NEW n
  PROVE  LET q == NestedComment(r, c, n)
             ends == c = "star" /\ n = "slash"
             begins == c = "slash" /\ n = "star"
         IN /\ q \in In(S) /\ SameWord(q, r) /\ q.tag = r.tag /\ q.escapes = r.escapes
            /\ q.state = IF ends THEN (IF r.depth = 1 THEN "Code" ELSE "BlockComment") ELSE r.state
            /\ q.depth = IF begins THEN r.depth + 1 ELSE IF ends THEN r.depth - 1 ELSE r.depth
            /\ q.skip = IF begins THEN TRUE ELSE IF ends THEN TRUE ELSE r.skip
<1>1. CASE c = "slash" /\ n = "star"
  <2>1. r.depth \in Int /\ r.depth + 1 \in Int
    BY DEF In
  <2>2. NestedComment(r, c, n) = [r EXCEPT !.depth = r.depth + 1, !.skip = TRUE]
    BY <1>1 DEF NestedComment, In
  <2> DEFINE d == r.depth + 1
  <2> HIDE DEF d
  <2>3. d \in Int /\ NestedComment(r, c, n) = [r EXCEPT !.depth = d, !.skip = TRUE]
    BY <2>1, <2>2 DEF d
  <2>4. /\ NestedComment(r, c, n).depth = d /\ NestedComment(r, c, n) \in In(S)
        /\ NestedComment(r, c, n).skip = TRUE /\ NestedComment(r, c, n).state = r.state
        /\ NestedComment(r, c, n).tag = r.tag /\ NestedComment(r, c, n).escapes = r.escapes
        /\ SameWord(NestedComment(r, c, n), r)
    BY <2>3 DEF In, SameWord
  <2>5. QED
    BY <1>1, <2>4 DEF d
<1>2. CASE c = "star" /\ n = "slash"
  <2> DEFINE d == r.depth - 1
             x == IF r.depth = 1 THEN "Code" ELSE "BlockComment"
  <2>1. d \in Int /\ x \in S
    BY DEF In
  <2>2. NestedComment(r, c, n) = [r EXCEPT !.depth = d, !.skip = TRUE, !.state = x]
    BY <1>2 DEF NestedComment, In
  <2> HIDE DEF d, x
  <2>4. /\ NestedComment(r, c, n).depth = d /\ NestedComment(r, c, n) \in In(S)
        /\ NestedComment(r, c, n).skip = TRUE /\ NestedComment(r, c, n).state = x
        /\ NestedComment(r, c, n).tag = r.tag /\ NestedComment(r, c, n).escapes = r.escapes
        /\ SameWord(NestedComment(r, c, n), r)
    BY <2>1, <2>2 DEF In, SameWord
  <2>5. QED
    BY <1>2, <2>4 DEF d, x
<1>3. CASE ~(c = "slash" /\ n = "star") /\ ~(c = "star" /\ n = "slash")
  BY <1>3 DEF NestedComment, In, SameWord
<1>4. QED
  BY <1>1, <1>2, <1>3

LEMMA VeilIs ==
  ASSUME NEW S, NEW r \in In(S)
  PROVE  LET q == Veil(r)
         IN /\ q \in In(S)
            /\ q.word = r.word /\ q.first = r.first /\ q.ident = r.ident
            /\ q.state = r.state /\ q.escapes = r.escapes /\ q.depth = r.depth /\ q.tag = r.tag
            /\ q.skip = r.skip
            /\ q.veiled <=> r.veiled \/ leading_statement_keyword(r) = "none"
<1> DEFINE v == r.veiled \/ leading_statement_keyword(r) = "none"
<1>1. v \in BOOLEAN
  BY DEF In
<1>2. Veil(r) = [r EXCEPT !.veiled = v]
  BY DEF Veil
<1> HIDE DEF v
<1>3. [r EXCEPT !.veiled = v] \in In(S) /\ [r EXCEPT !.veiled = v].veiled = v
  BY <1>1 DEF In
<1>4. QED
  BY <1>1, <1>2, <1>3 DEF v, In

LEMMA LeadIs ==
  ASSUME NEW S, NEW r \in In(S)
  PROVE  leading_statement_keyword(r) = IF r.first = "none" THEN r.word ELSE r.first
BY Flushes DEF leading_statement_keyword

-----------------------------------------------------------------------------
(* The splitters *)

LEMMA OpenedIs ==
  ASSUME NEW c, NEW n
  PROVE  Opened(c, n) = IF c = "quote" THEN "SingleQuote" ELSE IF c = "double" THEN "DoubleQuote"
                        ELSE IF c = "tick" THEN "Backtick" ELSE IF c = "open" THEN "Bracket"
                        ELSE "Code"
BY DEF Opened

(* What a splitter makes of a reader depends on where it is; what the       *)
(* reader knows of its word stays.                                          *)
Scans(q, r, states) ==
  /\ q \in In(states) /\ SameWord(q, r)

LEMMA SqliteScans ==
  ASSUME NEW S, TokenStates \subseteq S, NEW r \in In(S), r.state \in TokenStates, NEW c, NEW n
  PROVE  Scans(split_statements(r, c, n), r, S)
<1> DEFINE q == split_statements(r, c, n)
<1>1. {"Code", "LineComment", "BlockComment"} \subseteq S /\ Opened(c, n) \in S
  BY OpenedIs DEF TokenStates, LexState
<1>2. ASSUME NEW x \in S PROVE Scans(To(r, x), r, S)
  BY <1>2 DEF Scans, SameWord, To, In
<1>3. Scans(r, r, S)
  BY DEF Scans, SameWord
<1>4. CASE r.state = "Code"
  BY <1>1, <1>2, <1>4, OpensCommentIs DEF split_statements, Scans
<1>5. CASE r.state \in {"SingleQuote", "DoubleQuote", "Backtick"}
  BY <1>1, <1>5, QuotedIs DEF split_statements, Scans
<1>6. CASE r.state = "Bracket"
  BY <1>1, <1>2, <1>3, <1>6 DEF split_statements
<1>7. CASE r.state \in {"LineComment", "BlockComment"}
  BY <1>1, <1>7, LineCommentIs, BlockCommentIs DEF split_statements, Scans
<1>8. QED
  BY <1>4, <1>5, <1>6, <1>7 DEF TokenStates, LexState

MySqlStates == LexState \ {"Bracket", "Dollar", "Dashes"}
PostgresStates == LexState \ {"Backtick", "Bracket", "Dashes"}

LEMMA MySqlScans ==
  ASSUME NEW S, MySqlStates \subseteq S, NEW r \in In(S), r.state \in MySqlStates, NEW c, NEW n
  PROVE  Scans(split_mysql_statements(r, c, n), r, S)
<1>1. {"Code", "LineComment", "BlockComment"} \subseteq S /\ (c # "open" => Opened(c, n) \in S)
  BY OpenedIs DEF MySqlStates, LexState
<1>2. ASSUME NEW x \in S PROVE Scans(To(r, x), r, S)
  BY <1>2 DEF Scans, SameWord, To, In
<1>4. CASE r.state = "Code"
  BY <1>1, <1>2, <1>4, OpensCommentIs DEF split_mysql_statements, Scans
<1>5. CASE r.state = "Backtick"
  BY <1>1, <1>5, QuotedIs DEF split_mysql_statements, Scans
<1>6. CASE r.state \in {"SingleQuote", "DoubleQuote"}
  BY <1>1, <1>6, EscapedIs DEF split_mysql_statements, Scans
<1>7. CASE r.state \in {"LineComment", "BlockComment"}
  BY <1>1, <1>7, LineCommentIs, BlockCommentIs DEF split_mysql_statements, Scans
<1>8. QED
  BY <1>4, <1>5, <1>6, <1>7 DEF MySqlStates, LexState

LEMMA PostgresScans ==
  ASSUME NEW S, PostgresStates \subseteq S, NEW r \in In(S), r.state \in PostgresStates,
         text.edge \in BOOLEAN, NEW c, NEW n
  PROVE  Scans(split_postgres_statements(r, c, n), r, S)
<1>1. {"Code", "LineComment", "BlockComment", "SingleQuote", "DoubleQuote", "Dollar"} \subseteq S
  BY DEF PostgresStates, LexState
<1>2. ASSUME NEW x \in S PROVE Scans(To(r, x), r, S)
  BY <1>2 DEF Scans, SameWord, To, In
<1>3. Scans(r, r, S)
  BY DEF Scans, SameWord
<1>4. CASE r.state = "Code"
  <2> DEFINE e == escape_string_prefix
  <2>1. e \in BOOLEAN
    BY DEF escape_string_prefix
  <2> HIDE DEF e
  <2>2. Scans([To(r, "SingleQuote") EXCEPT !.escapes = e], r, S)
    BY <1>1, <2>1 DEF Scans, SameWord, To, In
  <2>3. Scans([ToPast(r, "BlockComment") EXCEPT !.depth = 1], r, S)
    <3>1. ASSUME NEW d \in Int PROVE Scans([ToPast(r, "BlockComment") EXCEPT !.depth = d], r, S)
      BY <1>1 DEF Scans, SameWord, ToPast, In
    <3>2. QED
      BY <3>1
  <2>4. c \in Tag => Scans([To(r, "Dollar") EXCEPT !.tag = c], r, S)
    BY <1>1 DEF Scans, SameWord, To, In
  <2>5. Scans(OpensComment(r, c, n), r, S)
    BY <1>1, OpensCommentIs DEF Scans
  <2>6. split_postgres_statements(r, c, n) =
         IF c = "quote" THEN [To(r, "SingleQuote") EXCEPT !.escapes = e]
         ELSE IF c = "double" THEN To(r, "DoubleQuote")
         ELSE IF c = "slash" /\ n = "star" THEN [ToPast(r, "BlockComment") EXCEPT !.depth = 1]
         ELSE IF c \in Tag /\ token_boundary_before THEN [To(r, "Dollar") EXCEPT !.tag = c]
         ELSE OpensComment(r, c, n)
    BY <1>4 DEF split_postgres_statements, e
  <2>7. QED
    BY <1>1, <1>2, <2>2, <2>3, <2>4, <2>5, <2>6
<1>5. CASE r.state \in {"SingleQuote", "DoubleQuote"}
  BY <1>1, <1>5, QuotedIs, EscapedIs DEF split_postgres_statements, Scans
<1>6. CASE r.state = "Dollar"
  <2>1. split_postgres_statements(r, c, n) =
          IF c = r.tag THEN [To(r, "Code") EXCEPT !.tag = "none"] ELSE r
    BY <1>6 DEF split_postgres_statements
  <2>2. Scans([To(r, "Code") EXCEPT !.tag = "none"], r, S)
    BY <1>1 DEF Scans, SameWord, To, In
  <2>3. QED
    BY <1>3, <2>1, <2>2
<1>7. CASE r.state = "LineComment"
  BY <1>1, <1>7, LineCommentIs DEF split_postgres_statements, Scans
<1>8. CASE r.state = "BlockComment"
  <2>1. split_postgres_statements(r, c, n) = NestedComment(r, c, n)
    BY <1>8 DEF split_postgres_statements
  <2>2. NestedComment(r, c, n) \in In(S) /\ SameWord(NestedComment(r, c, n), r)
    <3>1. {"Code", "BlockComment"} \subseteq S
      BY <1>1
    <3>2. QED
      BY <3>1, NestedCommentIs
  <2>3. QED
    BY <2>1, <2>2 DEF Scans
<1>9. QED
  BY <1>4, <1>5, <1>6, <1>7, <1>8 DEF PostgresStates, LexState

-----------------------------------------------------------------------------
(* Readers of one kind at one place stay at one place *)

(* All that a splitter looks at and changes. *)
Same(p, s) == /\ p.state = s.state /\ p.escapes = s.escapes /\ p.depth = s.depth
              /\ p.tag = s.tag /\ p.skip = s.skip

LEMMA SqliteSame ==
  ASSUME NEW S, NEW R, TokenStates \subseteq S, TokenStates \subseteq R,
         NEW p \in In(S), NEW s \in In(R), p.state \in TokenStates, Same(p, s),
         NEW c, NEW n
  PROVE  Same(split_statements(p, c, n), split_statements(s, c, n))
<1>1. /\ {"Code", "LineComment", "BlockComment"} \subseteq S /\ Opened(c, n) \in S
      /\ {"Code", "LineComment", "BlockComment"} \subseteq R /\ Opened(c, n) \in R
  BY OpenedIs DEF TokenStates, LexState
<1>2. ASSUME NEW x PROVE Same(To(p, x), To(s, x))
  BY <1>2 DEF Same, To, In
<1>3. Same(OpensComment(p, c, n), OpensComment(s, c, n))
  BY DEF Same, OpensComment, ToPast, In
<1>4. ASSUME NEW quote PROVE Same(Quoted(p, c, n, quote), Quoted(s, c, n, quote))
  BY DEF Same, Quoted, To, In
<1>5. Same(LineComment(p, c), LineComment(s, c)) /\ Same(BlockComment(p, c, n), BlockComment(s, c, n))
  BY DEF Same, LineComment, BlockComment, To, ToPast, In
<1>6. p.state = s.state
  BY DEF Same
<1>7. CASE p.state = "Code"
  BY <1>2, <1>3, <1>6, <1>7 DEF split_statements
<1>8. CASE p.state \in {"SingleQuote", "DoubleQuote", "Backtick"}
  BY <1>4, <1>6, <1>8 DEF split_statements
<1>9. CASE p.state = "Bracket"
  BY <1>2, <1>6, <1>9 DEF split_statements
<1>10. CASE p.state \in {"LineComment", "BlockComment"}
  BY <1>5, <1>6, <1>10 DEF split_statements
<1>11. QED
  BY <1>7, <1>8, <1>9, <1>10 DEF TokenStates, LexState

LEMMA MySqlSame ==
  ASSUME NEW S, NEW R, MySqlStates \subseteq S, MySqlStates \subseteq R,
         NEW p \in In(S), NEW s \in In(R), p.state \in MySqlStates, Same(p, s),
         NEW c, NEW n
  PROVE  Same(split_mysql_statements(p, c, n), split_mysql_statements(s, c, n))
<1>1. \A x : Same(To(p, x), To(s, x))
  BY DEF Same, To, In
<1>2. Same(OpensComment(p, c, n), OpensComment(s, c, n))
  BY DEF Same, OpensComment, ToPast, In
<1>3. \A quote : Same(Quoted(p, c, n, quote), Quoted(s, c, n, quote))
  BY DEF Same, Quoted, To, In
<1>4. \A quote : Same(Escaped(p, c, n, quote), Escaped(s, c, n, quote))
  <2>1. CASE c = "backslash"
    BY <2>1 DEF Same, Escaped, In
  <2>2. CASE c # "backslash"
    BY <1>3, <2>2 DEF Escaped
  <2>3. QED
    BY <2>1, <2>2
<1>5. Same(LineComment(p, c), LineComment(s, c)) /\ Same(BlockComment(p, c, n), BlockComment(s, c, n))
  BY DEF Same, LineComment, BlockComment, To, ToPast, In
<1>6. p.state = s.state
  BY DEF Same
<1>7. CASE p.state = "Code"
  BY <1>1, <1>2, <1>6, <1>7 DEF split_mysql_statements
<1>8. CASE p.state = "SingleQuote"
  BY <1>4, <1>6, <1>8 DEF split_mysql_statements
<1>9. CASE p.state = "DoubleQuote"
  BY <1>4, <1>6, <1>9 DEF split_mysql_statements
<1>10. CASE p.state = "Backtick"
  BY <1>3, <1>6, <1>10 DEF split_mysql_statements
<1>11. CASE p.state \in {"LineComment", "BlockComment"}
  BY <1>5, <1>6, <1>11 DEF split_mysql_statements
<1>12. QED
  BY <1>7, <1>8, <1>9, <1>10, <1>11 DEF MySqlStates, LexState

(* Outside of string literals and what starts in code. *)
LEMMA PostgresSame ==
  ASSUME NEW S, NEW R, PostgresStates \subseteq S, PostgresStates \subseteq R,
         NEW p \in In(S), NEW s \in In(R), p.state \in PostgresStates \ {"SingleQuote"}, Same(p, s),
         NEW c, NEW n
  PROVE  Same(split_postgres_statements(p, c, n), split_postgres_statements(s, c, n))
<1>1. \A x : Same(To(p, x), To(s, x))
  BY DEF Same, To, In
<1>2. Same(OpensComment(p, c, n), OpensComment(s, c, n))
  BY DEF Same, OpensComment, ToPast, In
<1>3. \A quote : Same(Quoted(p, c, n, quote), Quoted(s, c, n, quote))
  BY DEF Same, Quoted, To, In
<1>4. Same(NestedComment(p, c, n), NestedComment(s, c, n))
  BY DEF Same, NestedComment, In
<1>5. Same(LineComment(p, c), LineComment(s, c))
  BY DEF Same, LineComment, To, In
<1>6. p.state = s.state /\ p.tag = s.tag
  BY DEF Same
<1>7. CASE p.state = "Code"
  <2>1. \A x : Same([To(p, "SingleQuote") EXCEPT !.escapes = x], [To(s, "SingleQuote") EXCEPT !.escapes = x])
    BY DEF Same, To, In
  <2>2. \A x : Same([ToPast(p, "BlockComment") EXCEPT !.depth = x], [ToPast(s, "BlockComment") EXCEPT !.depth = x])
    BY DEF Same, ToPast, In
  <2>3. \A x : Same([To(p, "Dollar") EXCEPT !.tag = x], [To(s, "Dollar") EXCEPT !.tag = x])
    BY DEF Same, To, In
  <2>4. QED
    BY <1>1, <1>2, <1>6, <1>7, <2>1, <2>2, <2>3 DEF split_postgres_statements
<1>8. CASE p.state = "DoubleQuote"
  BY <1>3, <1>6, <1>8 DEF split_postgres_statements
<1>9. CASE p.state = "Dollar"
  <2>1. Same([To(p, "Code") EXCEPT !.tag = "none"], [To(s, "Code") EXCEPT !.tag = "none"])
    BY DEF Same, To, In
  <2>2. QED
    BY <1>6, <1>9, <2>1 DEF split_postgres_statements
<1>10. CASE p.state = "LineComment"
  BY <1>5, <1>6, <1>10 DEF split_postgres_statements
<1>11. CASE p.state = "BlockComment"
  BY <1>4, <1>6, <1>11 DEF split_postgres_statements
<1>12. QED
  BY <1>7, <1>8, <1>9, <1>10, <1>11 DEF PostgresStates, LexState

-----------------------------------------------------------------------------
(* The readers of each dialect: what they are after a step *)

LEMMA Dialects ==
  ASSUME Typed
  PROVE  /\ dialect \in {"sqlite", "mysql", "postgres"}
         /\ dialect = "sqlite" => States = TokenStates /\ ServerStates = TokenStates
         /\ dialect = "mysql" => States = MySqlStates /\ ServerStates = MySqlStates \cup {"Dashes"}
         /\ dialect = "postgres" => States = PostgresStates /\ ServerStates = PostgresStates
         /\ text.edge \in BOOLEAN
<1>1. dialect \in {"sqlite", "mysql", "postgres"}
  BY SqlTextAssumption DEF Typed, dialect
<1>2. text.edge \in BOOLEAN
  BY DEF Typed
<1>3. QED
  BY <1>1, <1>2 DEF States, ServerStates, TokenStates, MySqlStates, PostgresStates

LEMMA Passed ==
  ASSUME NEW S, NEW r \in In(S)
  PROVE  LET q == [r EXCEPT !.skip = FALSE]
         IN /\ q \in In(S) /\ SameWord(q, r) /\ q.skip = FALSE
            /\ q.state = r.state /\ q.escapes = r.escapes /\ q.depth = r.depth /\ q.tag = r.tag
BY DEF In, SameWord

LEMMA SplitterTyped ==
  ASSUME Typed, NEW n
  PROVE  split_statements_for_dialect(splitter, symbol, n) \in In(States)
<1> DEFINE p == splitter
<1>1. p \in In(States) /\ p.state \in States
  BY DEF Typed, In
<1>2. CASE p.skip
  BY <1>1, <1>2, Passed DEF split_statements_for_dialect
<1>3. CASE ~p.skip /\ dialect = "sqlite"
  BY <1>1, <1>3, Dialects, SqliteScans DEF split_statements_for_dialect, Scans
<1>4. CASE ~p.skip /\ dialect = "mysql"
  BY <1>1, <1>4, Dialects, MySqlScans DEF split_statements_for_dialect, Scans
<1>5. CASE ~p.skip /\ dialect = "postgres"
  BY <1>1, <1>5, Dialects, PostgresScans DEF split_statements_for_dialect, Scans
<1>6. QED
  BY <1>2, <1>3, <1>4, <1>5, Dialects

(* What a symbol opens for the MySQL server. *)
MySqlOpens(r, c, n) ==
  CASE c = "dash" /\ n = "dash" -> ToPast(r, "Dashes")
    [] c = "hash" -> split_mysql_statements(Veil(r), c, n)
    [] OTHER -> split_mysql_statements(r, c, n)

LEMMA MySqlOpensIs ==
  ASSUME NEW S, MySqlStates \cup {"Dashes"} \subseteq S, NEW r \in In(S), r.state = "Code", NEW c, NEW n
  PROVE  LET o == MySqlOpens(r, c, n)
         IN /\ o \in In(S) /\ o.word = r.word /\ o.first = r.first /\ o.ident = r.ident
            /\ o.veiled <=> r.veiled \/ (c = "hash" /\ leading_statement_keyword(r) = "none")
            /\ c = "dash" /\ n = "dash" =>
                 /\ o.state = "Dashes" /\ o.skip = TRUE
                 /\ o.escapes = r.escapes /\ o.depth = r.depth /\ o.tag = r.tag
            /\ ~(c = "dash" /\ n = "dash") => Same(o, split_mysql_statements(r, c, n))
<1>1. "Code" \in MySqlStates /\ MySqlStates \subseteq S
  BY DEF MySqlStates, LexState
<1>2. CASE c = "dash" /\ n = "dash"
  <2>1. MySqlOpens(r, c, n) = ToPast(r, "Dashes")
    BY <1>2 DEF MySqlOpens
  <2>2. QED
    BY <1>2, <2>1 DEF ToPast, In
<1>3. CASE c = "hash"
  <2>1. MySqlOpens(r, c, n) = split_mysql_statements(Veil(r), c, n)
    BY <1>3 DEF MySqlOpens
  <2>2. Veil(r) \in In(S) /\ Veil(r).state = "Code" /\ Same(r, Veil(r))
    BY VeilIs DEF Same
  <2>3. Scans(MySqlOpens(r, c, n), Veil(r), S)
    BY <1>1, <2>1, <2>2, MySqlScans
  <2>4. Same(split_mysql_statements(r, c, n), MySqlOpens(r, c, n))
    BY <1>1, <2>1, <2>2, MySqlSame
  <2>5. Same(MySqlOpens(r, c, n), split_mysql_statements(r, c, n))
    BY <2>4 DEF Same
  <2>6. QED
    BY <1>3, <2>3, <2>5, VeilIs DEF Scans, SameWord
<1>4. CASE c # "hash" /\ ~(c = "dash" /\ n = "dash")
  <2>1. MySqlOpens(r, c, n) = split_mysql_statements(r, c, n)
    BY <1>4 DEF MySqlOpens
  <2>2. Scans(MySqlOpens(r, c, n), r, S)
    BY <1>1, <2>1, MySqlScans
  <2>3. QED
    BY <1>4, <2>1, <2>2 DEF Scans, SameWord, Same
<1>5. QED
  BY <1>2, <1>3, <1>4

LEMMA ServerTyped ==
  ASSUME Typed, NEW n
  PROVE  Serve(server, symbol, n) \in In(ServerStates)
<1> DEFINE s == server
           c == symbol
<1>1. s \in In(ServerStates) /\ s.state \in ServerStates
  BY DEF Typed, In
<1>2. CASE s.skip
  BY <1>1, <1>2, Passed DEF Serve
<1>3. CASE ~s.skip /\ dialect = "sqlite"
  <2>1. ServerStates = TokenStates /\ "Code" \in ServerStates /\ Serve(s, c, n) = SqliteServer(s, c, n)
    BY <1>3, Dialects DEF Serve, TokenStates, LexState
  <2>2. split_statements(s, c, n) \in In(ServerStates)
    BY <1>1, <2>1, SqliteScans DEF Scans
  <2>3. ServerWord(split_statements(s, c, n), c) \in In(ServerStates)
    BY <2>2, ServerReads
  <2>4. ServerLineComment(s, c) \in In(ServerStates)
    BY <1>1, <2>1 DEF ServerLineComment, To, In
  <2>5. QED
    BY <2>1, <2>2, <2>3, <2>4 DEF SqliteServer
<1>4. CASE ~s.skip /\ dialect = "mysql"
  <2>1. /\ MySqlStates \cup {"Dashes"} = ServerStates /\ {"Code", "LineComment"} \subseteq ServerStates
        /\ Serve(s, c, n) = MySqlServer(s, c, n)
    BY <1>4, Dialects DEF Serve, MySqlStates, LexState
  <2>2. ASSUME NEW r \in In(ServerStates), r.state = "Code"
        PROVE  MySqlCode(r, c, n) \in In(ServerStates)
    <3>1. MySqlOpens(r, c, n) \in In(ServerStates)
      BY <2>1, <2>2, MySqlOpensIs
    <3>2. QED
      BY <3>1, ServerReads DEF MySqlCode, MySqlOpens
  <2>3. \A r \in In(ServerStates) : ServerLineComment(r, c) \in In(ServerStates)
    BY <2>1 DEF ServerLineComment, To, In
  <2>4. CASE s.state = "LineComment"
    BY <1>1, <2>1, <2>3, <2>4 DEF MySqlServer
  <2>5. CASE s.state = "Dashes"
    <3>1. To(s, "Code") \in In(ServerStates) /\ To(s, "LineComment") \in In(ServerStates)
      BY <1>1, <2>1 DEF To, In
    <3>2. PushSign(To(s, "Code")) \in In(ServerStates) /\ PushSign(To(s, "Code")).state = "Code"
      <4>1. To(s, "Code").state = "Code"
        BY <1>1 DEF To, In
      <4>2. QED
        BY <3>1, <4>1, PushesSign
    <3>3. QED
      BY <2>1, <2>2, <2>3, <2>5, <3>1, <3>2 DEF MySqlServer
  <2>6. CASE s.state = "Code"
    BY <1>1, <2>1, <2>2, <2>6 DEF MySqlServer
  <2>7. CASE s.state \in MySqlStates \ {"Code", "LineComment"}
    <3>1. split_mysql_statements(s, c, n) \in In(ServerStates)
      BY <1>1, <2>1, <2>7, MySqlScans DEF Scans
    <3>2. s.state # "Dashes"
      BY <2>7 DEF MySqlStates
    <3>3. QED
      BY <2>1, <2>7, <3>1, <3>2 DEF MySqlServer
  <2>8. QED
    BY <1>1, <2>1, <2>4, <2>5, <2>6, <2>7
<1>5. CASE ~s.skip /\ dialect = "postgres"
  <2>1. /\ ServerStates = PostgresStates /\ {"Code", "SingleQuote", "Dollar", "BlockComment"} \subseteq ServerStates
        /\ Serve(s, c, n) = PostgresServer(s, c, n) /\ text.edge \in BOOLEAN
    BY <1>5, Dialects DEF Serve, PostgresStates, LexState
  <2>2. split_postgres_statements(s, c, n) \in In(ServerStates)
    BY <1>1, <2>1, PostgresScans DEF Scans
  <2>3. CASE s.state = "Code" /\ c = "quote"
    <3> DEFINE e == ~setting.conforming \/ s.ident = "E"
    <3>1. e \in BOOLEAN
      OBVIOUS
    <3> HIDE DEF e
    <3>2. [To(s, "SingleQuote") EXCEPT !.escapes = e] \in In(ServerStates)
      BY <1>1, <2>1, <3>1 DEF To, In
    <3>3. Serve(s, c, n) = ServerWord([To(s, "SingleQuote") EXCEPT !.escapes = e], c)
      BY <2>1, <2>3 DEF PostgresServer, e, Tag
    <3>4. QED
      BY <3>2, <3>3, ServerReads
  <2>4. CASE s.state = "Code" /\ c \in Tag
    <3>1. [To(s, "Dollar") EXCEPT !.tag = c] \in In(ServerStates)
      BY <1>1, <2>1, <2>4 DEF To, In
    <3>2. Serve(s, c, n) = ServerWord(IF s.ident # "none" THEN s ELSE [To(s, "Dollar") EXCEPT !.tag = c], c)
      BY <2>1, <2>4 DEF PostgresServer, Tag
    <3>3. QED
      BY <1>1, <3>1, <3>2, ServerReads
  <2>5. CASE s.state = "Code" /\ c \notin Tag \cup {"quote"}
    <3>1. Serve(s, c, n) = ServerWord(split_postgres_statements(s, c, n), c)
      BY <2>1, <2>5 DEF PostgresServer
    <3>2. QED
      BY <2>2, <3>1, ServerReads
  <2>6. CASE s.state = "BlockComment"
    <3> DEFINE v == IF c = "slash" /\ n = "star" THEN Veil(s) ELSE s
    <3>1. v \in In(ServerStates)
      BY <1>1, VeilIs
    <3>2. Serve(s, c, n) = NestedComment(v, c, n)
      BY <2>1, <2>6 DEF PostgresServer
    <3>3. {"Code", "BlockComment"} \subseteq ServerStates
      BY <2>1
    <3> HIDE DEF v
    <3>4. NestedComment(v, c, n) \in In(ServerStates)
      BY <3>1, <3>3, NestedCommentIs
    <3>5. QED
      BY <3>2, <3>4
  <2>7. CASE s.state \notin {"Code", "BlockComment"}
    BY <2>1, <2>2, <2>7 DEF PostgresServer
  <2>8. QED
    BY <2>3, <2>4, <2>5, <2>6, <2>7
<1>6. QED
  BY <1>2, <1>3, <1>4, <1>5, Dialects

LEMMA TokensTyped ==
  ASSUME Typed, NEW n
  PROVE  code_tokens(tokenizer, symbol, n) \in In(TokenStates)
<1> DEFINE t == tokenizer
           c == symbol
<1>1. /\ t \in In(TokenStates) /\ t.state \in TokenStates
      /\ {"Code", "SingleQuote", "LineComment", "BlockComment"} \subseteq TokenStates
      /\ Opened(c, n) \in TokenStates
  BY OpenedIs DEF Typed, In, TokenStates, LexState
<1>2. CASE t.first # "none"
  <2>1. NewReader \in In(TokenStates)
    <3>1. 0 \in Int
      OBVIOUS
    <3>2. QED
      BY <1>1, <3>1 DEF NewReader, In
  <2>2. t.first \in Letter \cup {"none", "sign"}
    BY <1>1 DEF In
  <2>3. [NewReader EXCEPT !.first = t.first] \in In(TokenStates)
    BY <2>1, <2>2 DEF In
  <2>4. QED
    BY <1>2, <2>3 DEF code_tokens
<1>3. CASE t.first = "none" /\ t.skip
  BY <1>1, <1>3, Passed DEF code_tokens
<1>4. \A x \in TokenStates : To(t, x) \in In(TokenStates)
  BY <1>1 DEF To, In
<1>5. CASE t.first = "none" /\ ~t.skip /\ t.state = "Code"
  <2>1. OpensComment(t, c, n) \in In(TokenStates)
    BY <1>1, OpensCommentIs
  <2>2. /\ PushSign(To(t, "SingleQuote")) \in In(TokenStates)
        /\ flush(To(t, Opened(c, n))) \in In(TokenStates)
        /\ flush(OpensComment(t, c, n)) \in In(TokenStates)
        /\ flush(t) \in In(TokenStates) /\ PushSign(t) \in In(TokenStates)
        /\ Push(t, c) \in In(TokenStates)
    BY <1>1, <1>4, <2>1, Flushes, PushesSign, Pushes
  <2>3. QED
    BY <1>5, <2>2 DEF code_tokens
<1>6. CASE t.first = "none" /\ ~t.skip /\ t.state = "SingleQuote"
  BY <1>1, <1>6, QuotedIs DEF code_tokens
<1>7. CASE t.first = "none" /\ ~t.skip /\ t.state \in {"DoubleQuote", "Backtick", "Bracket"}
  BY <1>1, <1>4, <1>7, Pushes DEF code_tokens, InIdentifier
<1>8. CASE t.first = "none" /\ ~t.skip /\ t.state = "LineComment"
  BY <1>1, <1>8, LineCommentIs DEF code_tokens, TokenLineComment
<1>9. CASE t.first = "none" /\ ~t.skip /\ t.state = "BlockComment"
  BY <1>1, <1>9, BlockCommentIs DEF code_tokens, TokenBlockComment
<1>10. QED
  BY <1>1, <1>2, <1>3, <1>5, <1>6, <1>7, <1>8, <1>9 DEF TokenStates, LexState

-----------------------------------------------------------------------------
(* The splitter and the server stay level *)

LEMMA SameIsLevel ==
  ASSUME NEW p, NEW s, Same(p, s), NEW c
  PROVE  Level(p, s, c)
BY DEF Same, Level

LEMMA LevelIsSame ==
  ASSUME NEW p, NEW s, NEW c, Level(p, s, c), p.state = s.state, ~Doubtful(p)
  PROVE  Same(p, s)
BY DEF Same, Level

LEMMA SqliteStaysLevel ==
  ASSUME Typed, dialect = "sqlite", Level(splitter, server, symbol), ~IsOdd(symbol), NEW n
  PROVE  Level(split_statements_for_dialect(splitter, symbol, n), Serve(server, symbol, n), n)
<1> DEFINE p == splitter
           s == server
           c == symbol
<1>1. /\ p \in In(TokenStates) /\ s \in In(TokenStates)
      /\ p.state \in TokenStates /\ s.state \in TokenStates
  BY Dialects DEF Typed, In
<1>2. p.state = s.state /\ Same(p, s) /\ p.skip = s.skip
  <2>1. p.state = s.state /\ ~Doubtful(p)
    BY <1>1 DEF Level, TokenStates, Doubtful
  <2>2. QED
    BY <2>1, LevelIsSame DEF Same
<1>3. CASE s.skip
  <2>1. Same([p EXCEPT !.skip = FALSE], [s EXCEPT !.skip = FALSE])
    BY <1>1, <1>2 DEF Same, In
  <2>2. QED
    BY <1>2, <1>3, <2>1, SameIsLevel DEF split_statements_for_dialect, Serve
<1>4. CASE ~s.skip
  <2> DEFINE q == split_statements(p, c, n)
             o == split_statements(s, c, n)
  <2>1. Same(q, o) /\ o \in In(TokenStates)
    BY <1>1, <1>2, SqliteSame, SqliteScans DEF Scans
  <2>2. split_statements_for_dialect(p, c, n) = q /\ Serve(s, c, n) = SqliteServer(s, c, n)
    BY <1>2, <1>4 DEF split_statements_for_dialect, Serve
  <2>3. Same(q, SqliteServer(s, c, n))
    <3>1. CASE s.state = "LineComment"
      <4>1. c # "return"
        BY <3>1 DEF IsOdd
      <4>2. q = LineComment(p, c) /\ SqliteServer(s, c, n) = ServerLineComment(s, c)
        BY <1>2, <3>1 DEF split_statements, SqliteServer
      <4>3. Same(To(p, "Code"), To(s, "Code"))
        BY <1>1, <1>2 DEF Same, To, In
      <4>4. QED
        BY <1>2, <4>1, <4>2, <4>3 DEF LineComment, ServerLineComment
    <3>2. CASE s.state = "Code"
      <4>1. SqliteServer(s, c, n) = ServerWord(o, c)
        BY <3>2 DEF SqliteServer
      <4> HIDE DEF q, o
      <4>2. QED
        BY <2>1, <4>1, ServerReads DEF Same
    <3>3. CASE s.state \notin {"Code", "LineComment"}
      BY <2>1, <3>3 DEF SqliteServer
    <3>4. QED
      BY <3>1, <3>2, <3>3
  <2>4. QED
    BY <2>2, <2>3, SameIsLevel
<1>5. QED
  BY <1>3, <1>4

LEMMA MySqlStaysLevel ==
  ASSUME Typed, dialect = "mysql", Level(splitter, server, symbol), ~IsOdd(symbol), NEW n
  PROVE  Level(split_statements_for_dialect(splitter, symbol, n), Serve(server, symbol, n), n)
<1> DEFINE p == splitter
           s == server
           c == symbol
           S == MySqlStates \cup {"Dashes"}
<1>1. /\ p \in In(MySqlStates) /\ s \in In(S)
      /\ p.state \in MySqlStates /\ s.state \in S
      /\ MySqlStates \subseteq S /\ "Dashes" \notin MySqlStates
  BY Dialects DEF Typed, In, MySqlStates
<1>2. p.skip = s.skip /\ ~Doubtful(p)
  BY DEF Level, Doubtful
<1>3. p.state = s.state => Same(p, s)
  BY <1>2, LevelIsSame
<1>4. p.state = s.state \/ (p.state = "LineComment" /\ s.state = "Dashes")
  BY DEF Level
<1>5. /\ p.depth = s.depth /\ p.tag = s.tag /\ p.escapes = s.escapes
  BY <1>2 DEF Level
<1>6. CASE s.skip
  <2>1. split_statements_for_dialect(p, c, n) = [p EXCEPT !.skip = FALSE]
    BY <1>2, <1>6 DEF split_statements_for_dialect
  <2>2. Serve(s, c, n) = [s EXCEPT !.skip = FALSE]
    BY <1>6 DEF Serve
  <2>3. QED
    BY <1>1, <1>4, <1>5, <2>1, <2>2, Passed DEF Level
<1>7. CASE ~s.skip
  <2> DEFINE q == split_mysql_statements(p, c, n)
             o == split_mysql_statements(s, c, n)
  <2>1. split_statements_for_dialect(p, c, n) = q /\ Serve(s, c, n) = MySqlServer(s, c, n)
    BY <1>2, <1>7 DEF split_statements_for_dialect, Serve
  <2>2. p.state = s.state => Same(q, o) /\ o \in In(S)
    BY <1>1, <1>3, MySqlSame, MySqlScans DEF Scans
  <2>3. CASE s.state = "Dashes"
    <3>1. c \in {"space", "newline"} /\ p.state = "LineComment"
      BY <1>1, <1>4, <1>7, <2>3 DEF IsOdd, Blank
    <3>2. q = LineComment(p, c) /\ MySqlServer(s, c, n) = ServerLineComment(To(s, "LineComment"), c)
      BY <2>3, <3>1 DEF split_mysql_statements, MySqlServer, Blank
    <3>3. /\ Same(To(p, "Code"), To(To(s, "LineComment"), "Code"))
          /\ Same(p, To(s, "LineComment"))
      BY <1>1, <1>2, <1>5, <3>1 DEF Same, To, In
    <3>4. Same(q, MySqlServer(s, c, n))
      BY <3>1, <3>2, <3>3 DEF LineComment, ServerLineComment
    <3>5. QED
      BY <2>1, <3>4, SameIsLevel
  <2>4. CASE s.state = "LineComment"
    <3>1. c # "return" /\ p.state = "LineComment"
      BY <1>4, <2>4 DEF IsOdd
    <3>2. q = LineComment(p, c) /\ MySqlServer(s, c, n) = ServerLineComment(s, c)
      BY <2>4, <3>1 DEF split_mysql_statements, MySqlServer
    <3>3. Same(To(p, "Code"), To(s, "Code")) /\ Same(p, s)
      BY <1>1, <1>3, <2>4, <3>1 DEF Same, To, In
    <3>4. Same(q, MySqlServer(s, c, n))
      BY <3>1, <3>2, <3>3 DEF LineComment, ServerLineComment
    <3>5. QED
      BY <2>1, <3>4, SameIsLevel
  <2>5. CASE s.state = "Code"
    <3> DEFINE m == MySqlOpens(s, c, n)
    <3>1. MySqlServer(s, c, n) = ServerWord(m, c) /\ p.state = "Code" /\ m \in In(S)
      BY <1>1, <1>4, <2>5, MySqlOpensIs DEF MySqlServer, MySqlCode, MySqlOpens
    <3>2. Level(q, m, n)
      <4>1. CASE c = "dash" /\ n = "dash"
        <5>1. q = ToPast(p, "LineComment") /\ m = ToPast(s, "Dashes")
          BY <3>1, <4>1, OpenedIs DEF split_mysql_statements, OpensComment, MySqlOpens
        <5>2. QED
          BY <1>1, <1>5, <5>1 DEF ToPast, In, Level
      <4>2. CASE ~(c = "dash" /\ n = "dash")
        <5>1. Same(m, o)
          BY <1>1, <2>5, <4>2, MySqlOpensIs
        <5>2. Same(q, m)
          BY <2>2, <2>5, <3>1, <5>1 DEF Same
        <5>3. QED
          BY <5>2, SameIsLevel
      <4>3. QED
        BY <4>1, <4>2
    <3> HIDE DEF m, q, o
    <3>3. Level(q, ServerWord(m, c), n)
      BY <3>1, <3>2, ServerReads DEF Level
    <3>4. QED
      BY <2>1, <3>1, <3>3
  <2>6. CASE s.state \notin {"Dashes", "LineComment", "Code"}
    <3>1. MySqlServer(s, c, n) = o /\ Same(q, o)
      BY <1>4, <2>2, <2>6 DEF MySqlServer
    <3>2. QED
      BY <2>1, <3>1, SameIsLevel
  <2>7. QED
    BY <2>3, <2>4, <2>5, <2>6
<1>8. QED
  BY <1>6, <1>7

LEMMA Kinds ==
  ASSUME NEW c \in Symbol
  PROVE  /\ Kind(c) = "E" <=> c = "E"
         /\ c \in Letter => Kind(c) \in {"E", "fin", "letter"}
         /\ c \in Tag => Kind(c) = "tag"
         /\ c \notin Letter \cup Tag => Kind(c) = Edge
BY DEF Kind, Letter, Tag, Edge, Symbol, Directive, Blank

(* What the readers know of the symbols before, a symbol later. *)
LEMMA FollowsIs ==
  ASSUME Typed, NEW c \in Symbol
  PROVE  /\ Follows(c).prev = Kind(c) /\ Follows(c).edge = (text.prev = Edge)
         /\ Follows(c).delimiter = text.delimiter
         /\ Follows(c).blank = text.blank /\ Follows(c).line = text.line
         /\ Follows(c) \in [prev : {"E", "fin", "letter", "tag", Edge}, edge : BOOLEAN, blank : BOOLEAN,
                            line : BOOLEAN, delimiter : {"semicolon", "custom"}]
<1>1. Kind(c) \in {"E", "fin", "letter", "tag", Edge}
  BY Kinds
<1>2. token_boundary_before \in BOOLEAN /\ token_boundary_before = (text.prev = Edge)
  BY DEF token_boundary_before
<1>3. QED
  BY <1>1, <1>2 DEF Follows, Typed

(* The word stays where the server is not in code. *)
LEMMA OutsideCode ==
  ASSUME Typed, dialect = "postgres", NEW o, NEW n, symbol \in Symbol,
         o.ident = "none",
         o.state = "Code" => /\ symbol \notin Letter
                             /\ o.skip => n = "slash"
  PROVE  Words(o, Follows(symbol), n)
<1>1. symbol \in Tag \/ symbol \notin Letter \cup Tag \/ o.state # "Code"
  OBVIOUS
<1>2. QED
  BY <1>1, Kinds, FollowsIs DEF Words, Edge

LEMMA PostgresStaysLevel ==
  ASSUME Typed, dialect = "postgres", symbol \in Symbol \ Directive,
         Level(splitter, server, symbol), Words(server, text, symbol),
         ~IsOdd(symbol), NEW n, ~IsAmbiguous(splitter, symbol, n)
  PROVE  LET q == split_statements_for_dialect(splitter, symbol, n)
             o == Serve(server, symbol, n)
         IN Level(q, o, n) /\ Words(o, Follows(symbol), n)
<1> DEFINE p == splitter
           s == server
           c == symbol
           S == PostgresStates
<1>1. /\ p \in In(S) /\ s \in In(S) /\ p.state \in S /\ s.state \in S /\ "Dashes" \notin S
      /\ {"Code", "BlockComment", "SingleQuote"} \subseteq S /\ text.edge \in BOOLEAN
  BY Dialects DEF Typed, In, PostgresStates, LexState
<1>2. p.state = s.state /\ p.depth = s.depth /\ p.tag = s.tag
  BY <1>1 DEF Level
<1>3. ~Doubtful(p) => Same(p, s)
  BY <1>2, LevelIsSame
<1>4. CASE s.skip
  <2>1. Serve(s, c, n) = [s EXCEPT !.skip = FALSE]
    BY <1>4 DEF Serve
  <2>2. Level(split_statements_for_dialect(p, c, n), Serve(s, c, n), n)
    <3>1. CASE p.skip
      <4>1. split_statements_for_dialect(p, c, n) = [p EXCEPT !.skip = FALSE]
        BY <3>1 DEF split_statements_for_dialect
      <4>2. p.escapes = s.escapes \/ Doubtful(p)
        BY DEF Level
      <4>3. LET b == [p EXCEPT !.skip = FALSE]
            IN /\ b.state = p.state /\ b.escapes = p.escapes /\ b.depth = p.depth /\ b.tag = p.tag
               /\ b.skip = FALSE
        BY <1>1, Passed
      <4>4. LET b == [s EXCEPT !.skip = FALSE]
            IN /\ b.state = s.state /\ b.escapes = s.escapes /\ b.depth = s.depth /\ b.tag = s.tag
               /\ b.skip = FALSE
        BY <1>1, Passed
      <4>5. QED
        BY <1>2, <2>1, <4>1, <4>2, <4>3, <4>4 DEF Level, Doubtful
    <3>2. CASE ~p.skip
      <4>1. Doubtful(p) /\ c # "quote"
        BY <1>4, <3>2 DEF Level
      <4>2. split_statements_for_dialect(p, c, n) = p
        BY <3>2, <4>1 DEF split_statements_for_dialect, split_postgres_statements, Quoted, Doubtful
      <4>3. LET b == [s EXCEPT !.skip = FALSE]
            IN /\ b.state = s.state /\ b.escapes = s.escapes /\ b.depth = s.depth /\ b.tag = s.tag
               /\ b.skip = FALSE
        BY <1>1, Passed
      <4>4. p.skip = FALSE
        BY <1>1, <3>2 DEF In
      <4>5. QED
        BY <1>2, <2>1, <4>1, <4>2, <4>3, <4>4 DEF Level
    <3>3. QED
      BY <3>1, <3>2
  <2>3. Words(Serve(s, c, n), Follows(c), n)
    <3>1. /\ Serve(s, c, n).state = s.state /\ Serve(s, c, n).ident = s.ident
          /\ Serve(s, c, n).skip = FALSE
      BY <1>1, <2>1, Passed DEF SameWord
    <3>2. s.ident = "none" /\ (s.state = "Code" => c = "slash")
      BY <1>4 DEF Words
    <3>3. c \notin Letter \/ s.state # "Code"
      BY <3>2 DEF Letter
    <3>4. QED
      BY <3>1, <3>2, <3>3, OutsideCode
  <2>4. QED
    BY <2>2, <2>3
<1>5. CASE ~s.skip
  <2> DEFINE q == split_postgres_statements(p, c, n)
             o == split_postgres_statements(s, c, n)
  <2>1. /\ split_statements_for_dialect(p, c, n) = q /\ Serve(s, c, n) = PostgresServer(s, c, n)
        /\ ~p.skip
    BY <1>5 DEF split_statements_for_dialect, Serve, Level
  <2>2. /\ Scans(o, s, S) /\ o \in In(S) /\ o.ident = s.ident
        /\ s.state # "SingleQuote" => Same(q, o)
    BY <1>1, <1>2, <1>3, PostgresScans, PostgresSame DEF Scans, SameWord, Doubtful
  <2>3. CASE s.state = "Code"
    <3>1. Same(p, s) /\ p.state = "Code"
      BY <1>2, <1>3, <2>3 DEF Doubtful
    <3>2. CASE c = "quote"
      <4> DEFINE e == escape_string_prefix
                 f == ~setting.conforming \/ s.ident = "E"
                 m == [To(s, "SingleQuote") EXCEPT !.escapes = f]
      <4>1. e \in BOOLEAN /\ f \in BOOLEAN /\ (e => f)
        BY <1>1, <2>3 DEF escape_string_prefix, Words
      <4>2. q = [To(p, "SingleQuote") EXCEPT !.escapes = e]
        BY <3>1, <3>2 DEF split_postgres_statements
      <4>3. PostgresServer(s, c, n) = ServerWord(m, c)
        BY <2>3, <3>2 DEF PostgresServer, Tag
      <4> HIDE DEF e, f
      <4>4. /\ m \in In(S) /\ m.state = "SingleQuote" /\ m.escapes = f /\ m.depth = s.depth
            /\ m.tag = s.tag /\ m.skip = s.skip
        BY <1>1, <4>1 DEF To, In
      <4>5. /\ q.state = "SingleQuote" /\ q.escapes = e /\ q.depth = p.depth
            /\ q.tag = p.tag /\ q.skip = p.skip
        BY <1>1, <4>1, <4>2 DEF To, In
      <4> HIDE DEF m, q
      <4>6. LET w == ServerWord(m, c)
            IN /\ w.state = m.state /\ w.escapes = m.escapes /\ w.depth = m.depth /\ w.tag = m.tag
               /\ w.skip = m.skip /\ w.ident = "none"
        BY <3>2, <4>4, ServerReads DEF Letter, Tag
      <4>7. Level(q, ServerWord(m, c), n)
        BY <3>1, <4>1, <4>4, <4>5, <4>6 DEF Level, Same, Doubtful
      <4>8. Words(ServerWord(m, c), Follows(c), n)
        BY <4>4, <4>6, OutsideCode
      <4>9. QED
        BY <2>1, <4>3, <4>7, <4>8
    <3>3. CASE c \in Tag
      <4>1. text.prev # "tag"
        BY <3>3 DEF IsOdd
      <4>2. s.ident = "none" <=> text.prev = Edge
        BY <2>3, <4>1 DEF Words
      <4> DEFINE m == IF s.ident # "none" THEN s ELSE [To(s, "Dollar") EXCEPT !.tag = c]
      <4>3. PostgresServer(s, c, n) = ServerWord(m, c)
        BY <2>3, <3>3 DEF PostgresServer, Tag
      <4>4. q = IF text.prev = Edge THEN [To(p, "Dollar") EXCEPT !.tag = c] ELSE p
        BY <3>1, <3>3 DEF split_postgres_statements, token_boundary_before, OpensComment, Tag
      <4>5. Same([To(p, "Dollar") EXCEPT !.tag = c], [To(s, "Dollar") EXCEPT !.tag = c])
        BY <1>1, <3>1 DEF Same, To, In
      <4>6. Same(q, m)
        BY <3>1, <4>2, <4>4, <4>5
      <4>7. "Dollar" \in S
        BY DEF PostgresStates, LexState
      <4>8. LET d == [To(s, "Dollar") EXCEPT !.tag = c]
            IN d \in In(S) /\ d.state = "Dollar" /\ d.ident = s.ident
        BY <1>1, <3>3, <4>7 DEF To, In
      <4>9. /\ m \in In(S) /\ m.ident = s.ident
            /\ m.state = IF s.ident # "none" THEN "Code" ELSE "Dollar"
        BY <1>1, <2>3, <4>8
      <4> HIDE DEF m, q
      <4>10. LET w == ServerWord(m, c)
             IN /\ Same(w, m) /\ w.state = m.state /\ w.skip = m.skip
                /\ w.ident = IF s.ident # "none" THEN "name" ELSE "none"
        BY <3>3, <4>9, ServerReads DEF Letter, Tag, Same
      <4>11. Level(q, ServerWord(m, c), n)
        BY <4>6, <4>10, SameIsLevel DEF Same
      <4>12. Words(ServerWord(m, c), Follows(c), n)
        <5>1. Follows(c).prev = "tag"
          BY <3>3, FollowsIs, Kinds
        <5>2. m.skip = FALSE \/ m.state = "Dollar"
          BY <1>1, <1>5, <4>9 DEF m, In
        <5>3. QED
          BY <4>9, <4>10, <5>1, <5>2 DEF Words, Edge
      <4>13. QED
        BY <2>1, <4>3, <4>11, <4>12
    <3>4. CASE c \notin Tag \cup {"quote"}
      <4>1. PostgresServer(s, c, n) = ServerWord(o, c)
        BY <2>3, <3>4 DEF PostgresServer
      <4>2. Same(q, o)
        BY <2>2, <2>3
      <4>3. /\ o.state # "Code" \/ o.skip = s.skip
            /\ c \in Letter => o = s
            /\ o.state \in {"Code", "DoubleQuote", "LineComment", "BlockComment"}
        <5>1. /\ To(s, "DoubleQuote").state = "DoubleQuote"
              /\ [ToPast(s, "BlockComment") EXCEPT !.depth = 1].state = "BlockComment"
          BY <1>1 DEF To, ToPast, In
        <5>2. LET w == OpensComment(s, c, n)
              IN /\ w.state # "Code" \/ w.skip = s.skip
                 /\ w.state \in {"Code", "LineComment", "BlockComment"}
                 /\ c \notin {"dash", "slash"} => w = s
          BY <1>1, <2>3 DEF OpensComment, ToPast, In
        <5>3. o = IF c = "double" THEN To(s, "DoubleQuote")
                  ELSE IF c = "slash" /\ n = "star" THEN [ToPast(s, "BlockComment") EXCEPT !.depth = 1]
                  ELSE OpensComment(s, c, n)
          BY <2>3, <3>4 DEF split_postgres_statements
        <5> HIDE DEF o
        <5>4. QED
          BY <5>1, <5>2, <5>3 DEF Letter
      <4> HIDE DEF q, o
      <4> DEFINE w == ServerWord(o, c)
      <4>4. /\ Same(w, o) /\ w.state = o.state /\ w.skip = o.skip
            /\ o.state \in {"LineComment", "BlockComment"} => w.ident = "none"
            /\ c \notin Letter => w.ident = "none"
            /\ o.state = "Code" /\ c \in Letter =>
                 w.ident = IF c = "E" /\ s.ident = "none" THEN "E" ELSE "name"
        BY <2>2, <3>4, ServerReads DEF Same
      <4> HIDE DEF w
      <4>5. Level(q, w, n)
        BY <4>2, <4>4, SameIsLevel DEF Same
      <4>6. Words(w, Follows(c), n)
        <5>1. CASE c \notin Letter
          <6>1. o.state = "Code" => ~o.skip
            BY <1>5, <4>3
          <6>2. QED
            BY <4>4, <5>1, <6>1, OutsideCode
        <5>2. CASE c \in Letter
          <6>1. o = s /\ w.state = "Code" /\ ~w.skip
            BY <1>5, <2>3, <4>3, <4>4, <5>2
          <6>2. w.ident = IF c = "E" /\ s.ident = "none" THEN "E" ELSE "name"
            BY <2>3, <4>4, <5>2, <6>1
          <6>3. Follows(c).prev \in {"E", "fin", "letter"} /\ (Follows(c).prev = "E" => c = "E")
            BY <5>2, FollowsIs, Kinds
          <6>4. Follows(c).edge => s.ident = "none"
            BY <2>3, FollowsIs DEF Words
          <6>5. QED
            BY <6>1, <6>2, <6>3, <6>4 DEF Words, Edge
        <5>3. QED
          BY <5>1, <5>2
      <4>7. QED
        BY <2>1, <4>1, <4>5, <4>6 DEF w
    <3>5. QED
      BY <3>2, <3>3, <3>4
  <2>4. CASE s.state = "SingleQuote"
    <3>1. PostgresServer(s, c, n) = o /\ s.ident = "none" /\ p.state = "SingleQuote"
      BY <1>2, <2>4 DEF PostgresServer, Words
    <3>2. /\ q = IF p.escapes THEN Escaped(p, c, n, "quote") ELSE Quoted(p, c, n, "quote")
          /\ o = IF s.escapes THEN Escaped(s, c, n, "quote") ELSE Quoted(s, c, n, "quote")
      BY <2>4, <3>1 DEF split_postgres_statements
    <3>3. Level(q, o, n)
      <4>1. CASE p.escapes
        <5>1. Same(p, s) /\ s.escapes
          <6>1. ~Doubtful(p)
            BY <4>1 DEF Doubtful
          <6>2. QED
            BY <1>3, <4>1, <6>1 DEF Same
        <5>2. Same(q, o)
          <6>1. CASE c = "backslash"
            BY <1>1, <3>2, <4>1, <5>1, <6>1 DEF Same, Escaped, In
          <6>2. CASE c # "backslash"
            <7>1. Same(Quoted(p, c, n, "quote"), Quoted(s, c, n, "quote"))
              BY <1>1, <5>1 DEF Same, Quoted, To, In
            <7>2. QED
              BY <3>2, <4>1, <5>1, <6>2, <7>1 DEF Escaped
          <6>3. QED
            BY <6>1, <6>2
        <5>3. QED
          BY <5>2, SameIsLevel
      <4>2. CASE ~p.escapes /\ c = "backslash"
        <5>1. n # "quote"
          BY <2>1, <3>1, <4>2 DEF IsAmbiguous
        <5>2. q = p
          BY <3>2, <4>2 DEF Quoted
        <5>3. o = IF s.escapes THEN [s EXCEPT !.skip = (n # Edge)] ELSE s
          BY <3>2, <4>2 DEF Quoted, Escaped
        <5> DEFINE e == n # Edge
        <5>4. e \in BOOLEAN
          OBVIOUS
        <5> HIDE DEF e
        <5>5. LET m == [s EXCEPT !.skip = e]
              IN /\ m.state = s.state /\ m.escapes = s.escapes /\ m.depth = s.depth /\ m.tag = s.tag
                 /\ m.skip = e
          BY <1>1, <5>4 DEF In
        <5>6. o = IF s.escapes THEN [s EXCEPT !.skip = e] ELSE s
          BY <5>3 DEF e
        <5> HIDE DEF q, o
        <5>7. /\ o.state = s.state /\ o.escapes = s.escapes /\ o.depth = s.depth /\ o.tag = s.tag
              /\ o.skip = s.skip \/ (s.escapes /\ o.skip = e)
          BY <5>5, <5>6
        <5>8. Doubtful(p)
          BY <3>1, <4>2 DEF Doubtful
        <5>9. o.skip \in BOOLEAN /\ p.skip \in BOOLEAN /\ s.skip \in BOOLEAN
          BY <1>1, <2>2 DEF In
        <5>10. QED
          BY <1>2, <1>5, <2>1, <5>1, <5>2, <5>4, <5>7, <5>8, <5>9 DEF Level
      <4>3. CASE ~p.escapes /\ c # "backslash"
        <5>1. q = Quoted(p, c, n, "quote") /\ o = Quoted(s, c, n, "quote")
          BY <3>2, <4>3 DEF Escaped
        <5>2. p.skip = s.skip /\ Doubtful(p)
          BY <1>1, <1>5, <2>1, <3>1, <4>3 DEF In, Doubtful
        <5> HIDE DEF q, o
        <5>3. CASE c = "quote" /\ n # "quote"
          BY <1>1, <1>2, <5>1, <5>2, <5>3 DEF Quoted, To, In, Level
        <5>4. CASE c = "quote" /\ n = "quote"
          BY <1>1, <1>2, <5>1, <5>2, <5>4 DEF Quoted, In, Level, Doubtful
        <5>5. CASE c # "quote"
          BY <1>1, <1>2, <5>1, <5>2, <5>5 DEF Quoted, Level
        <5>6. QED
          BY <5>3, <5>4, <5>5
      <4>4. QED
        BY <4>1, <4>2, <4>3
    <3>4. o.state = "Code" => c = "quote" /\ ~o.skip
      BY <1>1, <1>5, <2>4, <3>2 DEF Escaped, Quoted, To, In
    <3>5. c = "quote" => c \notin Letter
      BY DEF Letter
    <3> HIDE DEF q, o
    <3>6. Words(o, Follows(c), n)
      BY <2>2, <3>1, <3>4, <3>5, OutsideCode
    <3>7. QED
      BY <2>1, <3>1, <3>3, <3>6
  <2>5. CASE s.state = "DoubleQuote"
    <3>1. PostgresServer(s, c, n) = o /\ s.ident = "none" /\ o = Quoted(s, c, n, "double")
      BY <2>5 DEF PostgresServer, Words, split_postgres_statements
    <3>2. o.state = "Code" => c = "double" /\ ~o.skip
      BY <1>1, <1>5, <2>5, <3>1 DEF Quoted, To, In
    <3>3. c = "double" => c \notin Letter
      BY DEF Letter
    <3> HIDE DEF q, o
    <3>4. QED
      BY <2>1, <2>2, <2>5, <3>1, <3>2, <3>3, OutsideCode, SameIsLevel
  <2>6. CASE s.state = "Dollar"
    <3>1. /\ PostgresServer(s, c, n) = o /\ s.ident = "none"
          /\ o = IF c = s.tag THEN [To(s, "Code") EXCEPT !.tag = "none"] ELSE s
      BY <2>6 DEF PostgresServer, Words, split_postgres_statements
    <3>2. o.state = "Code" => c = s.tag /\ ~o.skip
      BY <1>1, <1>5, <2>6, <3>1 DEF To, In
    <3>3. c = s.tag => c \notin Letter
      BY <1>1 DEF In, Letter, Tag
    <3> HIDE DEF q, o
    <3>4. QED
      BY <2>1, <2>2, <2>6, <3>1, <3>2, <3>3, OutsideCode, SameIsLevel
  <2>7. CASE s.state = "LineComment"
    <3>1. PostgresServer(s, c, n) = o /\ s.ident = "none" /\ o = LineComment(s, c)
      BY <2>7 DEF PostgresServer, Words, split_postgres_statements
    <3>2. o.state = "Code" => c \in {"newline", "return"} /\ ~o.skip
      BY <1>1, <1>5, <2>7, <3>1 DEF LineComment, To, In
    <3>3. c \in {"newline", "return"} => c \notin Letter
      BY DEF Letter
    <3> HIDE DEF q, o
    <3>4. QED
      BY <2>1, <2>2, <2>7, <3>1, <3>2, <3>3, OutsideCode, SameIsLevel
  <2>8. CASE s.state = "BlockComment"
    <3> DEFINE v == IF c = "slash" /\ n = "star" THEN Veil(s) ELSE s
               m == NestedComment(v, c, n)
    <3>1. PostgresServer(s, c, n) = m /\ s.ident = "none"
      BY <2>8 DEF PostgresServer, Words
    <3>2. v \in In(S) /\ v.ident = "none" /\ v.state = "BlockComment" /\ ~v.skip /\ Same(s, v)
      <4>1. /\ Veil(s) \in In(S) /\ Veil(s).ident = s.ident /\ Veil(s).state = s.state
            /\ Veil(s).skip = s.skip /\ Same(s, Veil(s))
        BY <1>1, VeilIs DEF Same
      <4>2. QED
        BY <1>1, <1>5, <2>8, <3>1, <4>1 DEF Same
    <3>3. Same(p, v) /\ p.state = "BlockComment"
      BY <1>2, <1>3, <2>8, <3>2 DEF Same, Doubtful
    <3> HIDE DEF v
    <3>4. Same(q, m)
      <4>1. q = NestedComment(p, c, n)
        BY <3>3 DEF split_postgres_statements
      <4>2. Same(NestedComment(p, c, n), NestedComment(v, c, n))
        BY <1>1, <3>2, <3>3 DEF Same, NestedComment, In
      <4>3. QED
        BY <4>1, <4>2
    <3>5. m.ident = "none" /\ (m.state = "Code" => c = "star" /\ n = "slash")
      <4>1. {"Code", "BlockComment"} \subseteq S
        BY <1>1
      <4>2. ASSUME NEW r \in In(S), r.state = "BlockComment"
            PROVE  LET x == NestedComment(r, c, n)
                   IN x.ident = r.ident /\ (x.state = "Code" => c = "star" /\ n = "slash")
        <5>1. SameWord(NestedComment(r, c, n), r)
          BY <4>1, NestedCommentIs
        <5>2. NestedComment(r, c, n).state = "Code" => c = "star" /\ n = "slash"
          BY <4>2 DEF NestedComment, In
        <5>3. QED
          BY <5>1, <5>2 DEF SameWord
      <4>3. QED
        BY <3>2, <4>2
    <3>6. c = "star" => c \notin Letter
      BY DEF Letter
    <3> HIDE DEF q, m
    <3>7. QED
      BY <2>1, <3>1, <3>4, <3>5, <3>6, OutsideCode, SameIsLevel
  <2>9. QED
    BY <1>1, <2>3, <2>4, <2>5, <2>6, <2>7, <2>8 DEF PostgresStates, LexState
<1>6. QED
  BY <1>4, <1>5

-----------------------------------------------------------------------------
(* The first word *)

(* What the server knows of its first word it never forgets. *)
Grown(w, s) ==
  /\ s.veiled => w.veiled
  /\ s.first # "none" => w.first = s.first
  /\ s.first = "none" /\ s.word = "sign" => w.first = "sign" \/ (w.first = "none" /\ w.word = "sign")

LEMMA GrownTwice ==
  ASSUME NEW w, NEW r, NEW s, Grown(w, r), Grown(r, s)
  PROVE  Grown(w, s)
BY DEF Grown

LEMMA Grows ==
  ASSUME NEW S, NEW s \in In(S), NEW c
  PROVE  /\ \A w : SameWord(w, s) => Grown(w, s)
         /\ Grown(Veil(s), s) /\ Grown(PushSign(s), s) /\ Grown(ServerWord(s, c), s)
<1>1. \A w : SameWord(w, s) => Grown(w, s)
  BY DEF Grown, SameWord
<1>2. Grown(Veil(s), s)
  BY VeilIs DEF Grown
<1>3. Grown(PushSign(s), s)
  BY PushesSign DEF Grown
<1>4. Grown(ServerWord(s, c), s)
  <2> DEFINE w == ServerWord(s, c)
  <2>1. /\ w.veiled = s.veiled
        /\ w.first = s.first \/ s.first = "none"
    BY ServerReads
  <2>2. s.first = "none" /\ s.word = "sign" => w.first = "sign" \/ (w.first = "none" /\ w.word = "sign")
    BY ServerReads
  <2>3. QED
    BY <2>1, <2>2 DEF Grown
<1>5. QED
  BY <1>1, <1>2, <1>3, <1>4

(* In code the server reads a symbol with what it opens, o. *)
Opens(o, s, c, n) ==
  /\ o \in In(ServerStates) /\ o.first = s.first /\ o.word = s.word /\ o.ident = s.ident
  /\ s.veiled => o.veiled
  /\ c = "quote" => o.state = "SingleQuote"
  /\ c \in {"double", "tick", "open"} \cup Tag => o.state \notin {"LineComment", "BlockComment", "Dashes"}
  /\ c = "dash" /\ n = "dash" => o.state \in {"LineComment", "Dashes"} /\ o.skip
  /\ c = "slash" /\ n = "star" =>
       /\ o.state = "BlockComment" /\ o.skip
       /\ dialect = "postgres" => o.depth = 1
  /\ c = "hash" /\ dialect = "mysql" =>
       /\ o.state = "LineComment"
       /\ leading_statement_keyword(s) = "none" => o.veiled
  /\ \/ c \in {"quote", "double", "tick", "open"} \cup Tag
     \/ c = "dash" /\ n = "dash"
     \/ c = "slash" /\ n = "star"
     \/ c = "hash" /\ dialect = "mysql"
     \/ o.state = "Code" /\ o.skip = s.skip

LEMMA SqliteOpens ==
  ASSUME Typed, dialect = "sqlite", server.state = "Code", ~server.skip, NEW n
  PROVE  \E o : Opens(o, server, symbol, n) /\ Serve(server, symbol, n) = ServerWord(o, symbol)
<1> DEFINE s == server
           c == symbol
           o == split_statements(s, c, n)
<1>1. /\ s \in In(ServerStates) /\ ServerStates = TokenStates /\ s.state \in TokenStates
  BY Dialects DEF Typed, In
<1>2. Scans(o, s, ServerStates)
  BY <1>1, SqliteScans
<1>3. o = IF Opened(c, n) # "Code" THEN To(s, Opened(c, n)) ELSE OpensComment(s, c, n)
  BY DEF split_statements
<1>4. \A x : To(s, x).state = x
  BY <1>1 DEF To, In
<1>5. LET w == OpensComment(s, c, n)
      IN /\ c = "dash" /\ n = "dash" => w.state = "LineComment" /\ w.skip
         /\ c = "slash" /\ n = "star" => w.state = "BlockComment" /\ w.skip
         /\ ~(c = "dash" /\ n = "dash") /\ ~(c = "slash" /\ n = "star") => w = s
  BY <1>1 DEF OpensComment, ToPast, In
<1> HIDE DEF o
<1>6. /\ c = "quote" => o.state = "SingleQuote"
      /\ c = "double" => o.state = "DoubleQuote"
      /\ c = "tick" => o.state = "Backtick"
      /\ c = "open" => o.state = "Bracket"
      /\ c \notin {"quote", "double", "tick", "open"} => o = OpensComment(s, c, n)
  BY <1>3, <1>4, OpenedIs
<1>7. Serve(s, c, n) = ServerWord(o, c)
  BY DEF Serve, SqliteServer, o
<1>8. c \in Tag => o = s
  BY <1>5, <1>6 DEF Tag
<1>9. Opens(o, s, c, n)
  BY <1>1, <1>2, <1>5, <1>6, <1>8 DEF Opens, Scans, SameWord
<1>10. QED
  BY <1>7, <1>9

LEMMA MySqlOpensCode ==
  ASSUME Typed, dialect = "mysql", NEW r \in In(ServerStates), r.state = "Code", ~r.skip,
         NEW c, NEW n
  PROVE  Opens(MySqlOpens(r, c, n), r, c, n)
<1> DEFINE q == split_mysql_statements(r, c, n)
           o == MySqlOpens(r, c, n)
<1>1. MySqlStates \cup {"Dashes"} \subseteq ServerStates
  BY Dialects
<1>2. /\ o \in In(ServerStates) /\ o.word = r.word /\ o.first = r.first /\ o.ident = r.ident
      /\ o.veiled <=> r.veiled \/ (c = "hash" /\ leading_statement_keyword(r) = "none")
      /\ c = "dash" /\ n = "dash" =>
           /\ o.state = "Dashes" /\ o.skip = TRUE
           /\ o.escapes = r.escapes /\ o.depth = r.depth /\ o.tag = r.tag
      /\ ~(c = "dash" /\ n = "dash") => Same(o, q)
  BY <1>1, MySqlOpensIs, Zenon
<1>3. c = "dash" /\ n = "dash" => o.state = "Dashes" /\ o.skip
  BY <1>2
<1>4. ~(c = "dash" /\ n = "dash") => o.state = q.state /\ o.skip = q.skip
  BY <1>2 DEF Same
<1>5. q = IF c = "hash" THEN To(r, "LineComment")
          ELSE IF c # "open" /\ Opened(c, n) # "Code" THEN To(r, Opened(c, n))
          ELSE OpensComment(r, c, n)
  BY DEF split_mysql_statements
<1>6. \A x : To(r, x).state = x
  BY DEF To, In
<1>7. LET w == OpensComment(r, c, n)
      IN /\ c = "slash" /\ n = "star" => w.state = "BlockComment" /\ w.skip
         /\ ~(c = "dash" /\ n = "dash") /\ ~(c = "slash" /\ n = "star") => w = r
  BY DEF OpensComment, ToPast, In
<1> HIDE DEF o, q
<1>8. /\ c = "quote" => q.state = "SingleQuote"
      /\ c = "double" => q.state = "DoubleQuote"
      /\ c = "tick" => q.state = "Backtick"
      /\ c = "hash" => q.state = "LineComment"
      /\ c \notin {"quote", "double", "tick", "hash"} => q = OpensComment(r, c, n)
  BY <1>5, <1>6, OpenedIs
<1>9. c \in Tag => q = r
  BY <1>7, <1>8 DEF Tag
<1>10. Opens(o, r, c, n)
  BY <1>2, <1>3, <1>4, <1>7, <1>8, <1>9 DEF Opens, Tag
<1>11. QED
  BY <1>10 DEF o

LEMMA PostgresOpens ==
  ASSUME Typed, dialect = "postgres", server.state = "Code", ~server.skip, NEW n
  PROVE  \E o : Opens(o, server, symbol, n) /\ Serve(server, symbol, n) = ServerWord(o, symbol)
<1> DEFINE s == server
           c == symbol
           S == PostgresStates
<1>1. /\ s \in In(S) /\ ServerStates = S /\ text.edge \in BOOLEAN /\ s.state \in S
      /\ {"SingleQuote", "Dollar"} \subseteq S
  BY Dialects DEF Typed, In, PostgresStates, LexState
<1>2. Serve(s, c, n) = PostgresServer(s, c, n)
  BY DEF Serve
<1>3. CASE c = "quote"
  <2> DEFINE e == ~setting.conforming \/ s.ident = "E"
             o == [To(s, "SingleQuote") EXCEPT !.escapes = e]
  <2>1. Serve(s, c, n) = ServerWord(o, c) /\ e \in BOOLEAN
    BY <1>2, <1>3 DEF PostgresServer, Tag
  <2> HIDE DEF e
  <2>2. o \in In(S) /\ SameWord(o, s) /\ o.state = "SingleQuote"
    BY <1>1, <2>1 DEF To, In, SameWord
  <2> HIDE DEF o
  <2>3. Opens(o, s, c, n)
    BY <1>1, <1>3, <2>2 DEF Opens, SameWord, Tag
  <2>4. QED
    BY <2>1, <2>3
<1>4. CASE c \in Tag
  <2> DEFINE o == IF s.ident # "none" THEN s ELSE [To(s, "Dollar") EXCEPT !.tag = c]
  <2>1. Serve(s, c, n) = ServerWord(o, c)
    BY <1>2, <1>4 DEF PostgresServer, Tag
  <2>2. LET d == [To(s, "Dollar") EXCEPT !.tag = c]
        IN d \in In(S) /\ SameWord(d, s) /\ d.state = "Dollar"
    BY <1>1, <1>4 DEF To, In, SameWord
  <2>3. o \in In(S) /\ SameWord(o, s) /\ o.state \in {"Code", "Dollar"}
    BY <1>1, <2>2 DEF SameWord
  <2> HIDE DEF o
  <2>4. Opens(o, s, c, n)
    BY <1>1, <1>4, <2>3 DEF Opens, SameWord, Tag
  <2>5. QED
    BY <2>1, <2>4
<1>5. CASE c \notin Tag \cup {"quote"}
  <2> DEFINE o == split_postgres_statements(s, c, n)
  <2>1. Serve(s, c, n) = ServerWord(o, c)
    BY <1>2, <1>5 DEF PostgresServer
  <2>2. Scans(o, s, S)
    BY <1>1, PostgresScans
  <2>3. o = IF c = "double" THEN To(s, "DoubleQuote")
            ELSE IF c = "slash" /\ n = "star" THEN [ToPast(s, "BlockComment") EXCEPT !.depth = 1]
            ELSE OpensComment(s, c, n)
    BY <1>5 DEF split_postgres_statements
  <2>4. LET w == OpensComment(s, c, n)
        IN /\ c = "dash" /\ n = "dash" => w.state = "LineComment" /\ w.skip
           /\ ~(c = "dash" /\ n = "dash") /\ ~(c = "slash" /\ n = "star") => w = s
    BY <1>1 DEF OpensComment, ToPast, In
  <2>5. LET b == [ToPast(s, "BlockComment") EXCEPT !.depth = 1]
        IN b.state = "BlockComment" /\ b.skip /\ b.depth = 1
    BY <1>1 DEF ToPast, In
  <2>6. To(s, "DoubleQuote").state = "DoubleQuote"
    BY <1>1 DEF To, In
  <2> HIDE DEF o
  <2>7. Opens(o, s, c, n)
    BY <1>1, <1>5, <2>2, <2>3, <2>4, <2>5, <2>6 DEF Opens, Scans, SameWord
  <2>8. QED
    BY <2>1, <2>7
<1>6. QED
  BY <1>3, <1>4, <1>5

LEMMA OpensGrow ==
  ASSUME NEW o, NEW s, NEW c, NEW n, Opens(o, s, c, n)
  PROVE  Grown(ServerWord(o, c), s)
<1>1. Grown(o, s) /\ o \in In(ServerStates)
  BY DEF Opens, Grown
<1>2. Grown(ServerWord(o, c), o)
  BY <1>1, Grows
<1>3. QED
  BY <1>1, <1>2, GrownTwice

LEMMA ServerGrows ==
  ASSUME Typed, NEW n
  PROVE  Grown(Serve(server, symbol, n), server)
<1> DEFINE s == server
           c == symbol
           S == ServerStates
<1>1. s \in In(S) /\ s.state \in S
  BY DEF Typed, In
<1>2. \A x : SameWord(To(s, x), s)
  BY <1>1 DEF SameWord, To, In
<1>3. \A w : SameWord(w, s) => Grown(w, s)
  BY <1>1, Grows
<1>4. SameWord(s, s)
  BY DEF SameWord
<1>5. CASE s.skip
  <2>1. Serve(s, c, n) = [s EXCEPT !.skip = FALSE]
    BY <1>5 DEF Serve
  <2>2. QED
    BY <1>1, <1>3, <2>1, Passed
<1>6. CASE ~s.skip /\ dialect = "sqlite"
  <2>1. Serve(s, c, n) = SqliteServer(s, c, n) /\ S = TokenStates
    BY <1>6, Dialects DEF Serve
  <2>2. CASE s.state = "Code"
    BY <1>6, <2>2, SqliteOpens, OpensGrow
  <2>3. CASE s.state = "LineComment"
    BY <1>2, <1>3, <1>4, <2>1, <2>3 DEF SqliteServer, ServerLineComment
  <2>4. CASE s.state \notin {"Code", "LineComment"}
    <3>1. Scans(split_statements(s, c, n), s, S)
      BY <1>1, <2>1, SqliteScans
    <3>2. QED
      BY <1>3, <2>1, <2>4, <3>1 DEF SqliteServer, Scans
  <2>5. QED
    BY <2>2, <2>3, <2>4
<1>7. CASE ~s.skip /\ dialect = "mysql"
  <2>1. /\ Serve(s, c, n) = MySqlServer(s, c, n) /\ S = MySqlStates \cup {"Dashes"}
        /\ {"Code", "LineComment"} \subseteq S
    BY <1>7, Dialects DEF Serve, MySqlStates, LexState
  <2>2. ASSUME NEW r \in In(S), r.state = "Code", ~r.skip PROVE Grown(MySqlCode(r, c, n), r)
    <3>1. Opens(MySqlOpens(r, c, n), r, c, n)
      BY <1>7, <2>2, MySqlOpensCode
    <3>2. QED
      BY <3>1, OpensGrow DEF MySqlCode, MySqlOpens
  <2>3. CASE s.state = "Code"
    BY <1>1, <1>7, <2>1, <2>2, <2>3 DEF MySqlServer
  <2>4. CASE s.state = "LineComment"
    BY <1>2, <1>3, <1>4, <2>1, <2>4 DEF MySqlServer, ServerLineComment
  <2>5. CASE s.state = "Dashes" /\ c \in Blank
    <3>1. Serve(s, c, n) = ServerLineComment(To(s, "LineComment"), c)
      BY <2>1, <2>5 DEF MySqlServer
    <3>2. SameWord(To(s, "LineComment"), s) /\ SameWord(To(To(s, "LineComment"), "Code"), s)
      BY <1>1 DEF SameWord, To, In
    <3>3. QED
      BY <1>3, <3>1, <3>2 DEF ServerLineComment
  <2>6. CASE s.state = "Dashes" /\ c \notin Blank
    <3> DEFINE r == To(s, "Code")
    <3>1. Serve(s, c, n) = MySqlCode(PushSign(r), c, n)
      BY <2>1, <2>6 DEF MySqlServer
    <3>2. r \in In(S) /\ SameWord(r, s) /\ r.state = "Code" /\ ~r.skip
      BY <1>1, <1>7, <2>1 DEF SameWord, To, In
    <3> HIDE DEF r
    <3>3. /\ PushSign(r) \in In(S) /\ PushSign(r).state = "Code" /\ ~PushSign(r).skip
      BY <3>2, PushesSign
    <3>4. Grown(r, s) /\ Grown(PushSign(r), r) /\ Grown(MySqlCode(PushSign(r), c, n), PushSign(r))
      BY <1>3, <2>2, <3>2, <3>3, Grows
    <3>5. QED
      BY <3>1, <3>4, GrownTwice
  <2>7. CASE s.state \notin {"Code", "LineComment", "Dashes"}
    <3>1. MySqlStates \subseteq S /\ s.state \in MySqlStates
      BY <1>1, <2>1, <2>7
    <3>2. Scans(split_mysql_statements(s, c, n), s, S)
      BY <1>1, <3>1, MySqlScans
    <3>3. QED
      BY <1>3, <2>1, <2>7, <3>2 DEF MySqlServer, Scans
  <2>8. QED
    BY <2>3, <2>4, <2>5, <2>6, <2>7
<1>8. CASE ~s.skip /\ dialect = "postgres"
  <2>1. Serve(s, c, n) = PostgresServer(s, c, n) /\ S = PostgresStates /\ text.edge \in BOOLEAN
    BY <1>8, Dialects DEF Serve
  <2>2. CASE s.state = "Code"
    BY <1>8, <2>2, PostgresOpens, OpensGrow
  <2>3. CASE s.state = "BlockComment"
    <3> DEFINE v == IF c = "slash" /\ n = "star" THEN Veil(s) ELSE s
    <3>1. Serve(s, c, n) = NestedComment(v, c, n)
      BY <2>1, <2>3 DEF PostgresServer
    <3>2. v \in In(S) /\ Grown(v, s)
      BY <1>1, <1>3, <1>4, VeilIs, Grows
    <3>3. {"Code", "BlockComment"} \subseteq S
      BY <2>1 DEF PostgresStates, LexState
    <3> HIDE DEF v
    <3>4. SameWord(NestedComment(v, c, n), v)
      BY <3>2, <3>3, NestedCommentIs
    <3>5. Grown(NestedComment(v, c, n), v)
      BY <3>2, <3>4, Grows
    <3>6. QED
      BY <3>1, <3>2, <3>5, GrownTwice
  <2>4. CASE s.state \notin {"Code", "BlockComment"}
    <3>1. Scans(split_postgres_statements(s, c, n), s, S)
      BY <1>1, <2>1, PostgresScans
    <3>2. QED
      BY <1>3, <2>1, <2>4, <3>1 DEF PostgresServer, Scans
  <2>5. QED
    BY <2>2, <2>3, <2>4
<1>9. QED
  BY <1>5, <1>6, <1>7, <1>8, Dialects

LEMMA ReadInCode ==
  ASSUME Typed, Unread(tokenizer, server), server.state = "Code", ~server.skip,
         NEW o, NEW n, Opens(o, server, symbol, n), symbol \in Symbol
  PROVE  Judged(code_tokens(tokenizer, symbol, n), ServerWord(o, symbol))
<1> DEFINE t == tokenizer
           s == server
           c == symbol
           w == ServerWord(o, c)
           u == code_tokens(t, c, n)
<1>1. /\ t \in In(TokenStates) /\ t.first = "none" /\ s.first = "none" /\ t.word = s.word
      /\ t.state = "Code" /\ t.skip = FALSE /\ s.skip = FALSE
  BY DEF Typed, Unread, In
<1>2. o \in In(ServerStates) /\ o.first = "none" /\ o.word = t.word /\ o.ident = s.ident
  BY <1>1 DEF Opens
<1>3. w \in In(ServerStates) /\ w.state = o.state /\ w.skip = o.skip /\ w.depth = o.depth /\ w.veiled = o.veiled
  BY <1>2, ServerReads
<1>4. leading_statement_keyword(w) = IF w.first = "none" THEN w.word ELSE w.first
  BY <1>3, LeadIs
<1>5. leading_statement_keyword(s) = t.word
  BY <1>1, LeadIs DEF Typed
<1>6. u = IF c = "quote" THEN PushSign(To(t, "SingleQuote"))
          ELSE IF Opened(c, n) # "Code" THEN flush(To(t, Opened(c, n)))
          ELSE IF OpensComment(t, c, n) # t THEN flush(OpensComment(t, c, n))
          ELSE IF c \in Letter THEN Push(t, c)
          ELSE IF c \in Blank THEN flush(t)
          ELSE PushSign(t)
  BY <1>1 DEF code_tokens
<1> DEFINE Lost == /\ u.first = IF t.word # "none" THEN t.word ELSE "sign"
                  /\ w.first = u.first
<1>7. Lost => Judged(u, w)
  BY <1>1 DEF Judged, In
<1>8. \A x \in TokenStates : To(t, x) \in In(TokenStates) /\ To(t, x).first = "none" /\ To(t, x).word = t.word
  BY <1>1 DEF To, In
<1>9. /\ "SingleQuote" \in TokenStates /\ Opened(c, n) \in TokenStates
      /\ {"LineComment", "BlockComment"} \subseteq TokenStates
  BY OpenedIs DEF TokenStates, LexState
<1>10. LET x == OpensComment(t, c, n)
       IN /\ x \in In(TokenStates) /\ x.first = "none" /\ x.word = t.word
          /\ c = "dash" /\ n = "dash" => x.state = "LineComment" /\ x.skip /\ x # t
          /\ c = "slash" /\ n = "star" => x.state = "BlockComment" /\ x.skip /\ x # t
          /\ ~(c = "dash" /\ n = "dash") /\ ~(c = "slash" /\ n = "star") => x = t
  BY <1>1, <1>9 DEF OpensComment, ToPast, In
<1> SUFFICES Judged(u, w)
  OBVIOUS
<1> HIDE DEF w, u
<1> DEFINE comment == o.state \in {"LineComment", "BlockComment", "Dashes"}
           named == c \in Tag /\ o.ident # "none"
<1>11. /\ comment \/ (c \in Blank /\ ~named) => w.word = "none" /\ w.first = t.word
       /\ ~comment /\ (c \in Letter \/ named) =>
            /\ w.first = "none"
            /\ w.word = IF t.word = "none" /\ c \in Letter THEN c ELSE "sign"
       /\ ~comment /\ c \notin Letter \cup Blank /\ ~named =>
            /\ w.word = "none"
            /\ w.first = IF t.word # "none" THEN t.word ELSE "sign"
  BY <1>2, ServerReads DEF w
<1>12. CASE c \in {"quote", "double", "tick", "open"}
  <2>1. ~comment /\ c \notin Letter \cup Blank /\ ~named
    BY <1>12 DEF Opens, Letter, Blank, Tag
  <2>2. w.first = IF t.word # "none" THEN t.word ELSE "sign"
    BY <1>11, <2>1
  <2>3. CASE c = "quote"
    <3>1. u = PushSign(To(t, "SingleQuote"))
      BY <1>6, <2>3
    <3>2. u.first = IF t.word # "none" THEN t.word ELSE "sign"
      BY <1>8, <1>9, <3>1, PushesSign
    <3>3. QED
      BY <1>7, <2>2, <3>2
  <2>4. CASE c # "quote"
    <3>1. u = flush(To(t, Opened(c, n)))
      BY <1>6, <1>12, <2>4, OpenedIs
    <3>2. u.first = t.word
      BY <1>8, <1>9, <3>1, Flushes
    <3>3. CASE t.word = "none"
      BY <1>4, <2>2, <3>3 DEF Judged
    <3>4. CASE t.word # "none"
      BY <2>2, <3>2, <3>4 DEF Judged
    <3>5. QED
      BY <3>3, <3>4
  <2>5. QED
    BY <2>3, <2>4
<1>13. CASE (c = "dash" /\ n = "dash") \/ (c = "slash" /\ n = "star")
  <2>1. /\ comment /\ o.skip
        /\ c = "dash" => o.state \in {"LineComment", "Dashes"}
        /\ c = "slash" => o.state = "BlockComment" /\ (dialect = "postgres" => o.depth = 1)
    BY <1>13 DEF Opens
  <2>2. w.word = "none" /\ w.first = t.word
    BY <1>11, <2>1
  <2> DEFINE x == OpensComment(t, c, n)
  <2>3. u = flush(x)
    BY <1>6, <1>10, <1>13, OpenedIs
  <2>4. /\ x \in In(TokenStates) /\ x.first = "none" /\ x.word = t.word /\ x.skip
        /\ c = "dash" => x.state = "LineComment"
        /\ c = "slash" => x.state = "BlockComment"
    BY <1>10, <1>13
  <2> HIDE DEF x
  <2>5. u.word = "none" /\ u.first = t.word /\ u.state = x.state /\ u.skip = x.skip
    BY <2>3, <2>4, Flushes
  <2>6. CASE t.word # "none"
    BY <2>2, <2>5, <2>6 DEF Judged
  <2>7. CASE t.word = "none"
    <3>1. u.skip = w.skip
      BY <1>2, <1>3, <2>1, <2>4, <2>5 DEF In
    <3>2. Unread(u, w)
      BY <1>3, <1>13, <2>1, <2>2, <2>4, <2>5, <2>7, <3>1 DEF Unread
    <3>3. QED
      BY <3>2 DEF Judged
  <2>8. QED
    BY <2>6, <2>7
<1>14. CASE c \in Letter \cup Blank
  <2>1. c \notin {"quote", "double", "tick", "open", "dash", "slash", "hash"} \cup Tag
    BY <1>14 DEF Letter, Blank, Tag
  <2>2. o.state = "Code" /\ o.skip = FALSE /\ ~comment /\ ~named
    BY <1>1, <2>1 DEF Opens
  <2>3. Opened(c, n) = "Code" /\ OpensComment(t, c, n) = t
    BY <1>10, <2>1, OpenedIs
  <2>4. CASE c \in Letter
    <3>1. u = Push(t, c)
      BY <1>6, <2>1, <2>3, <2>4
    <3>2. /\ u.first = "none" /\ u.word = (IF t.word = "none" THEN c ELSE "sign")
          /\ u.state = "Code" /\ u.skip = FALSE
      BY <1>1, <2>4, <3>1, Pushes
    <3>3. w.first = "none" /\ w.word = (IF t.word = "none" THEN c ELSE "sign")
      BY <1>11, <2>2, <2>4
    <3>4. Unread(u, w)
      BY <1>3, <2>2, <3>2, <3>3 DEF Unread
    <3>5. QED
      BY <3>4 DEF Judged
  <2>5. CASE c \in Blank
    <3>1. c \notin Letter
      BY <2>5 DEF Letter, Blank
    <3>2. u = flush(t)
      BY <1>6, <2>1, <2>3, <2>5, <3>1
    <3>3. u.first = t.word /\ u.word = "none" /\ u.state = "Code" /\ u.skip = FALSE
      BY <1>1, <3>2, Flushes
    <3>4. w.first = t.word /\ w.word = "none"
      BY <1>11, <2>2, <2>5
    <3>5. CASE t.word = "none"
      <4>1. Unread(u, w)
        BY <1>3, <2>2, <3>3, <3>4, <3>5 DEF Unread
      <4>2. QED
        BY <4>1 DEF Judged
    <3>6. CASE t.word # "none"
      BY <3>3, <3>4, <3>6 DEF Judged
    <3>7. QED
      BY <3>5, <3>6
  <2>6. QED
    BY <1>14, <2>4, <2>5
<1>15. CASE /\ c \notin {"quote", "double", "tick", "open"} \cup Letter \cup Blank
            /\ ~(c = "dash" /\ n = "dash") /\ ~(c = "slash" /\ n = "star")
  <2>1. u = PushSign(t)
    BY <1>6, <1>10, <1>15, OpenedIs
  <2>2. u.first = IF t.word # "none" THEN t.word ELSE "sign"
    BY <1>1, <2>1, PushesSign
  <2>3. CASE c = "hash" /\ dialect = "mysql"
    <3>1. o.state = "LineComment" /\ (t.word = "none" => o.veiled)
      BY <1>5, <2>3 DEF Opens
    <3>2. w.first = t.word /\ (t.word = "none" => w.veiled)
      BY <1>3, <1>11, <3>1
    <3>3. QED
      BY <2>2, <3>2 DEF Judged
  <2>4. CASE named
    <3>1. ~comment
      BY <2>4 DEF Opens
    <3>2. c \notin Letter
      BY <1>15
    <3>3. w.first = "none" /\ w.word = "sign"
      BY <1>11, <2>4, <3>1, <3>2
    <3>4. QED
      BY <1>4, <3>3 DEF Judged
  <2>5. CASE ~named /\ ~(c = "hash" /\ dialect = "mysql")
    <3>1. ~comment
      BY <1>15, <2>5 DEF Opens
    <3>2. w.first = IF t.word # "none" THEN t.word ELSE "sign"
      BY <1>11, <1>15, <2>5, <3>1
    <3>3. QED
      BY <1>7, <2>2, <3>2
  <2>6. QED
    BY <2>3, <2>4, <2>5
<1>16. QED
  BY <1>12, <1>13, <1>14, <1>15

LEMMA ReadOutsideCode ==
  ASSUME Typed, Unread(tokenizer, server), server.state # "Code", ~server.skip, ~IsOdd(symbol), NEW n
  PROVE  Judged(code_tokens(tokenizer, symbol, n), Serve(server, symbol, n))
<1> DEFINE t == tokenizer
           s == server
           c == symbol
           u == code_tokens(t, c, n)
           w == Serve(s, c, n)
<1>1. /\ t \in In(TokenStates) /\ s \in In(ServerStates) /\ s.state \in ServerStates
      /\ t.first = "none" /\ s.first = "none" /\ t.word = "none" /\ s.word = "none"
      /\ t.skip = FALSE /\ s.skip = FALSE
      /\ s.state \in {"LineComment", "BlockComment", "Dashes"}
      /\ t.state = (IF s.state = "Dashes" THEN "LineComment" ELSE s.state)
  <2>1. /\ t \in In(TokenStates) /\ s \in In(ServerStates) /\ s.state \in ServerStates
        /\ t.state \in TokenStates /\ "Dashes" \notin TokenStates
        /\ t.skip \in BOOLEAN /\ s.skip \in BOOLEAN
    BY DEF Typed, In, TokenStates
  <2>2. /\ t.first = "none" /\ s.first = "none" /\ t.word = s.word /\ t.skip = s.skip
        /\ t.state = s.state \/ (t.state = "LineComment" /\ s.state = "Dashes")
        /\ s.state \in {"Code", "LineComment", "BlockComment", "Dashes"}
        /\ s.word = "none"
    BY DEF Unread
  <2>3. QED
    BY <2>1, <2>2
<1>2. \A x : /\ To(t, x).state = x /\ To(t, x).first = "none" /\ To(t, x).word = "none" /\ To(t, x).skip = FALSE
            /\ To(s, x).state = x /\ To(s, x).first = "none" /\ To(s, x).word = "none" /\ To(s, x).skip = FALSE
  BY <1>1 DEF To, In
<1>3. dialect \in {"sqlite", "mysql", "postgres"}
  BY Dialects
<1>4. CASE s.state = "LineComment"
  <2>1. u = LineComment(t, c)
    BY <1>1, <1>4 DEF code_tokens, TokenLineComment
  <2>2. c = "return" => dialect = "postgres"
    BY <1>4 DEF IsOdd
  <2>3. w = IF c = "newline" \/ (c = "return" /\ dialect = "postgres") THEN To(s, "Code") ELSE s
    <3>1. CASE dialect = "sqlite"
      BY <1>1, <1>4, <2>2, <3>1 DEF Serve, SqliteServer, ServerLineComment
    <3>2. CASE dialect = "mysql"
      BY <1>1, <1>4, <2>2, <3>2 DEF Serve, MySqlServer, ServerLineComment
    <3>3. CASE dialect = "postgres"
      BY <1>1, <1>4, <3>3 DEF Serve, PostgresServer, split_postgres_statements, LineComment
    <3>4. QED
      BY <1>3, <3>1, <3>2, <3>3
  <2> HIDE DEF u, w
  <2>4. Unread(u, w)
    BY <1>1, <1>2, <1>4, <2>1, <2>2, <2>3 DEF LineComment, Unread
  <2>5. QED
    BY <2>4 DEF Judged, u, w
<1>5. CASE s.state = "Dashes"
  <2>1. dialect = "mysql"
    BY <1>1, <1>5, Dialects DEF PostgresStates, TokenStates
  <2>2. c \in {"space", "newline"}
    BY <1>1, <1>5, <2>1 DEF IsOdd, Blank
  <2>3. u = LineComment(t, c)
    BY <1>1, <1>5 DEF code_tokens, TokenLineComment
  <2>4. w = ServerLineComment(To(s, "LineComment"), c)
    BY <1>1, <1>5, <2>1, <2>2 DEF Serve, MySqlServer, Blank
  <2>5. LET x == To(To(s, "LineComment"), "Code")
        IN x.state = "Code" /\ x.first = "none" /\ x.word = "none" /\ x.skip = FALSE
    BY <1>1 DEF To, In
  <2> HIDE DEF u, w
  <2>6. Unread(u, w)
    BY <1>1, <1>2, <1>5, <2>2, <2>3, <2>4, <2>5 DEF LineComment, ServerLineComment, Unread
  <2>7. QED
    BY <2>6 DEF Judged, u, w
<1>6. CASE s.state = "BlockComment"
  <2> DEFINE ends == c = "star" /\ n = "slash"
             begins == c = "slash" /\ n = "star"
  <2>1. u = IF ends THEN ToPast(t, "Code") ELSE t
    BY <1>1, <1>6 DEF code_tokens, TokenBlockComment, BlockComment
  <2>2. LET x == ToPast(t, "Code")
        IN x.state = "Code" /\ x.first = "none" /\ x.word = "none" /\ x.skip = TRUE
    BY <1>1 DEF ToPast, In
  <2>3. LET x == ToPast(s, "Code")
        IN x.state = "Code" /\ x.first = "none" /\ x.word = "none" /\ x.skip = TRUE
    BY <1>1 DEF ToPast, In
  <2>4. CASE dialect # "postgres"
    <3>1. w = IF ends THEN ToPast(s, "Code") ELSE s
      <4>1. CASE dialect = "sqlite"
        BY <1>1, <1>6, <4>1 DEF Serve, SqliteServer, split_statements, BlockComment
      <4>2. CASE dialect = "mysql"
        BY <1>1, <1>6, <4>2 DEF Serve, MySqlServer, split_mysql_statements, BlockComment
      <4>3. QED
        BY <1>3, <2>4, <4>1, <4>2
    <3> HIDE DEF u, w
    <3>2. Unread(u, w)
      BY <1>1, <1>6, <2>1, <2>2, <2>3, <2>4, <3>1 DEF Unread
    <3>3. QED
      BY <3>2 DEF Judged, u, w
  <2>5. CASE dialect = "postgres"
    <3>1. w = NestedComment(IF begins THEN Veil(s) ELSE s, c, n) /\ s.depth = 1
      BY <1>1, <1>6, <2>5 DEF Serve, PostgresServer, Unread
    <3>2. {"Code", "BlockComment"} \subseteq ServerStates
      BY <2>5, Dialects DEF PostgresStates, LexState
    <3>3. CASE begins
      <4>1. Veil(s) \in In(ServerStates) /\ Veil(s).veiled
        BY <1>1, VeilIs, LeadIs
      <4>2. SameWord(NestedComment(Veil(s), c, n), Veil(s))
        BY <3>2, <4>1, NestedCommentIs
      <4>3. w.veiled
        BY <3>1, <3>3, <4>1, <4>2 DEF SameWord
      <4>4. QED
        BY <4>3 DEF Judged
    <3>4. CASE ends
      <4>1. w = [s EXCEPT !.depth = @ - 1, !.skip = TRUE, !.state = "Code"]
        BY <3>1, <3>4 DEF NestedComment
      <4>2. w.state = "Code" /\ w.skip = TRUE /\ w.first = "none" /\ w.word = "none"
        BY <1>1, <4>1 DEF In
      <4> HIDE DEF u, w
      <4>3. Unread(u, w)
        BY <2>1, <2>2, <3>4, <4>2 DEF Unread
      <4>4. QED
        BY <4>3 DEF Judged, u, w
    <3>5. CASE ~begins /\ ~ends
      <4>1. w = s /\ u = t
        BY <2>1, <3>1, <3>5 DEF NestedComment
      <4>2. QED
        BY <4>1 DEF Judged
    <3>6. QED
      BY <3>3, <3>4, <3>5
  <2>6. QED
    BY <2>4, <2>5
<1>7. QED
  BY <1>1, <1>4, <1>5, <1>6

LEMMA JudgedKeeps ==
  ASSUME Typed, Judged(tokenizer, server), symbol \in Symbol, ~IsOdd(symbol), NEW n
  PROVE  Judged(code_tokens(tokenizer, symbol, n), Serve(server, symbol, n))
<1> DEFINE t == tokenizer
           s == server
           u == code_tokens(t, symbol, n)
           w == Serve(s, symbol, n)
<1>1. Grown(w, s) /\ w \in In(ServerStates) /\ t \in In(TokenStates) /\ s \in In(ServerStates)
  BY ServerGrows, ServerTyped DEF Typed
<1>2. CASE s.veiled
  BY <1>1, <1>2 DEF Judged, Grown
<1>3. CASE leading_statement_keyword(s) = "sign"
  <2>1. leading_statement_keyword(w) = "sign"
    BY <1>1, <1>3, LeadIs DEF Grown
  <2>2. QED
    BY <2>1 DEF Judged
<1>4. CASE s.first # "none" /\ t.first = s.first
  <2>1. u.first = t.first
    <3>1. u = [NewReader EXCEPT !.first = t.first]
      BY <1>4 DEF code_tokens
    <3>2. QED
      BY <3>1 DEF NewReader
  <2> HIDE DEF u, w
  <2>2. QED
    BY <1>1, <1>4, <2>1 DEF Judged, Grown, u, w
<1>5. CASE Unread(t, s)
  <2>1. CASE s.skip
    <3>1. t.skip /\ t.first = "none"
      BY <1>5, <2>1 DEF Unread
    <3>2. u = [t EXCEPT !.skip = FALSE] /\ w = [s EXCEPT !.skip = FALSE]
      BY <2>1, <3>1 DEF code_tokens, Serve
    <3>3. LET x == [t EXCEPT !.skip = FALSE]
          IN x.state = t.state /\ x.first = t.first /\ x.word = t.word /\ x.skip = FALSE
      BY <1>1 DEF In
    <3>4. LET x == [s EXCEPT !.skip = FALSE]
          IN /\ x.state = s.state /\ x.first = s.first /\ x.word = s.word /\ x.skip = FALSE
             /\ x.depth = s.depth
      BY <1>1 DEF In
    <3> HIDE DEF u, w
    <3>5. Unread(u, w)
      BY <1>5, <3>2, <3>3, <3>4 DEF Unread
    <3>6. QED
      BY <3>5 DEF Judged, u, w
  <2>2. CASE ~s.skip /\ s.state # "Code"
    BY <1>5, <2>2, ReadOutsideCode
  <2>3. CASE ~s.skip /\ s.state = "Code"
    <3>1. \E o : Opens(o, s, symbol, n) /\ w = ServerWord(o, symbol)
      <4>1. CASE dialect = "sqlite"
        BY <2>3, <4>1, SqliteOpens
      <4>2. CASE dialect = "mysql"
        <5>1. Opens(MySqlOpens(s, symbol, n), s, symbol, n)
          BY <1>1, <2>3, <4>2, MySqlOpensCode
        <5>2. w = ServerWord(MySqlOpens(s, symbol, n), symbol)
          BY <2>3, <4>2 DEF Serve, MySqlServer, MySqlCode, MySqlOpens
        <5>3. QED
          BY <5>1, <5>2
      <4>3. CASE dialect = "postgres"
        BY <2>3, <4>3, PostgresOpens
      <4>4. QED
        BY <4>1, <4>2, <4>3, Dialects
    <3>2. QED
      BY <1>5, <2>3, <3>1, ReadInCode
  <2>4. QED
    BY <2>1, <2>2, <2>3
<1>6. QED
  BY <1>2, <1>3, <1>4, <1>5 DEF Judged

LEMMA JudgedWell ==
  ASSUME NEW t \in In(TokenStates), NEW s \in In(ServerStates), Judged(t, s)
  PROVE  Misread(t, s) \subseteq {"veiled"}
<1> DEFINE seen == leading_statement_keyword(t)
           real == leading_statement_keyword(s)
<1>1. /\ seen = IF t.first = "none" THEN t.word ELSE t.first
      /\ real = IF s.first = "none" THEN s.word ELSE s.first
  BY LeadIs
<1>2. s.veiled \/ real = "sign" \/ seen = real
  BY <1>1 DEF Judged, Unread
<1>3. Misread(t, s) =
        CASE real = "drop" /\ seen # "drop" -> {IF s.veiled THEN "veiled" ELSE "drop"}
          [] seen = "select" /\ real \in Letter \ {"select", "drop"} -> {IF s.veiled THEN "veiled" ELSE "read"}
          [] OTHER -> {}
  BY DEF Misread
<1> HIDE DEF seen, real
<1>4. QED
  BY <1>2, <1>3 DEF Letter

-----------------------------------------------------------------------------
(* The invariant *)

LEMMA Alphabet ==
  ASSUME Typed
  PROVE  /\ setting.alphabet \subseteq Symbol /\ Edge \notin Symbol
         /\ dialect # "mysql" => setting.alphabet \cap Directive = {}
BY SqlTextAssumption DEF Typed, dialect, Edge, Symbol, Letter, Tag, Directive, Blank

LEMMA NewReaders ==
  ASSUME NEW S, "Code" \in S
  PROVE  /\ NewReader \in In(S) /\ NewReader.state = "Code" /\ NewReader.skip = FALSE
         /\ NewReader.ident = "none" /\ NewReader.first = "none" /\ NewReader.word = "none"
<1>1. 0 \in Int
  OBVIOUS
<1>2. QED
  BY <1>1 DEF NewReader, In

(* All three readers at the start of a statement. *)
LEMMA Anew ==
  ASSUME NEW x, x.prev = Edge, NEW c
  PROVE  Level(NewReader, NewReader, c) /\ Words(NewReader, x, c) /\ Judged(NewReader, NewReader)
BY NewReaders DEF Level, Words, Judged, Unread, Edge

LEMMA EndsTogether ==
  ASSUME Typed, Level(splitter, server, symbol), ~IsOdd(symbol)
  PROVE  ServerEnds(symbol) <=> Cuts(symbol)
<1>1. text.delimiter \notin Blank
  BY DEF Typed, Blank
<1>2. ServerEnds(symbol) => server.state = "Code"
  BY <1>1 DEF ServerEnds, IsOdd
<1>3. splitter.state = "Code" <=> server.state = "Code"
  BY DEF Level
<1>4. server.state = "Code" => splitter.skip = server.skip
  BY <1>3 DEF Level, Doubtful
<1>5. QED
  BY <1>2, <1>3, <1>4 DEF ServerEnds, Cuts

LEMMA TextInitially == Init => TextInv
<1> SUFFICES ASSUME Init PROVE TextInv
  OBVIOUS
<1>1. setting \in Settings /\ symbol \in setting.alphabet /\ text.prev = Edge
  BY DEF Init
<1>2. text \in [prev : {"E", "fin", "letter", "tag", Edge}, edge : BOOLEAN, blank : BOOLEAN,
               line : BOOLEAN, delimiter : {"semicolon", "custom"}]
  BY DEF Init
<1>3. dialect \in {"sqlite", "mysql", "postgres"}
  BY <1>1, SqlTextAssumption DEF dialect
<1>4. "Code" \in States /\ "Code" \in ServerStates /\ "Code" \in TokenStates
  BY <1>3 DEF States, ServerStates, TokenStates, LexState
<1>5. Typed
  BY <1>1, <1>2, <1>4, NewReaders DEF Init, Typed
<1>6. QED
  BY <1>1, <1>5, Anew DEF Init, TextInv, Sound

LEMMA ReadersTyped ==
  ASSUME Typed, NEW n
  PROVE  /\ split_statements_for_dialect(splitter, symbol, n) \in In(States)
         /\ code_tokens(tokenizer, symbol, n) \in In(TokenStates)
         /\ Serve(server, symbol, n) \in In(ServerStates)
         /\ NewReader \in In(States) /\ NewReader \in In(TokenStates) /\ NewReader \in In(ServerStates)
<1>1. "Code" \in States /\ "Code" \in ServerStates /\ "Code" \in TokenStates
  BY Dialects DEF TokenStates, MySqlStates, PostgresStates, LexState
<1>2. QED
  BY <1>1, NewReaders, SplitterTyped, TokensTyped, ServerTyped

LEMMA TypedKeeps == ASSUME Typed, [Next]_vars PROVE Typed'
<1>1. ASSUME Next PROVE Typed'
  <2>1. setting' = setting /\ States' = States /\ ServerStates' = ServerStates
    <3>1. setting' = setting
      BY <1>1 DEF Next, ReadDirective, EndStatement, ReadSymbol, Refuse, EndDocument, Advance
    <3>2. dialect' = dialect
      BY <3>1 DEF dialect
    <3>3. QED
      BY <3>1, <3>2 DEF States, ServerStates
  <2>2. CASE EndDocument
    BY <2>1, <2>2 DEF EndDocument, Typed, readers
  <2>3. ASSUME symbol # Edge, NEW n \in setting.alphabet \cup {Edge},
               ReadDirective(n) \/ EndStatement(n) \/ ReadSymbol(n) \/ Refuse(n)
        PROVE  Typed'
    <3>1. symbol' = n /\ symbol \in Symbol
      BY <2>3, Alphabet DEF ReadDirective, EndStatement, ReadSymbol, Refuse, Advance, Typed
    <3>2. /\ splitter' \in In(States) /\ tokenizer' \in In(TokenStates)
          /\ server' \in In(ServerStates)
      BY <2>3, ReadersTyped DEF ReadDirective, EndStatement, ReadSymbol, Refuse, readers, Typed
    <3> DEFINE Texts == [prev : {"E", "fin", "letter", "tag", Edge}, edge : BOOLEAN, blank : BOOLEAN,
                         line : BOOLEAN, delimiter : {"semicolon", "custom"}]
    <3>3. Follows(symbol) \in Texts /\ text \in Texts
      BY <3>1, FollowsIs DEF Typed
    <3>4. text' \in Texts
      <4> HIDE DEF Texts
      <4>1. ASSUME NEW x \in Texts, NEW a \in BOOLEAN, NEW b \in BOOLEAN, NEW d \in {"semicolon", "custom"}
            PROVE  /\ [x EXCEPT !.blank = a, !.line = b, !.delimiter = d] \in Texts
                   /\ [x EXCEPT !.blank = a, !.line = b] \in Texts
        BY <4>1 DEF Texts
      <4>2. CASE ReadDirective(n)
        <5>1. text' = [Follows(symbol) EXCEPT !.blank = TRUE, !.line = TRUE,
                         !.delimiter = IF symbol = "directive" THEN "custom" ELSE "semicolon"]
          BY <4>2 DEF ReadDirective
        <5>2. QED
          BY <3>3, <4>1, <5>1
      <4>3. CASE EndStatement(n)
        <5>1. text' = [Follows(symbol) EXCEPT !.blank = TRUE, !.line = FALSE]
          BY <4>3 DEF EndStatement
        <5>2. QED
          BY <3>3, <4>1, <5>1
      <4>4. CASE ReadSymbol(n)
        <5> DEFINE a == Follows(symbol).blank /\ symbol \in Blank
                   b == symbol = "newline" /\ ~splitter.skip
        <5>1. text' = [Follows(symbol) EXCEPT !.blank = a, !.line = b]
          BY <4>4 DEF ReadSymbol
        <5>2. a \in BOOLEAN /\ b \in BOOLEAN
          OBVIOUS
        <5> HIDE DEF a, b
        <5>3. QED
          BY <3>3, <4>1, <5>1, <5>2
      <4>5. CASE Refuse(n)
        BY <3>3, <4>5 DEF Refuse
      <4>6. QED
        BY <2>3, <4>2, <4>3, <4>4, <4>5
    <3>5. QED
      BY <2>1, <3>1, <3>2, <3>4 DEF Typed
  <2>4. QED
    BY <1>1, <2>2, <2>3 DEF Next
<1>2. ASSUME UNCHANGED vars PROVE Typed'
  BY <1>2 DEF vars, readers, Typed, States, ServerStates, dialect
<1>3. QED
  BY <1>1, <1>2

LEMMA TextStep ==
  ASSUME \A s \in Settings : ~s.strict, TextInv, [Next]_vars
  PROVE  TextInv'
<1>1. Typed /\ ~setting.strict /\ Typed'
  BY TypedKeeps DEF TextInv, Typed
<1>2. CASE UNCHANGED vars
  <2>1. dialect' = dialect
    BY <1>2 DEF vars, dialect
  <2>2. QED
    BY <1>1, <1>2, <2>1
       DEF TextInv, vars, readers, Level, Doubtful, Words, Judged, Unread, Sound
<1>3. ASSUME Next PROVE TextInv'
  <2>1. /\ Level(splitter, server, symbol) /\ Words(server, text, symbol)
        /\ Judged(tokenizer, server) /\ Sound
    BY <1>3 DEF Next, TextInv
  <2>2. dialect' = dialect
    BY <1>3 DEF Next, ReadDirective, EndStatement, ReadSymbol, Refuse, EndDocument, Advance, dialect
  <2>3. /\ Level(splitter', server', symbol') => Level(splitter, server, symbol)'
        /\ Words(server', text', symbol') => Words(server, text, symbol)'
        /\ Judged(tokenizer', server') => Judged(tokenizer, server)'
    BY <2>2 DEF Level, Doubtful, Words, Judged, Unread
  <2>4. CASE EndDocument
    <3>1. UNCHANGED <<symbol, text, splitter, tokenizer, server>>
      BY <2>4 DEF EndDocument, readers
    <3>2. status' = "planned" => Sound'
      <4>1. ASSUME status' = "planned" PROVE Sound'
        <5>1. server.state \in {"Code", "LineComment", "Dashes"}
          BY <2>1, <2>4, <4>1 DEF EndDocument, Level
        <5>2. wrong' = wrong \cup Misread(tokenizer, server)
          BY <2>4, <4>1, <5>1 DEF EndDocument
        <5>3. Misread(tokenizer, server) \subseteq {"veiled"}
          BY <1>1, <2>1, JudgedWell DEF Typed
        <5>4. QED
          BY <2>1, <5>2, <5>3 DEF Sound
      <4>2. QED
        BY <4>1
    <3>3. status' \in {"planned", "Ambiguous"}
      BY <2>4 DEF EndDocument
    <3>4. QED
      BY <1>1, <3>2, <3>3 DEF TextInv
  <2>5. ASSUME symbol # Edge, NEW n \in setting.alphabet \cup {Edge}, ReadDirective(n)
        PROVE  TextInv'
    <3>1. /\ UNCHANGED <<splitter, tokenizer, server, status, wrong>> /\ symbol' = n
          /\ splitter.state = "Code" /\ symbol \in Directive
      BY <2>5 DEF ReadDirective, readers, Advance, IsDirective
    <3>2. dialect = "mysql"
      BY <1>1, <2>5, <3>1, Alphabet DEF Typed
    <3>3. Level(splitter', server', symbol') /\ Words(server', text', symbol')
      BY <2>1, <3>1, <3>2 DEF Level, Doubtful, Words
    <3>4. Judged(tokenizer', server')
      BY <2>1, <3>1
    <3>5. Sound'
      BY <2>1, <3>1 DEF Sound
    <3>6. QED
      BY <1>1, <2>3, <3>3, <3>4, <3>5 DEF TextInv
  <2>6. ASSUME symbol # Edge, NEW n \in setting.alphabet \cup {Edge}, EndStatement(n)
        PROVE  TextInv'
    <3> DEFINE t == code_tokens(tokenizer, symbol, n)
               s == Serve(server, symbol, n)
    <3>1. /\ Cuts(symbol) /\ symbol = text.delimiter /\ symbol \in {"semicolon", "custom"}
          /\ symbol \in Symbol
      BY <1>1, <2>6 DEF EndStatement, Cuts, Typed, Symbol
    <3>2. splitter' = NewReader /\ tokenizer' = NewReader /\ server' = NewReader
      BY <2>6 DEF EndStatement
    <3>3. text'.prev = Edge
      <4>1. Follows(symbol).prev = Edge
        BY <1>1, <3>1, FollowsIs, Kinds DEF Letter, Tag
      <4>2. text' = [Follows(symbol) EXCEPT !.blank = TRUE, !.line = FALSE]
        BY <2>6 DEF EndStatement
      <4>3. QED
        BY <1>1, <3>1, <4>1, <4>2, FollowsIs
    <3>4. Level(splitter', server', symbol') /\ Words(server', text', symbol') /\ Judged(tokenizer', server')
      BY <3>2, <3>3, Anew
    <3>5. status' = "odd" \/ (status' = "scanning" /\ ~IsOdd(symbol))
      BY <1>1, <2>6 DEF EndStatement, After
    <3>6. ASSUME ~IsOdd(symbol) PROVE Sound'
      <4>1. ServerEnds(symbol)
        BY <1>1, <2>1, <3>1, <3>6, EndsTogether
      <4>2. Judged(t, s) /\ t \in In(TokenStates) /\ s \in In(ServerStates)
        BY <1>1, <2>1, <3>1, <3>6, JudgedKeeps, ReadersTyped
      <4>3. Misread(t, s) \subseteq {"veiled"}
        BY <4>2, JudgedWell
      <4>4. wrong' = wrong \cup Misread(t, s) \cup (IF ServerEnds(symbol) THEN {} ELSE {"boundary"})
                           \cup (IF InBody THEN {"body"} ELSE {})
        BY <2>6 DEF EndStatement
      <4> HIDE DEF t, s
      <4>5. QED
        BY <2>1, <4>1, <4>3, <4>4 DEF Sound
    <3>7. QED
      BY <1>1, <2>3, <3>4, <3>5, <3>6 DEF TextInv
  <2>7. ASSUME symbol # Edge, NEW n \in setting.alphabet \cup {Edge}, ReadSymbol(n)
        PROVE  TextInv'
    <3>1. /\ symbol \in Symbol \ Directive /\ symbol' = n
          /\ ~Cuts(symbol) /\ ~IsAmbiguous(splitter, symbol, n)
          /\ splitter' = split_statements_for_dialect(splitter, symbol, n)
          /\ tokenizer' = code_tokens(tokenizer, symbol, n)
          /\ server' = Serve(server, symbol, n)
          /\ wrong' = wrong \cup (IF ServerEnds(symbol) THEN {"boundary"} ELSE {})
      BY <1>1, <2>7, Alphabet DEF ReadSymbol, Advance, Typed
    <3>2. status' = "odd" \/ (status' = "scanning" /\ ~IsOdd(symbol))
      BY <1>1, <2>7 DEF ReadSymbol, After
    <3>3. text'.prev = Follows(symbol).prev /\ text'.edge = Follows(symbol).edge
      <4> DEFINE a == Follows(symbol).blank /\ symbol \in Blank
                 b == symbol = "newline" /\ ~splitter.skip
      <4>1. text' = [Follows(symbol) EXCEPT !.blank = a, !.line = b]
        BY <2>7 DEF ReadSymbol
      <4> HIDE DEF a, b
      <4>2. QED
        BY <1>1, <3>1, <4>1, FollowsIs
    <3>4. ASSUME ~IsOdd(symbol)
          PROVE  /\ Level(splitter', server', symbol') /\ Words(server', text', symbol')
                 /\ Judged(tokenizer', server') /\ Sound'
      <4>1. Judged(tokenizer', server')
        BY <1>1, <2>1, <3>1, <3>4, JudgedKeeps
      <4>2. ~ServerEnds(symbol)
        BY <1>1, <2>1, <3>1, <3>4, EndsTogether
      <4>3. Sound'
        BY <2>1, <3>1, <4>2 DEF Sound
      <4>4. Level(splitter', server', symbol') /\ Words(server', text', symbol')
        <5>1. CASE dialect = "sqlite"
          BY <1>1, <2>1, <3>1, <3>4, <5>1, SqliteStaysLevel DEF Words
        <5>2. CASE dialect = "mysql"
          BY <1>1, <2>1, <3>1, <3>4, <5>2, MySqlStaysLevel DEF Words
        <5>3. CASE dialect = "postgres"
          <6>1. Level(splitter', server', symbol') /\ Words(server', Follows(symbol), symbol')
            BY <1>1, <2>1, <3>1, <3>4, <5>3, PostgresStaysLevel
          <6>2. QED
            BY <3>3, <6>1 DEF Words
        <5>4. QED
          BY <1>1, <5>1, <5>2, <5>3, Dialects
      <4>5. QED
        BY <4>1, <4>3, <4>4
    <3>5. QED
      BY <1>1, <2>3, <3>2, <3>4 DEF TextInv
  <2>8. ASSUME symbol # Edge, NEW n \in setting.alphabet \cup {Edge}, Refuse(n)
        PROVE  TextInv'
    BY <1>1, <2>8 DEF Refuse, TextInv
  <2>9. QED
    BY <1>3, <2>4, <2>5, <2>6, <2>7, <2>8 DEF Next
<1>4. QED
  BY <1>2, <1>3

LEMMA TextInvHolds == (\A s \in Settings : ~s.strict) => (Spec => []TextInv)
<1> SUFFICES ASSUME \A s \in Settings : ~s.strict PROVE Spec => []TextInv
  OBVIOUS
<1>1. TextInv /\ [Next]_vars => TextInv'
  BY TextStep
<1>2. QED
  BY <1>1, TextInitially, PTL DEF Spec

-----------------------------------------------------------------------------
(* What the recursion of predicate_effectiveness computes *)

(* The induction: a set of numbers that is not empty has a least one. *)
LEMMA LeastNumber ==
  ASSUME NEW T, T \subseteq Nat, T # {}
  PROVE  \E n \in T : \A m \in T : n <= m
<1> DEFINE R == OpToRel(<, Nat)
<1>1. IsWellFoundedOn(R, Nat)
  BY NatLessThanWellFounded
<1>2. \A x, y \in Nat : x < y => <<x, y>> \in R
  BY DEF OpToRel
<1> HIDE DEF R
<1>3. PICK n \in T : \A m \in T : ~ (<<m, n>> \in R)
  BY <1>1, WFMin
<1>4. ASSUME NEW m \in T PROVE n <= m
  <2>1. ~ (m < n)
    BY <1>2, <1>3
  <2>2. m \in Nat /\ n \in Nat
    OBVIOUS
  <2>3. QED
    BY <2>1, <2>2
<1>5. QED
  BY <1>4

LEMMA StrippedIs ==
  ASSUME NEW s \in Seq(Token)
  PROVE  LET t == Stripped(s)
         IN /\ t \in Seq(Token)
            /\ \E d \in {0, 1} : /\ Len(t) + d <= Len(s)
                                 /\ d = 1 => s[1] = "("
                                 /\ \A i \in 1..Len(t) : t[i] = s[i + d]
            /\ \A i \in 1..Len(s) : s[i] \in {"(", ")"} \/ \E j \in 1..Len(t) : t[j] = s[i]
<1> DEFINE f == IF Len(s) > 0 /\ Head(s) = "(" THEN Tail(s) ELSE s
           d == IF Len(s) > 0 /\ Head(s) = "(" THEN 1 ELSE 0
           t == Stripped(s)
<1>1. /\ f \in Seq(Token) /\ d \in {0, 1} /\ Len(f) + d = Len(s)
      /\ d = 1 => s[1] = "("
      /\ \A i \in 1..Len(f) : f[i] = s[i + d]
  <2>1. CASE Len(s) > 0 /\ Head(s) = "("
    BY <2>1
  <2>2. CASE ~(Len(s) > 0 /\ Head(s) = "(")
    BY <2>2
  <2>3. QED
    BY <2>1, <2>2
<1>2. t = IF Len(f) > 0 /\ Last(f) = ")" THEN Front(f) ELSE f
  BY DEF Stripped
<1> HIDE DEF f, d, t
<1>3. /\ t \in Seq(Token) /\ Len(t) <= Len(f)
      /\ \A i \in 1..Len(t) : t[i] = f[i]
      /\ \A i \in 1..Len(f) : f[i] = ")" \/ i \in 1..Len(t)
  <2>1. CASE Len(f) > 0 /\ Last(f) = ")"
    <3>1. t = SubSeq(f, 1, Len(f) - 1) /\ f[Len(f)] = ")"
      BY <1>2, <2>1 DEF Front, Last
    <3>2. QED
      BY <1>1, <2>1, <3>1
  <2>2. CASE ~(Len(f) > 0 /\ Last(f) = ")")
    BY <1>1, <1>2, <2>2
  <2>3. QED
    BY <2>1, <2>2
<1>4. ASSUME NEW i \in 1..Len(s), s[i] \notin {"(", ")"}
      PROVE  \E j \in 1..Len(t) : t[j] = s[i]
  <2>1. i - d \in 1..Len(f) /\ f[i - d] = s[i]
    BY <1>1, <1>4
  <2>2. i - d \in 1..Len(t) /\ t[i - d] = s[i]
    BY <1>3, <1>4, <2>1
  <2>3. QED
    BY <2>2
<1>5. \E e \in {0, 1} : /\ Len(t) + e <= Len(s)
                        /\ e = 1 => s[1] = "("
                        /\ \A i \in 1..Len(t) : t[i] = s[i + e]
  <2>1. Len(t) \in Nat /\ Len(f) \in Nat /\ Len(s) \in Nat
    BY <1>1, <1>3
  <2>2. \A i \in 1..Len(t) : i \in 1..Len(f)
    BY <1>3, <2>1
  <2>3. QED
    BY <1>1, <1>3, <2>1, <2>2
<1>6. QED
  BY <1>3, <1>4, <1>5 DEF t

(* What stands on both sides of the first AND is shorter. *)
LEMMA SidesAreShorter ==
  ASSUME NEW s \in Seq(Token), IsConjunction(Stripped(s))
  PROVE  LET t == Stripped(s)
             left == SubSeq(t, 1, and_index(t) - 1)
             right == SubSeq(t, and_index(t) + 1, Len(t))
         IN /\ left \in Seq(Token) /\ right \in Seq(Token)
            /\ Len(left) < Len(s) /\ Len(right) < Len(s)
            /\ Len(left) < Len(t)
            /\ \A i \in 1..Len(left) : left[i] = t[i]
<1> DEFINE t == Stripped(s)
           a == and_index(t)
           I == {i \in 1..Len(t) : t[i] = "AND"}
<1>1. t \in Seq(Token) /\ Len(t) <= Len(s)
  <2>1. PICK d \in {0, 1} : Len(t) + d <= Len(s)
    BY StrippedIs, Zenon
  <2>2. t \in Seq(Token)
    BY StrippedIs, Zenon
  <2> HIDE DEF t
  <2>3. QED
    BY <2>1, <2>2
<1>2. I # {}
  BY DEF IsConjunction, Contains
<1>3. a = Min(I)
  BY <1>2 DEF and_index, SelectInSeq
<1> HIDE DEF t, a
<1>4. a \in 1..Len(t)
  <2>1. I \subseteq Nat
    BY <1>1
  <2>2. \E n \in I : \A m \in I : n <= m
    BY <1>2, <2>1, LeastNumber
  <2>3. a \in I
    BY <1>3, <2>2 DEF Min
  <2>4. QED
    BY <2>3
<1>5. QED
  BY <1>1, <1>4 DEF a, t

(* predicate_effectiveness with e in place of itself. *)
Judge(e, s) ==
  LET t == Stripped(s)
  IN IF IsConjunction(t)
     THEN Conjoined(e[SubSeq(t, 1, and_index(t) - 1)], e[SubSeq(t, and_index(t) + 1, Len(t))])
     ELSE Alone(t)

Short(n) == {s \in Seq(Token) : Len(s) <= n}

(* e is predicate_effectiveness on what is no longer than n. *)
Judges(e, n) == \A s \in Short(n) : e[s] = Judge(e, s)

LEMMA JudgedAlike ==
  ASSUME NEW s \in Seq(Token), NEW e, NEW f,
         \A r \in Seq(Token) : Len(r) < Len(s) => e[r] = f[r]
  PROVE  Judge(e, s) = Judge(f, s)
<1> DEFINE t == Stripped(s)
           left == SubSeq(t, 1, and_index(t) - 1)
           right == SubSeq(t, and_index(t) + 1, Len(t))
<1>1. CASE IsConjunction(t)
  <2>1. /\ left \in Seq(Token) /\ Len(left) < Len(s)
        /\ right \in Seq(Token) /\ Len(right) < Len(s)
    BY <1>1, SidesAreShorter, Zenon
  <2>2. e[left] = f[left] /\ e[right] = f[right]
    BY <2>1, Zenon
  <2>3. QED
    BY <1>1, <2>2, Zenon DEF Judge
<1>2. CASE ~IsConjunction(t)
  BY <1>2, Zenon DEF Judge
<1>3. QED
  BY <1>1, <1>2

LEMMA JudgesAgree ==
  ASSUME NEW m \in Nat, NEW n \in Nat, NEW e, NEW f, Judges(e, m), Judges(f, n)
  PROVE  \A s \in Seq(Token) : Len(s) <= m /\ Len(s) <= n => e[s] = f[s]
<1> DEFINE Off == {s \in Seq(Token) : Len(s) <= m /\ Len(s) <= n /\ e[s] # f[s]}
           T == {Len(s) : s \in Off}
<1>1. SUFFICES ASSUME Off # {} PROVE FALSE
  OBVIOUS
<1>2. T \subseteq Nat /\ T # {}
  <2>1. \A s \in Off : Len(s) \in Nat
    OBVIOUS
  <2> HIDE DEF Off
  <2>2. QED
    BY <1>1, <2>1
<1>3. PICK k \in T : \A l \in T : k <= l
  BY <1>2, LeastNumber, Zenon
<1>4. PICK s \in Off : Len(s) = k
  BY <1>3
<1>5. \A r \in Seq(Token) : Len(r) < Len(s) => e[r] = f[r]
  <2>1. SUFFICES ASSUME NEW r \in Seq(Token), Len(r) < Len(s), e[r] # f[r]
                 PROVE  FALSE
    OBVIOUS
  <2>2. Len(r) \in Nat /\ Len(s) \in Nat
    OBVIOUS
  <2>3. r \in Off
    BY <1>4, <2>1, <2>2
  <2>4. Len(r) \in T
    BY <2>3
  <2>5. QED
    BY <1>3, <1>4, <2>1, <2>2, <2>4
<1>6. Judge(e, s) = Judge(f, s)
  BY <1>5, JudgedAlike, Zenon
<1>7. s \in Short(m) /\ s \in Short(n)
  BY DEF Short
<1>8. QED
  BY <1>6, <1>7, Zenon DEF Judges

LEMMA JudgesExist == \A n \in Nat : \E e : Judges(e, n)
<1> DEFINE T == {n \in Nat : \A e : ~Judges(e, n)}
<1>1. SUFFICES ASSUME T # {} PROVE FALSE
  OBVIOUS
<1>2. PICK n \in T : \A m \in T : n <= m
  BY <1>1, LeastNumber
<1>3. \E f : \A s \in Short(n) : \A r \in Seq(Token) : Len(r) < Len(s) => f[r] = Judge(f, r)
  <2>1. CASE n = 0
    BY <2>1 DEF Short
  <2>2. CASE n # 0
    <3>1. n - 1 \in Nat /\ n - 1 \notin T
      BY <1>2, <2>2
    <3>2. PICK f : Judges(f, n - 1)
      BY <3>1
    <3>3. ASSUME NEW s \in Short(n), NEW r \in Seq(Token), Len(r) < Len(s)
          PROVE  f[r] = Judge(f, r)
      <4>1. r \in Short(n - 1)
        BY <3>3, <2>2 DEF Short
      <4>2. QED
        BY <3>2, <4>1, Zenon DEF Judges
    <3>4. QED
      BY <3>3
  <2>3. QED
    BY <2>1, <2>2
<1>4. PICK f : \A s \in Short(n) : \A r \in Seq(Token) : Len(r) < Len(s) => f[r] = Judge(f, r)
  BY <1>3
<1> DEFINE e == [s \in Seq(Token) |-> Judge(f, s)]
<1>5. ASSUME NEW s \in Short(n)
      PROVE  e[s] = Judge(e, s)
  <2>1. s \in Seq(Token)
    BY DEF Short
  <2>2. \A r \in Seq(Token) : Len(r) < Len(s) => e[r] = f[r]
    BY <1>4
  <2>3. e[s] = Judge(f, s)
    BY <2>1
  <2> HIDE DEF e
  <2>4. Judge(e, s) = Judge(f, s)
    BY <2>1, <2>2, JudgedAlike, Zenon
  <2>5. QED
    BY <2>3, <2>4
<1> HIDE DEF e
<1>6. Judges(e, n)
  BY <1>5 DEF Judges
<1>7. QED
  BY <1>2, <1>6

(* predicate_effectiveness is what its definition says. *)
LEMMA PredicateEffectiveness ==
  \A s \in Seq(Token) : predicate_effectiveness[s] = Judge(predicate_effectiveness, s)
<1> DEFINE E(n) == CHOOSE e : Judges(e, n)
           f == [s \in Seq(Token) |-> E(Len(s))[s]]
<1>1. \A n \in Nat : Judges(E(n), n)
  BY JudgesExist, Zenon
<1> HIDE DEF E
<1>2. ASSUME NEW s \in Seq(Token)
      PROVE  f[s] = Judge(f, s)
  <2>1. Len(s) \in Nat /\ s \in Short(Len(s))
    BY DEF Short
  <2>2. f[s] = E(Len(s))[s] /\ E(Len(s))[s] = Judge(E(Len(s)), s)
    BY <1>1, <2>1 DEF Judges
  <2>3. ASSUME NEW r \in Seq(Token), Len(r) < Len(s)
        PROVE  E(Len(s))[r] = f[r]
    <3>1. Len(r) \in Nat /\ Len(r) <= Len(s) /\ Len(r) <= Len(r)
      BY <2>3
    <3>2. E(Len(s))[r] = E(Len(r))[r]
      <4>1. Judges(E(Len(s)), Len(s)) /\ Judges(E(Len(r)), Len(r))
        BY <1>1, <2>1, <3>1
      <4>2. \A q \in Seq(Token) : Len(q) <= Len(s) /\ Len(q) <= Len(r) =>
              E(Len(s))[q] = E(Len(r))[q]
        BY <2>1, <3>1, <4>1, JudgesAgree
      <4>3. QED
        BY <3>1, <4>2
    <3>3. QED
      BY <3>2
  <2> HIDE DEF f
  <2>4. Judge(E(Len(s)), s) = Judge(f, s)
    BY <2>3, JudgedAlike, Zenon
  <2>5. QED
    BY <2>2, <2>4
<1>3. f = [s \in Seq(Token) |-> Judge(f, s)]
  <2>1. f = [s \in Seq(Token) |-> f[s]]
    BY Zenon
  <2> HIDE DEF f
  <2>2. QED
    BY <1>2, <2>1, Zenon
<1> HIDE DEF f
<1>4. predicate_effectiveness = CHOOSE e : e = [s \in Seq(Token) |-> Judge(e, s)]
  BY Zenon DEF predicate_effectiveness, Judge
<1>5. predicate_effectiveness = [s \in Seq(Token) |-> Judge(predicate_effectiveness, s)]
  BY <1>3, <1>4, Zenon
<1>6. QED
  BY <1>5, Zenon

(* What makes three tokens effective. *)
EffectiveHead(left, operator, right) ==
  \/ /\ operator \in Comparison /\ left # right
     /\ is_identifier(left) \/ is_identifier(right)
  \/ operator \in {"IS", "IN"} /\ is_identifier(left)

(* Such three tokens stand behind nothing but opening parentheses. *)
Leads(s) ==
  \E k \in Nat : /\ k + 3 <= Len(s)
                 /\ \A i \in 1..k : s[i] = "("
                 /\ EffectiveHead(s[k + 1], s[k + 2], s[k + 3])

LEMMA ComparesIs ==
  ASSUME NEW t \in Seq(Token), Len(t) >= 3, Compares(t) = "Effective"
  PROVE  EffectiveHead(t[1], t[2], t[3])
BY DEF Compares, EffectiveHead

LEMMA AloneIs ==
  ASSUME NEW t \in Seq(Token), Alone(t) = "Effective"
  PROVE  ~Contains(t, "OR") /\ Leads(t)
<1>1. ~Contains(t, "OR") /\ Len(t) >= 3 /\ Compares(t) = "Effective"
  BY DEF Alone
<1>2. EffectiveHead(t[1], t[2], t[3])
  BY <1>1, ComparesIs
<1>3. QED
  BY <1>1, <1>2 DEF Leads

LEMMA EffectiveLeads ==
  \A s \in Seq(Token) : predicate_effectiveness[s] = "Effective" => ~Contains(s, "OR") /\ Leads(s)
<1> DEFINE e == predicate_effectiveness
           Off == {s \in Seq(Token) : e[s] = "Effective" /\ ~(~Contains(s, "OR") /\ Leads(s))}
           T == {Len(s) : s \in Off}
<1>1. SUFFICES ASSUME Off # {} PROVE FALSE
  OBVIOUS
<1>2. T \subseteq Nat /\ T # {}
  <2>1. \A s \in Off : Len(s) \in Nat
    OBVIOUS
  <2> HIDE DEF Off
  <2>2. QED
    BY <1>1, <2>1
<1>3. PICK k \in T : \A l \in T : k <= l
  BY <1>2, LeastNumber, Zenon
<1>4. PICK s \in Off : Len(s) = k
  BY <1>3
<1> DEFINE t == Stripped(s)
           left == SubSeq(t, 1, and_index(t) - 1)
           right == SubSeq(t, and_index(t) + 1, Len(t))
<1>5. s \in Seq(Token) /\ e[s] = Judge(e, s) /\ e[s] = "Effective"
  BY PredicateEffectiveness
<1>6. ~Contains(t, "OR") /\ Leads(t)
  <2>1. CASE IsConjunction(t)
    <3>1. /\ left \in Seq(Token) /\ Len(left) < Len(s) /\ Len(left) < Len(t)
          /\ \A i \in 1..Len(left) : left[i] = t[i]
      BY <1>5, <2>1, SidesAreShorter, Zenon
    <3>2. e[left] = "Effective"
      <4>1. Judge(e, s) = Conjoined(e[left], e[right])
        BY <2>1, Zenon DEF Judge
      <4>2. QED
        BY <1>5, <4>1 DEF Conjoined
    <3>3. Leads(left)
      <4>1. Len(left) \in Nat /\ Len(s) \in Nat
        BY <1>5, <3>1
      <4>2. left \notin Off
        <5>1. left \in Off => Len(left) \in T
          OBVIOUS
        <5> HIDE DEF Off, T, left
        <5>2. QED
          BY <1>3, <1>4, <3>1, <4>1, <5>1
      <4>3. QED
        BY <3>1, <3>2, <4>2
    <3>4. ~Contains(t, "OR")
      BY <2>1 DEF IsConjunction
    <3>5. t \in Seq(Token)
      BY <1>5, StrippedIs, Zenon
    <3> HIDE DEF t, left
    <3>6. Leads(t)
      <4>1. PICK j \in Nat : /\ j + 3 <= Len(left)
                             /\ \A i \in 1..j : left[i] = "("
                             /\ EffectiveHead(left[j + 1], left[j + 2], left[j + 3])
        BY <3>3 DEF Leads
      <4>2. Len(left) \in Nat /\ Len(t) \in Nat
        BY <3>1, <3>5
      <4>3. \A i \in 1..(j + 3) : left[i] = t[i]
        BY <3>1, <4>1, <4>2
      <4>4. t[j + 1] = left[j + 1] /\ t[j + 2] = left[j + 2] /\ t[j + 3] = left[j + 3]
        BY <4>3
      <4>5. j + 3 <= Len(t) /\ \A i \in 1..j : t[i] = "("
        BY <3>1, <4>1, <4>2, <4>3
      <4>6. EffectiveHead(t[j + 1], t[j + 2], t[j + 3])
        BY <4>1, <4>4
      <4>7. QED
        BY <4>5, <4>6 DEF Leads
    <3>7. QED
      BY <3>4, <3>6
  <2>2. CASE ~IsConjunction(t)
    <3>1. Alone(t) = "Effective"
      BY <1>5, <2>2, Zenon DEF Judge
    <3>2. t \in Seq(Token)
      BY <1>5, StrippedIs, Zenon
    <3>3. QED
      BY <3>1, <3>2, AloneIs, Zenon
  <2>3. QED
    BY <2>1, <2>2
<1>7. Leads(s) /\ ~Contains(s, "OR")
  <2>1. /\ t \in Seq(Token)
        /\ \E d \in {0, 1} : /\ Len(t) + d <= Len(s)
                             /\ d = 1 => s[1] = "("
                             /\ \A i \in 1..Len(t) : t[i] = s[i + d]
        /\ \A i \in 1..Len(s) : s[i] \in {"(", ")"} \/ \E j \in 1..Len(t) : t[j] = s[i]
    BY <1>5, StrippedIs, Zenon
  <2> HIDE DEF t
  <2>2. ~Contains(s, "OR")
    <3>1. ASSUME NEW i \in 1..Len(s), s[i] = "OR" PROVE FALSE
      BY <1>6, <2>1, <3>1 DEF Contains
    <3>2. QED
      BY <3>1 DEF Contains
  <2>3. PICK d \in {0, 1} : /\ Len(t) + d <= Len(s)
                            /\ d = 1 => s[1] = "("
                            /\ \A i \in 1..Len(t) : t[i] = s[i + d]
    BY <2>1
  <2>4. PICK j \in Nat : /\ j + 3 <= Len(t)
                         /\ \A i \in 1..j : t[i] = "("
                         /\ EffectiveHead(t[j + 1], t[j + 2], t[j + 3])
    BY <1>6 DEF Leads
  <2>5. Len(t) \in Nat /\ Len(s) \in Nat
    BY <1>5, <2>1
  <2>6. /\ t[j + 1] = s[j + d + 1] /\ t[j + 2] = s[j + d + 2] /\ t[j + 3] = s[j + d + 3]
    BY <2>3, <2>4, <2>5
  <2>7. j + d \in Nat /\ j + d + 3 <= Len(s)
    BY <2>3, <2>4, <2>5
  <2>8. \A i \in 1..(j + d) : s[i] = "("
    <3>1. ASSUME NEW i \in 1..(j + d) PROVE s[i] = "("
      <4>1. CASE d = 0
        BY <2>3, <2>4, <2>5, <4>1
      <4>2. CASE d = 1 /\ i = 1
        BY <2>3, <4>2
      <4>3. CASE d = 1 /\ i # 1
        <5>1. i - 1 \in 1..j /\ i - 1 \in 1..Len(t)
          BY <2>4, <2>5, <4>3
        <5>2. t[i - 1] = s[(i - 1) + d] /\ (i - 1) + d = i
          BY <2>3, <4>3, <5>1
        <5>3. QED
          BY <2>4, <5>1, <5>2
      <4>4. QED
        BY <4>1, <4>2, <4>3
    <3>2. QED
      BY <3>1
  <2>9. EffectiveHead(s[j + d + 1], s[j + d + 2], s[j + d + 3])
    BY <2>4, <2>6
  <2>10. QED
    BY <2>2, <2>7, <2>8, <2>9 DEF Leads
<1>8. QED
  BY <1>7

-----------------------------------------------------------------------------
(* The predicates, and what they start with *)

Operand == Column \cup Number
Sign == {"=", "<", ">", "<>", "<=", ">="}

(* A comparison that is not "no less than itself" (or "no more"), which     *)
(* sql.rs takes for effective: its sign is two tokens.                      *)
Comparisons ==
  {Compare(c[1], c[2], c[3]) :
     c \in {d \in Operand \X Sign \X Operand : d[1] = d[3] => d[2] \notin {"<=", ">="}}}

Leaves ==
  Comparisons
  \cup {Among(c[1], c[2]) : c \in {d \in Operand \X Operand : d[1] # d[2]}}
  \cup {Between(c[1], c[2], c[3]) : c \in Operand \X Operand \X Operand}
  \cup {Word(<<"TRUE">>, TRUE), Word(<<"FALSE">>, FALSE), Word(<<"?", "=", "?">>, TRUE)}
  \cup {Word(<<c, "IS", "NULL">>, FALSE) : c \in Column}

Written == [tokens : Seq(Token), rows : SUBSET Row]

Closed(F) ==
  /\ Leaves \subseteq F
  /\ \A p, q \in F : {Not(p), Group(p), And(p, q), Or(p, q)} \subseteq F

(* The predicates of any size: what every closed set has. *)
Formulas == {p \in Written : \A F \in SUBSET Written : Closed(F) => p \in F}

(* How a predicate starts and ends. *)
Starts == Column \cup Number \cup {"TRUE", "FALSE", "NOT", "?", "("}
Ends == Column \cup Number \cup {"TRUE", "FALSE", "NULL", "?", ")"}

Sure(p) ==
  /\ p \in Written
  /\ Len(p.tokens) >= 1 /\ p.tokens[1] \in Starts /\ p.tokens[Len(p.tokens)] \in Ends
  /\ ~Contains(p.tokens, "OR") /\ Leads(p.tokens) => p.rows # Row

LEMMA WordTokens ==
  /\ Operand \subseteq Token /\ Operand \subseteq Starts /\ Operand \subseteq Ends
  /\ Starts \subseteq Token /\ Ends \subseteq Token
  /\ {"AND", "OR", "IN", "IS", "BETWEEN"} \subseteq Token
  /\ Sign \ {"<>"} \subseteq Token
BY DEF Operand, Starts, Ends, Token, Column, Number, Keyword, Comparison, Sign

(* Where the first token opens nothing, the first three are judged. *)
LEMMA NothingOpened ==
  ASSUME NEW s \in Seq(Token), Leads(s), s[1] # "("
  PROVE  Len(s) >= 3 /\ EffectiveHead(s[1], s[2], s[3])
<1>1. PICK k \in Nat : /\ k + 3 <= Len(s)
                       /\ \A i \in 1..k : s[i] = "("
                       /\ EffectiveHead(s[k + 1], s[k + 2], s[k + 3])
  BY DEF Leads
<1>2. k = 0
  BY <1>1
<1>3. QED
  BY <1>1, <1>2

Flat(n) == [c \in Column |-> n]
Peak(x) == [c \in Column |-> IF c = x THEN 3 ELSE 0]

LEMMA Rows ==
  /\ \A n \in 0..3 : Flat(n) \in Row /\ \A c \in Column : Flat(n)[c] = n
  /\ \A x \in Column : Peak(x) \in Row /\ \A c \in Column : Peak(x)[c] = IF c = x THEN 3 ELSE 0
  /\ {} # Row
<1>1. \A n \in 0..3 : Flat(n) \in Row /\ \A c \in Column : Flat(n)[c] = n
  BY DEF Flat, Row
<1>2. \A x \in Column : Peak(x) \in Row /\ \A c \in Column : Peak(x)[c] = IF c = x THEN 3 ELSE 0
  BY DEF Peak, Row
<1>3. Flat(0) \in Row
  BY <1>1
<1>4. QED
  BY <1>1, <1>2, <1>3

LEMMA ValueIs ==
  ASSUME NEW x \in Operand, NEW row \in Row
  PROVE  /\ x \in Column => ValueOf(x, row) = row[x]
         /\ x \in Number => ValueOf(x, row) = IF x = "1" THEN 1 ELSE 2
         /\ ValueOf(x, row) \in 0..3
BY DEF Operand, Column, Number, ValueOf, Row

(* Two operands of which one is a column may be in any order. *)
LEMMA Ordered ==
  ASSUME NEW l \in Operand, NEW r \in Operand, l # r, l \in Column \/ r \in Column
  PROVE  /\ \E row \in Row : ValueOf(l, row) > ValueOf(r, row)
         /\ \E row \in Row : ValueOf(l, row) = ValueOf(r, row)
<1>1. CASE l \in Column
  <2>1. ValueOf(l, Peak(l)) = 3 /\ ValueOf(r, Peak(l)) \in {0, 1, 2}
    BY <1>1, Rows, ValueIs DEF Operand
  <2>2. \A n \in 0..3 : ValueOf(l, Flat(n)) = n
    BY <1>1, Rows, ValueIs
  <2>3. \E n \in 0..3 : ValueOf(r, Flat(n)) = n
    <3>1. CASE r \in Column
      BY <3>1, Rows, ValueIs
    <3>2. CASE r \in Number
      <4>1. ValueOf(r, Flat(1)) = 1 \/ ValueOf(r, Flat(2)) = 2
        BY <3>2, Rows, ValueIs
      <4>2. QED
        BY <4>1
    <3>3. QED
      BY <3>1, <3>2 DEF Operand
  <2>4. PICK n \in 0..3 : ValueOf(r, Flat(n)) = n
    BY <2>3
  <2>5. Flat(n) \in Row /\ ValueOf(l, Flat(n)) = ValueOf(r, Flat(n))
    BY <2>2, <2>4, Rows
  <2>6. Peak(l) \in Row /\ ValueOf(l, Peak(l)) > ValueOf(r, Peak(l))
    BY <1>1, <2>1, Rows
  <2>7. QED
    BY <2>5, <2>6
<1>2. CASE l \in Number /\ r \in Column
  <2>1. Flat(0) \in Row /\ ValueOf(r, Flat(0)) = 0 /\ ValueOf(l, Flat(0)) \in {1, 2}
    BY <1>2, Rows, ValueIs
  <2>2. PICK n \in {1, 2} : \A row \in Row : ValueOf(l, row) = n
    <3>1. \A row \in Row : ValueOf(l, row) = IF l = "1" THEN 1 ELSE 2
      BY <1>2, ValueIs
    <3>2. QED
      BY <3>1
  <2>3. Flat(n) \in Row /\ ValueOf(r, Flat(n)) = n
    BY <1>2, Rows, ValueIs
  <2>4. ValueOf(l, Flat(0)) > ValueOf(r, Flat(0))
    BY <2>1
  <2>5. QED
    BY <2>1, <2>2, <2>3, <2>4
<1>3. QED
  BY <1>1, <1>2 DEF Operand

(* An effective comparison leaves a row out. *)
LEMMA CompareLeaves ==
  ASSUME NEW l \in Operand, NEW sign \in Sign, NEW r \in Operand,
         l # r, l \in Column \/ r \in Column
  PROVE  Compare(l, sign, r).rows # Row
<1>1. SUFFICES \E row \in Row : ~Holds(ValueOf(l, row), sign, ValueOf(r, row))
  BY DEF Compare
<1>2. PICK more \in Row : ValueOf(l, more) > ValueOf(r, more)
  BY Ordered
<1>3. PICK less \in Row : ValueOf(r, less) > ValueOf(l, less)
  BY Ordered
<1>4. PICK same \in Row : ValueOf(l, same) = ValueOf(r, same)
  BY Ordered
<1>5. \A row \in Row : ValueOf(l, row) \in Int /\ ValueOf(r, row) \in Int
  BY ValueIs
<1>6. CASE sign \in {"=", "<", "<="}
  <2>1. ~Holds(ValueOf(l, more), "=", ValueOf(r, more))
    BY <1>2, <1>5 DEF Holds
  <2>2. ~Holds(ValueOf(l, more), "<", ValueOf(r, more))
    BY <1>2, <1>5 DEF Holds
  <2>3. ~Holds(ValueOf(l, more), "<=", ValueOf(r, more))
    BY <1>2, <1>5 DEF Holds
  <2>4. QED
    BY <1>6, <2>1, <2>2, <2>3
<1>7. CASE sign \in {">", ">="}
  <2>1. ~Holds(ValueOf(l, less), ">", ValueOf(r, less))
    BY <1>3, <1>5 DEF Holds
  <2>2. ~Holds(ValueOf(l, less), ">=", ValueOf(r, less))
    BY <1>3, <1>5 DEF Holds
  <2>3. QED
    BY <1>7, <2>1, <2>2
<1>8. CASE sign = "<>"
  BY <1>4, <1>8 DEF Holds
<1>9. QED
  BY <1>6, <1>7, <1>8 DEF Sign

LEMMA Joined ==
  ASSUME NEW s \in Seq(Token), NEW t \in Seq(Token)
  PROVE  /\ s \o t \in Seq(Token) /\ Len(s \o t) = Len(s) + Len(t)
         /\ \A i \in 1..Len(s) : (s \o t)[i] = s[i]
         /\ \A i \in 1..Len(t) : (s \o t)[Len(s) + i] = t[i]
OBVIOUS

LEMMA CompareTokens ==
  ASSUME NEW l \in Operand, NEW sign \in Sign, NEW r \in Operand
  PROVE  LET s == Compare(l, sign, r).tokens
         IN /\ s \in Seq(Token) /\ s[1] = l /\ s[Len(s)] = r
            /\ sign \in {"=", "<", ">"} => Len(s) = 3 /\ s[2] = sign
            /\ sign \notin {"=", "<", ">"} =>
                 Len(s) = 4 /\ s[2] \in {"<", ">"} /\ s[3] \in {">", "="}
<1> DEFINE m == SignTokens(sign)
           s == (<<l>> \o m) \o <<r>>
<1>1. /\ m \in Seq(Token)
      /\ sign \in {"=", "<", ">"} => Len(m) = 1 /\ m[1] = sign
      /\ sign \notin {"=", "<", ">"} => Len(m) = 2 /\ m[1] \in {"<", ">"} /\ m[2] \in {">", "="}
  <2>2. CASE sign \in {"=", "<", ">"}
    <3>1. m = <<sign>>
      BY <2>2 DEF SignTokens
    <3>2. sign \in Token
      BY <2>2 DEF Token, Comparison
    <3>3. QED
      BY <2>2, <3>1, <3>2
  <2>3. CASE sign \in {"<>", "<=", ">="}
    <3>1. PICK a \in {"<", ">"}, b \in {">", "="} : m = <<a, b>>
      BY <2>3 DEF SignTokens
    <3>2. a \in Token /\ b \in Token
      BY DEF Token, Comparison
    <3>3. QED
      BY <2>3, <3>1, <3>2
  <2>4. QED
    BY <2>2, <2>3 DEF Sign
<1> HIDE DEF m
<1>2. /\ <<l>> \in Seq(Token) /\ Len(<<l>>) = 1 /\ <<l>>[1] = l
      /\ <<r>> \in Seq(Token) /\ Len(<<r>>) = 1 /\ <<r>>[1] = r
  BY WordTokens
<1> DEFINE h == <<l>> \o m
<1>3. /\ h \in Seq(Token) /\ Len(h) = Len(m) + 1 /\ h[1] = l
      /\ \A i \in 1..Len(m) : h[i + 1] = m[i]
  BY <1>1, <1>2, Joined
<1> HIDE DEF h
<1>4. /\ h \o <<r>> \in Seq(Token) /\ Len(h \o <<r>>) = Len(h) + 1
      /\ \A i \in 1..Len(h) : (h \o <<r>>)[i] = h[i]
      /\ (h \o <<r>>)[Len(h) + 1] = r
  BY <1>2, <1>3, Joined
<1>5. s \in Seq(Token) /\ Len(s) = Len(m) + 2 /\ s[1] = l /\ s[Len(s)] = r
  BY <1>1, <1>3, <1>4 DEF h
<1>6. \A i \in 1..Len(m) : s[i + 1] = m[i]
  <2>1. \A i \in 1..Len(m) : i + 1 \in 1..Len(h)
    BY <1>1, <1>3
  <2>2. QED
    BY <1>3, <1>4, <2>1 DEF h
<1> HIDE DEF s
<1>7. /\ sign \in {"=", "<", ">"} => Len(s) = 3 /\ s[2] = sign
      /\ sign \notin {"=", "<", ">"} =>
           Len(s) = 4 /\ s[2] \in {"<", ">"} /\ s[3] \in {">", "="}
  BY <1>1, <1>5, <1>6
<1>8. Compare(l, sign, r).tokens = s
  BY DEF Compare, s, m
<1>9. QED
  BY <1>5, <1>7, <1>8

(* What is to be shown of a predicate that does not start with "(". *)
LEMMA SureIf ==
  ASSUME NEW p \in Written, Len(p.tokens) >= 1,
         p.tokens[1] \in Starts \ {"("}, p.tokens[Len(p.tokens)] \in Ends,
         Len(p.tokens) >= 3 /\ EffectiveHead(p.tokens[1], p.tokens[2], p.tokens[3]) => p.rows # Row
  PROVE  Sure(p)
<1>1. p.tokens \in Seq(Token)
  BY DEF Written
<1>2. Leads(p.tokens) => p.rows # Row
  BY <1>1, NothingOpened
<1>3. QED
  BY <1>2 DEF Sure

LEMMA CompareIsSure ==
  ASSUME NEW l \in Operand, NEW sign \in Sign, NEW r \in Operand,
         l = r => sign \notin {"<=", ">="}
  PROVE  Sure(Compare(l, sign, r))
<1> DEFINE p == Compare(l, sign, r)
<1>1. p.rows \in SUBSET Row /\ p = [tokens |-> p.tokens, rows |-> p.rows]
  BY DEF Compare
<1>2. /\ p.tokens \in Seq(Token) /\ p.tokens[1] = l /\ p.tokens[Len(p.tokens)] = r
      /\ sign \in {"=", "<", ">"} => Len(p.tokens) = 3 /\ p.tokens[2] = sign
      /\ sign \notin {"=", "<", ">"} =>
           Len(p.tokens) = 4 /\ p.tokens[2] \in {"<", ">"} /\ p.tokens[3] \in {">", "="}
  BY CompareTokens, Zenon
<1>3. l = r /\ sign = "<>" => p.rows = {}
  <2>1. ASSUME l = r, sign = "<>"
        PROVE  \A row \in Row : ~Holds(ValueOf(l, row), sign, ValueOf(r, row))
    BY <2>1 DEF Holds
  <2>2. QED
    BY <2>1 DEF Compare
<1>4. l # r /\ (l \in Column \/ r \in Column) => p.rows # Row
  BY CompareLeaves
<1> HIDE DEF p
<1>5. \A x \in Operand : is_identifier(x) <=> x \in Column
  BY DEF is_identifier, Operand, Column, Name, Number, Keyword
<1>6. l \in Starts \ {"("} /\ r \in Ends
  BY WordTokens DEF Operand, Column, Number
<1>7. p \in Written
  BY <1>1, <1>2 DEF Written
<1>8. EffectiveHead(p.tokens[1], p.tokens[2], p.tokens[3]) => p.rows # Row
  <2>1. CASE sign \in {"=", "<", ">"}
    <3>1. EffectiveHead(l, sign, r) => p.rows # Row
      BY <1>4, <1>5, <2>1 DEF EffectiveHead
    <3>2. QED
      BY <1>2, <2>1, <3>1
  <2>2. CASE sign \notin {"=", "<", ">"}
    <3>1. ~is_identifier(">") /\ ~is_identifier("=")
      BY DEF is_identifier, Column, Name, Keyword
    <3>2. EffectiveHead(p.tokens[1], p.tokens[2], p.tokens[3]) => l \in Column
      BY <1>2, <1>5, <2>2, <3>1 DEF EffectiveHead
    <3>3. l \in Column => p.rows # Row
      BY <1>3, <1>4, <2>2, Rows DEF Sign
    <3>4. QED
      BY <3>2, <3>3
  <2>3. QED
    BY <2>1, <2>2
<1>9. Len(p.tokens) >= 1
  BY <1>2
<1>10. Sure(p)
  BY <1>2, <1>6, <1>7, <1>8, <1>9, SureIf
<1>11. QED
  BY <1>10 DEF p

LEMMA LeavesAreSure == \A p \in Leaves : Sure(p)
<1>1. ASSUME NEW p \in Comparisons PROVE Sure(p)
  <2>1. PICK c \in Operand \X Sign \X Operand :
           /\ c[1] = c[3] => c[2] \notin {"<=", ">="}
           /\ p = Compare(c[1], c[2], c[3])
    BY <1>1 DEF Comparisons
  <2>2. c[1] \in Operand /\ c[2] \in Sign /\ c[3] \in Operand
    OBVIOUS
  <2>3. QED
    BY <2>1, <2>2, CompareIsSure
<1>2. ASSUME NEW l \in Operand, NEW r \in Operand, l # r PROVE Sure(Among(l, r))
  <2> DEFINE p == Among(l, r)
  <2>1. p = [tokens |-> <<l, "IN", "(", r, ")">>, rows |-> Compare(l, "=", r).rows]
    BY DEF Among
  <2>2. Compare(l, "=", r).rows \in SUBSET Row
    BY DEF Compare
  <2>3. is_identifier(l) => l \in Column
    BY DEF is_identifier, Operand, Column, Name, Number, Keyword
  <2>4. l \in Column => p.rows # Row
    BY <1>2, <2>1, CompareLeaves DEF Sign
  <2>5. {l, r, "IN", "(", ")"} \subseteq Token /\ l \in Starts \ {"("} /\ ")" \in Ends
    BY WordTokens DEF Token, Keyword, Operand, Column, Number, Ends
  <2> HIDE DEF p
  <2>6. /\ p \in Written /\ Len(p.tokens) = 5 /\ p.tokens[1] = l /\ p.tokens[2] = "IN"
        /\ p.tokens[5] = ")"
    BY <2>1, <2>2, <2>5 DEF Written
  <2>7. EffectiveHead(p.tokens[1], p.tokens[2], p.tokens[3]) => p.rows # Row
    BY <2>3, <2>4, <2>6 DEF EffectiveHead, Comparison
  <2>8. Sure(p)
    BY <2>5, <2>6, <2>7, SureIf
  <2>9. QED
    BY <2>8 DEF p
<1>3. ASSUME NEW l \in Operand, NEW low \in Operand, NEW high \in Operand
      PROVE  Sure(Between(l, low, high))
  <2> DEFINE p == Between(l, low, high)
             rows == Compare(l, ">=", low).rows \cap Compare(l, "<=", high).rows
  <2>1. p = [tokens |-> <<l, "BETWEEN", low, "AND", high>>, rows |-> rows]
    BY DEF Between
  <2>2. rows \in SUBSET Row
    BY DEF Compare
  <2>3. /\ {l, low, high, "BETWEEN", "AND"} \subseteq Token
        /\ l \in Starts \ {"("} /\ high \in Ends
    BY WordTokens DEF Operand, Column, Number
  <2> HIDE DEF p, rows
  <2>4. /\ p \in Written /\ Len(p.tokens) = 5 /\ p.tokens[1] = l /\ p.tokens[2] = "BETWEEN"
        /\ p.tokens[5] = high
    BY <2>1, <2>2, <2>3 DEF Written
  <2>5. ~EffectiveHead(p.tokens[1], p.tokens[2], p.tokens[3])
    BY <2>4 DEF EffectiveHead, Comparison
  <2>6. Sure(p)
    BY <2>3, <2>4, <2>5, SureIf
  <2>7. QED
    BY <2>6 DEF p
<1>4. ASSUME NEW w \in {"TRUE", "FALSE"}, NEW b \in BOOLEAN PROVE Sure(Word(<<w>>, b))
  <2> DEFINE p == Word(<<w>>, b)
  <2>1. p = [tokens |-> <<w>>, rows |-> IF b THEN Row ELSE {}]
    BY DEF Word
  <2>2. w \in Token /\ w \in Starts \ {"("} /\ w \in Ends
    BY DEF Token, Keyword, Starts, Ends
  <2> HIDE DEF p
  <2>3. p \in Written /\ Len(p.tokens) = 1 /\ p.tokens[1] = w
    BY <2>1, <2>2 DEF Written
  <2>4. Sure(p)
    BY <2>2, <2>3, SureIf
  <2>5. QED
    BY <2>4 DEF p
<1>5. Sure(Word(<<"?", "=", "?">>, TRUE))
  <2> DEFINE p == Word(<<"?", "=", "?">>, TRUE)
  <2>1. p = [tokens |-> <<"?", "=", "?">>, rows |-> Row]
    BY DEF Word
  <2>2. {"?", "="} \subseteq Token /\ "?" \in Starts \ {"("} /\ "?" \in Ends
    BY DEF Token, Starts, Ends, Comparison
  <2> HIDE DEF p
  <2>3. /\ p \in Written /\ Len(p.tokens) = 3
        /\ p.tokens[1] = "?" /\ p.tokens[2] = "=" /\ p.tokens[3] = "?"
    BY <2>1, <2>2 DEF Written
  <2>4. ~EffectiveHead("?", "=", "?")
    BY DEF EffectiveHead
  <2>5. Sure(p)
    BY <2>2, <2>3, <2>4, SureIf
  <2>6. QED
    BY <2>5 DEF p
<1>6. ASSUME NEW c \in Column PROVE Sure(Word(<<c, "IS", "NULL">>, FALSE))
  <2> DEFINE p == Word(<<c, "IS", "NULL">>, FALSE)
  <2>1. p = [tokens |-> <<c, "IS", "NULL">>, rows |-> {}]
    BY DEF Word
  <2>2. {c, "IS", "NULL"} \subseteq Token /\ c \in Starts \ {"("} /\ "NULL" \in Ends
    BY DEF Token, Keyword, Starts, Ends, Column
  <2> HIDE DEF p
  <2>3. p \in Written /\ Len(p.tokens) = 3 /\ p.tokens[1] = c /\ p.tokens[3] = "NULL"
    BY <2>1, <2>2 DEF Written
  <2>4. p.rows # Row
    BY <2>1, Rows
  <2>5. Sure(p)
    BY <2>2, <2>3, <2>4, SureIf
  <2>6. QED
    BY <2>5 DEF p
<1>7. ASSUME NEW p \in Leaves PROVE Sure(p)
  <2>1. CASE p \in Comparisons
    BY <1>1, <2>1
  <2>2. CASE \E c \in Operand \X Operand : c[1] # c[2] /\ p = Among(c[1], c[2])
    BY <1>2, <2>2
  <2>3. CASE \E c \in Operand \X Operand \X Operand : p = Between(c[1], c[2], c[3])
    BY <1>3, <2>3
  <2>4. CASE p \in {Word(<<"TRUE">>, TRUE), Word(<<"FALSE">>, FALSE)}
    BY <1>4, <2>4
  <2>5. CASE p = Word(<<"?", "=", "?">>, TRUE)
    BY <1>5, <2>5
  <2>6. CASE \E c \in Column : p = Word(<<c, "IS", "NULL">>, FALSE)
    BY <1>6, <2>6
  <2>7. QED
    BY <2>1, <2>2, <2>3, <2>4, <2>5, <2>6 DEF Leaves
<1>8. QED
  BY <1>7

(* What may stand behind a part of a predicate, or behind all of it. *)
Clause == {"RETURNING", "ORDER", "LIMIT"}
Sequel == {"AND", ")"} \cup Clause

LEMMA NoOperator ==
  /\ \A a, op, b : EffectiveHead(a, op, b) => op \notin Starts \cup Ends \cup Sequel
  /\ "(" \notin Ends
BY DEF EffectiveHead, Comparison, Starts, Ends, Column, Number, Sequel, Clause

(* What leads a longer predicate leads its first part. *)
LEMMA LeadsInFront ==
  ASSUME NEW s \in Seq(Token), NEW t \in Seq(Token), Len(s) >= 1, s[Len(s)] \in Ends,
         Len(t) >= 1, t[1] \in Sequel, Leads(s \o t)
  PROVE  Leads(s)
<1> DEFINE u == s \o t
<1>1. /\ u \in Seq(Token) /\ Len(u) = Len(s) + Len(t)
      /\ \A i \in 1..Len(s) : u[i] = s[i]
      /\ \A i \in 1..Len(t) : u[Len(s) + i] = t[i]
  BY Joined
<1>2. Len(s) \in Nat /\ Len(t) \in Nat
  OBVIOUS
<1>3. PICK k \in Nat : /\ k + 3 <= Len(u)
                       /\ \A i \in 1..k : u[i] = "("
                       /\ EffectiveHead(u[k + 1], u[k + 2], u[k + 3])
  BY DEF Leads
<1> HIDE DEF u
<1>4. u[Len(s)] \in Ends
  <2>1. Len(s) \in 1..Len(s)
    BY <1>2
  <2>2. u[Len(s)] = s[Len(s)]
    BY <1>1, <2>1, Zenon
  <2>3. QED
    BY <2>2
<1>5. u[Len(s) + 1] \in Sequel
  BY <1>1, <1>2
<1>6. k < Len(s)
  <2>1. Len(s) \notin 1..k
    BY <1>3, <1>4, NoOperator
  <2>2. QED
    BY <1>2, <2>1
<1>7. k + 2 # Len(s) + 1 /\ k + 2 # Len(s)
  BY <1>3, <1>4, <1>5, NoOperator
<1>8. k + 3 <= Len(s)
  BY <1>2, <1>6, <1>7
<1>9. /\ u[k + 1] = s[k + 1] /\ u[k + 2] = s[k + 2] /\ u[k + 3] = s[k + 3]
      /\ \A i \in 1..k : u[i] = s[i]
  <2>1. {k + 1, k + 2, k + 3} \cup 1..k \subseteq 1..Len(s)
    BY <1>2, <1>8
  <2>2. \A i \in {k + 1, k + 2, k + 3} \cup 1..k : u[i] = s[i]
    BY <1>1, <2>1, Zenon
  <2>3. QED
    BY <2>2
<1>10. EffectiveHead(s[k + 1], s[k + 2], s[k + 3])
  BY <1>3, <1>9
<1>11. QED
  BY <1>3, <1>8, <1>9, <1>10 DEF Leads

(* What leads a group leads what is in it. *)
LEMMA LeadsInside ==
  ASSUME NEW s \in Seq(Token), Len(s) >= 1, s[1] \in Starts, Leads(<<"(">> \o s)
  PROVE  Leads(s)
<1> DEFINE u == <<"(">> \o s
<1>1. <<"(">> \in Seq(Token) /\ Len(<<"(">>) = 1
  BY DEF Token
<1>2. u \in Seq(Token) /\ Len(u) = Len(s) + 1 /\ \A i \in 1..Len(s) : u[1 + i] = s[i]
  BY <1>1, Joined
<1>3. PICK k \in Nat : /\ k + 3 <= Len(u)
                       /\ \A i \in 1..k : u[i] = "("
                       /\ EffectiveHead(u[k + 1], u[k + 2], u[k + 3])
  BY DEF Leads
<1> HIDE DEF u
<1>4. Len(s) \in Nat
  OBVIOUS
<1>5. k # 0
  <2>1. u[2] \in Starts
    BY <1>2, <1>4
  <2>2. QED
    BY <1>3, <2>1, NoOperator
<1> DEFINE j == k - 1
<1>6. j \in Nat /\ j + 3 <= Len(s)
  BY <1>2, <1>3, <1>4, <1>5
<1>7. u[k + 1] = s[j + 1] /\ u[k + 2] = s[j + 2] /\ u[k + 3] = s[j + 3]
  <2>1. {j + 1, j + 2, j + 3} \subseteq 1..Len(s)
    BY <1>4, <1>6
  <2>2. \A i \in {j + 1, j + 2, j + 3} : u[1 + i] = s[i]
    BY <1>2, <2>1, Zenon
  <2>3. k + 1 = 1 + (j + 1) /\ k + 2 = 1 + (j + 2) /\ k + 3 = 1 + (j + 3)
    BY <1>5
  <2>4. QED
    BY <2>2, <2>3
<1>8. \A i \in 1..j : s[i] = "("
  <2>1. ASSUME NEW i \in 1..j PROVE s[i] = "("
    <3>1. i \in 1..Len(s) /\ 1 + i \in 1..k
      BY <1>3, <1>4, <1>5, <1>6
    <3>2. QED
      BY <1>2, <1>3, <3>1
  <2>2. QED
    BY <2>1
<1>9. EffectiveHead(s[j + 1], s[j + 2], s[j + 3])
  BY <1>3, <1>7
<1> HIDE DEF j
<1>10. QED
  BY <1>6, <1>8, <1>9 DEF Leads

LEMMA ContainsEither ==
  ASSUME NEW s \in Seq(Token), NEW t \in Seq(Token), NEW x
  PROVE  Contains(s, x) \/ Contains(t, x) => Contains(s \o t, x)
<1>1. ASSUME Contains(s, x) PROVE Contains(s \o t, x)
  <2>1. PICK i \in 1..Len(s) : s[i] = x
    BY <1>1 DEF Contains
  <2>2. i \in 1..Len(s \o t) /\ (s \o t)[i] = x
    BY <2>1, Joined
  <2>3. QED
    BY <2>2 DEF Contains
<1>2. ASSUME Contains(t, x) PROVE Contains(s \o t, x)
  <2>1. PICK i \in 1..Len(t) : t[i] = x
    BY <1>2 DEF Contains
  <2>2. Len(s) + i \in 1..Len(s \o t) /\ (s \o t)[Len(s) + i] = x
    BY <2>1, Joined
  <2>3. QED
    BY <2>2 DEF Contains
<1>3. QED
  BY <1>1, <1>2

LEMMA SureIs ==
  ASSUME NEW p, Sure(p)
  PROVE  /\ p.tokens \in Seq(Token) /\ Len(p.tokens) \in Nat /\ Len(p.tokens) >= 1
         /\ p.tokens[1] \in Starts /\ p.tokens[Len(p.tokens)] \in Ends
         /\ p.rows \in SUBSET Row
BY DEF Sure, Written

LEMMA NotIsSure ==
  ASSUME NEW p, Sure(p)
  PROVE  Sure(Not(p))
<1> DEFINE q == Not(p)
           s == p.tokens
           u == <<"NOT">> \o s
<1>1. q = [tokens |-> u, rows |-> Row \ p.rows]
  BY DEF Not
<1>2. /\ s \in Seq(Token) /\ Len(s) \in Nat /\ Len(s) >= 1 /\ s[1] \in Starts /\ s[Len(s)] \in Ends
  BY SureIs
<1> HIDE DEF s, q
<1>3. <<"NOT">> \in Seq(Token) /\ Len(<<"NOT">>) = 1 /\ <<"NOT">>[1] = "NOT"
  BY DEF Token, Keyword
<1>4. /\ u \in Seq(Token) /\ Len(u) = Len(s) + 1 /\ u[1] = "NOT" /\ u[2] \in Starts
      /\ u[Len(u)] \in Ends
  BY <1>2, <1>3, Joined
<1> HIDE DEF u
<1>5. q \in Written /\ q.tokens = u
  BY <1>1, <1>4 DEF Written
<1>6. ~EffectiveHead(u[1], u[2], u[3])
  BY <1>4, NoOperator
<1>7. "NOT" \in Starts \ {"("}
  BY DEF Starts
<1>8. Len(u) >= 1
  BY <1>2, <1>4
<1>9. Sure(q)
  BY <1>4, <1>5, <1>6, <1>7, <1>8, SureIf
<1>10. QED
  BY <1>9 DEF q

(* p, q and the sign between them, in a predicate that is read from the     *)
(* left.                                                                    *)
LEMMA BothTokens ==
  ASSUME NEW p, NEW q, Sure(p), Sure(q), NEW w \in {"AND", "OR"}
  PROVE  LET u == (p.tokens \o <<w>>) \o q.tokens
         IN /\ u \in Seq(Token) /\ Len(u) >= 1 /\ u[1] \in Starts /\ u[Len(u)] \in Ends
            /\ Contains(u, w)
            /\ Contains(p.tokens, "OR") => Contains(u, "OR")
            /\ w = "AND" /\ Leads(u) => Leads(p.tokens)
<1> DEFINE s == p.tokens
           r == q.tokens
           v == <<w>>
           m == v \o r
           u == (s \o v) \o r
<1>1. /\ s \in Seq(Token) /\ Len(s) \in Nat /\ Len(s) >= 1 /\ s[1] \in Starts /\ s[Len(s)] \in Ends
      /\ r \in Seq(Token) /\ Len(r) \in Nat /\ Len(r) >= 1 /\ r[1] \in Starts /\ r[Len(r)] \in Ends
  BY SureIs
<1>2. v \in Seq(Token) /\ Len(v) = 1 /\ v[1] = w
  BY DEF Token, Keyword
<1> HIDE DEF s, r, v
<1>3. u = s \o m
  BY <1>1, <1>2, ConcatAssociative
<1>4. /\ m \in Seq(Token) /\ Len(m) = Len(r) + 1 /\ m[1] = w /\ m[Len(m)] \in Ends
  <2>1. /\ m \in Seq(Token) /\ Len(m) = Len(v) + Len(r)
        /\ \A i \in 1..Len(v) : m[i] = v[i]
        /\ \A i \in 1..Len(r) : m[Len(v) + i] = r[i]
    BY <1>1, <1>2, Joined
  <2> HIDE DEF m
  <2>2. Len(r) \in 1..Len(r) /\ 1 \in 1..1
    BY <1>1
  <2>3. m[1] = v[1] /\ m[1 + Len(r)] = r[Len(r)]
    BY <1>2, <2>1, <2>2
  <2>4. QED
    BY <1>1, <1>2, <2>1, <2>3
<1>5. Contains(m, w)
  BY <1>1, <1>4 DEF Contains
<1> HIDE DEF m, u
<1>6. /\ u \in Seq(Token) /\ Len(u) = Len(s) + Len(m) /\ u[1] \in Starts /\ u[Len(u)] \in Ends
  <2>1. /\ s \o m \in Seq(Token) /\ Len(s \o m) = Len(s) + Len(m)
        /\ \A i \in 1..Len(s) : (s \o m)[i] = s[i]
        /\ \A i \in 1..Len(m) : (s \o m)[Len(s) + i] = m[i]
    BY <1>1, <1>4, Joined
  <2>2. QED
    BY <1>1, <1>3, <1>4, <2>1
<1>7. Contains(u, w) /\ (Contains(s, "OR") => Contains(u, "OR"))
  BY <1>1, <1>3, <1>4, <1>5, ContainsEither
<1>8. w = "AND" /\ Leads(u) => Leads(s)
  <2>1. "AND" \in Sequel
    BY DEF Sequel
  <2>2. QED
    BY <1>1, <1>3, <1>4, <2>1, LeadsInFront
<1>9. Len(u) >= 1
  BY <1>1, <1>4, <1>6
<1>10. QED
  BY <1>6, <1>7, <1>8, <1>9 DEF u, s, r, v

LEMMA AndIsSure ==
  ASSUME NEW p, NEW q, Sure(p), Sure(q)
  PROVE  Sure(And(p, q))
<1> DEFINE u == (p.tokens \o <<"AND">>) \o q.tokens
           o == And(p, q)
<1>1. o = [tokens |-> u, rows |-> p.rows \cap q.rows]
  BY DEF And
<1>2. /\ u \in Seq(Token) /\ Len(u) >= 1 /\ u[1] \in Starts /\ u[Len(u)] \in Ends
      /\ Contains(p.tokens, "OR") => Contains(u, "OR")
      /\ Leads(u) => Leads(p.tokens)
  BY BothTokens, Zenon
<1>3. p.rows \in SUBSET Row
  BY SureIs
<1>4. ~Contains(p.tokens, "OR") /\ Leads(p.tokens) => p.rows # Row
  BY DEF Sure
<1> HIDE DEF u, o
<1>5. o \in Written /\ o.tokens = u /\ o.rows = p.rows \cap q.rows
  BY <1>1, <1>2, <1>3 DEF Written
<1>6. p.rows # Row => o.rows # Row
  BY <1>3, <1>5
<1>7. Sure(o)
  BY <1>2, <1>4, <1>5, <1>6 DEF Sure
<1>8. QED
  BY <1>7 DEF o

LEMMA OrIsSure ==
  ASSUME NEW p, NEW q, Sure(p), Sure(q)
  PROVE  Sure(Or(p, q))
<1> DEFINE u == (p.tokens \o <<"OR">>) \o q.tokens
           o == Or(p, q)
<1>1. o = [tokens |-> u, rows |-> p.rows \cup q.rows]
  BY DEF Or
<1>2. /\ u \in Seq(Token) /\ Len(u) >= 1 /\ u[1] \in Starts /\ u[Len(u)] \in Ends
      /\ Contains(u, "OR")
  BY BothTokens, Zenon
<1>3. p.rows \in SUBSET Row /\ q.rows \in SUBSET Row
  BY SureIs
<1> HIDE DEF u, o
<1>4. o \in Written /\ o.tokens = u
  BY <1>1, <1>2, <1>3 DEF Written
<1>5. Sure(o)
  BY <1>2, <1>4 DEF Sure
<1>6. QED
  BY <1>5 DEF o

LEMMA GroupIsSure ==
  ASSUME NEW p, Sure(p)
  PROVE  Sure(Group(p))
<1> DEFINE s == p.tokens
           v == <<"(">>
           w == <<")">>
           m == s \o w
           u == (v \o s) \o w
           o == Group(p)
<1>1. /\ s \in Seq(Token) /\ Len(s) \in Nat /\ Len(s) >= 1 /\ s[1] \in Starts /\ s[Len(s)] \in Ends
      /\ p.rows \in SUBSET Row
  BY SureIs
<1>2. o.tokens = u /\ o.rows = p.rows /\ o \in [tokens : {u}, rows : {p.rows}]
  BY DEF Group, Sure, Written
<1>3. /\ v \in Seq(Token) /\ Len(v) = 1 /\ v[1] = "("
      /\ w \in Seq(Token) /\ Len(w) = 1 /\ w[1] = ")"
  BY DEF Token
<1>4. ~Contains(s, "OR") /\ Leads(s) => p.rows # Row
  BY DEF Sure
<1> HIDE DEF s, w, o
<1>5. /\ m \in Seq(Token) /\ Len(m) = Len(s) + 1 /\ m[1] = s[1] /\ m[Len(m)] = ")"
  <2>1. /\ m \in Seq(Token) /\ Len(m) = Len(s) + Len(w)
        /\ \A i \in 1..Len(s) : m[i] = s[i]
        /\ \A i \in 1..Len(w) : m[Len(s) + i] = w[i]
    BY <1>1, <1>3, Joined
  <2> HIDE DEF m
  <2>2. 1 \in 1..Len(s) /\ 1 \in 1..Len(w)
    BY <1>1, <1>3
  <2>3. m[1] = s[1] /\ m[Len(s) + 1] = w[1]
    BY <2>1, <2>2
  <2>4. QED
    BY <1>3, <2>1, <2>3
<1>6. Contains(s, "OR") => Contains(m, "OR")
  BY <1>1, <1>3, ContainsEither
<1>7. Leads(m) => Leads(s)
  <2>1. Len(w) >= 1 /\ w[1] \in Sequel
    BY <1>3 DEF Sequel
  <2>2. QED
    BY <1>1, <1>3, <2>1, LeadsInFront, Zenon
<1>8. u = v \o m
  BY <1>1, <1>3, ConcatAssociative
<1> HIDE DEF m, u
<1>9. Leads(u) => Leads(m)
  BY <1>1, <1>5, <1>8, LeadsInside
<1> HIDE DEF v
<1>10. /\ u \in Seq(Token) /\ Len(u) = Len(m) + 1 /\ u[1] = "(" /\ u[Len(u)] = ")"
       /\ Contains(m, "OR") => Contains(u, "OR")
  <2>1. /\ v \o m \in Seq(Token) /\ Len(v \o m) = Len(v) + Len(m)
        /\ \A i \in 1..Len(v) : (v \o m)[i] = v[i]
        /\ \A i \in 1..Len(m) : (v \o m)[Len(v) + i] = m[i]
    BY <1>3, <1>5, Joined
  <2>2. Contains(m, "OR") => Contains(u, "OR")
    BY <1>3, <1>5, <1>8, ContainsEither
  <2>3. QED
    BY <1>1, <1>3, <1>5, <1>8, <2>1, <2>2
<1>11. o \in Written
  BY <1>1, <1>2, <1>10 DEF Written
<1>12. "(" \in Starts /\ ")" \in Ends /\ Len(u) >= 1
  BY <1>1, <1>5, <1>10 DEF Starts, Ends
<1>13. Sure(o)
  BY <1>2, <1>4, <1>6, <1>7, <1>9, <1>10, <1>11, <1>12 DEF Sure
<1>14. QED
  BY <1>13 DEF o

LEMMA FormulasAreSure == \A p \in Formulas : Sure(p)
<1> DEFINE F == {p \in Written : Sure(p)}
<1>1. Leaves \subseteq F
  BY LeavesAreSure DEF Sure
<1>2. ASSUME NEW p \in F, NEW q \in F
      PROVE  {Not(p), Group(p), And(p, q), Or(p, q)} \subseteq F
  <2>1. Sure(Not(p)) /\ Sure(Group(p)) /\ Sure(And(p, q)) /\ Sure(Or(p, q))
    BY NotIsSure, GroupIsSure, AndIsSure, OrIsSure
  <2>2. \A o : Sure(o) => o \in F
    BY DEF Sure
  <2> HIDE DEF F
  <2>3. QED
    BY <2>1, <2>2
<1>3. Closed(F) /\ F \in SUBSET Written
  BY <1>1, <1>2 DEF Closed
<1>4. QED
  BY <1>3 DEF Formulas

(* The predicates are closed themselves: there are some of every size. *)
LEMMA FormulasAreClosed == Closed(Formulas)
<1>1. Leaves \subseteq Written
  BY LeavesAreSure DEF Sure
<1>2. Leaves \subseteq Formulas
  BY <1>1 DEF Formulas, Closed
<1>3. ASSUME NEW p \in Formulas, NEW q \in Formulas, NEW o \in {Not(p), Group(p), And(p, q), Or(p, q)}
      PROVE  o \in Formulas
  <2>1. o \in Written
    <3>1. Sure(Not(p)) /\ Sure(Group(p)) /\ Sure(And(p, q)) /\ Sure(Or(p, q))
      BY FormulasAreSure, NotIsSure, GroupIsSure, AndIsSure, OrIsSure
    <3>2. QED
      BY <3>1 DEF Sure
  <2>2. ASSUME NEW F \in SUBSET Written, Closed(F) PROVE o \in F
    <3>1. p \in F /\ q \in F
      BY <2>2 DEF Formulas
    <3>2. QED
      BY <2>2, <3>1 DEF Closed
  <2>3. QED
    BY <2>1, <2>2 DEF Formulas
<1>4. QED
  BY <1>2, <1>3 DEF Closed

-----------------------------------------------------------------------------
(* The statements, and the WHERE that is found in them *)

Clauses == {<<>>} \cup {t \in Seq(Token) : Len(t) >= 1 /\ t[1] \in Clause}

(* Those that change rows, of any size, with anything before their own      *)
(* WHERE and any clauses behind their predicate.                            *)
Statements ==
  {ChangeWhere(x[1], x[2], x[3]) : x \in Seq(Token) \X Formulas \X Clauses}
  \cup {ChangeAll(x[1], x[2]) : x \in Seq(Token) \X Seq(Token)}

LEMMA FirstWhere ==
  ASSUME NEW s \in Seq(Token), NEW i \in 1..Len(s), s[i] = "WHERE"
  PROVE  where_index(s) \in 1..i /\ s[where_index(s)] = "WHERE"
<1> DEFINE I == {n \in 1..Len(s) : s[n] = "WHERE"}
           w == where_index(s)
<1>1. i \in I /\ I \subseteq Nat
  OBVIOUS
<1>2. w = Min(I)
  BY <1>1 DEF where_index, SelectInSeq
<1> HIDE DEF w
<1>3. \E n \in I : \A m \in I : n <= m
  BY <1>1, LeastNumber
<1>4. w \in I /\ w <= i
  BY <1>1, <1>2, <1>3 DEF Min
<1>5. QED
  BY <1>4 DEF w

LEMMA NoWhere ==
  ASSUME NEW s \in Seq(Token), \A i \in 1..Len(s) : s[i] # "WHERE"
  PROVE  where_index(s) = 0
BY DEF where_index, SelectInSeq

(* What is behind the WHERE.                                                *)
LEMMA Behind ==
  ASSUME NEW f \in Seq(Token), NEW p \in Seq(Token), NEW t \in Seq(Token)
  PROVE  LET u == ((f \o <<"WHERE">>) \o p) \o t
             n == Len(f) + 1
         IN /\ u \in Seq(Token) /\ n \in 1..Len(u) /\ u[n] = "WHERE"
            /\ SubSeq(u, n + 1, Len(u)) = p \o t
<1> DEFINE w == <<"WHERE">>
           g == f \o w
           b == p \o t
           u == (g \o p) \o t
           n == Len(f) + 1
<1>1. w \in Seq(Token) /\ Len(w) = 1 /\ w[1] = "WHERE"
  BY DEF Token, Keyword
<1> HIDE DEF w
<1>2. g \in Seq(Token) /\ Len(g) = n /\ g[n] = "WHERE"
  <2>1. /\ g \in Seq(Token) /\ Len(g) = Len(f) + Len(w)
        /\ \A i \in 1..Len(w) : g[Len(f) + i] = w[i]
    BY <1>1, Joined
  <2>2. QED
    BY <1>1, <2>1
<1> HIDE DEF g
<1>3. u = g \o b
  BY <1>2, ConcatAssociative
<1>4. b \in Seq(Token) /\ Len(b) \in Nat /\ Len(f) \in Nat
  BY Joined
<1> HIDE DEF b, u
<1>5. /\ u \in Seq(Token) /\ Len(u) = n + Len(b)
      /\ \A i \in 1..n : u[i] = g[i]
      /\ \A i \in 1..Len(b) : u[n + i] = b[i]
  <2>1. /\ g \o b \in Seq(Token) /\ Len(g \o b) = Len(g) + Len(b)
        /\ \A i \in 1..Len(g) : (g \o b)[i] = g[i]
        /\ \A i \in 1..Len(b) : (g \o b)[Len(g) + i] = b[i]
    BY <1>2, <1>4, Joined
  <2> HIDE DEF n
  <2>2. QED
    BY <1>2, <1>3, <2>1
<1>6. n \in 1..Len(u) /\ u[n] = "WHERE"
  BY <1>2, <1>4, <1>5
<1> DEFINE r == SubSeq(u, n + 1, Len(u))
<1>7. /\ r \in Seq(Token) /\ Len(r) = Len(b)
      /\ \A i \in 1..Len(b) : r[i] = u[n + i]
  BY <1>4, <1>5
<1> HIDE DEF r
<1>8. \A i \in 1..Len(b) : r[i] = b[i]
  BY <1>5, <1>7
<1>9. r = b
  BY <1>4, <1>7, <1>8, SeqEqual
<1>10. QED
  BY <1>5, <1>6, <1>9 DEF u, r, g, w, b

(* A plain UPDATE or DELETE that gets no flag leaves a row alone. *)
LEMMA EffectiveRestricts ==
  ASSUME NEW c \in Statements, classify_destructive(c.tokens) = "none",
         c.tokens # <<>>, Head(c.tokens) \in {"UPDATE", "DELETE"},
         \A i \in DOMAIN c.tokens : c.tokens[i] = "WHERE" => c.where \in 1 .. i
  PROVE  Restricts(c)
<1> DEFINE u == c.tokens
           w == where_index(u)
           behind == SubSeq(u, w + 1, Len(u))
<1>1. w # 0 /\ predicate_effectiveness[behind] = "Effective"
  BY DEF classify_destructive
<1>2. CASE \E x \in Seq(Token) \X Seq(Token) : c = ChangeAll(x[1], x[2])
  <2>1. u \in Seq(Token) /\ c.where = 0
    BY <1>2, Joined DEF ChangeAll
  <2>2. \A i \in 1..Len(u) : u[i] # "WHERE"
    BY <2>1
  <2>3. QED
    BY <1>1, <2>1, <2>2, NoWhere
<1>3. CASE \E x \in Seq(Token) \X Formulas \X Clauses : c = ChangeWhere(x[1], x[2], x[3])
  <2>1. PICK f \in Seq(Token), p \in Formulas, t \in Clauses : c = ChangeWhere(f, p, t)
    BY <1>3
  <2> DEFINE n == Len(f) + 1
             q == p.tokens
  <2>2. u = ((f \o <<"WHERE">>) \o q) \o t /\ c.where = n /\ c.rows = p.rows
    BY <2>1 DEF ChangeWhere
  <2>3. Sure(p) /\ q \in Seq(Token) /\ Len(q) >= 1 /\ q[Len(q)] \in Ends
    BY FormulasAreSure, SureIs
  <2>4. t \in Seq(Token)
    <3>1. <<>> \in Seq(Token)
      OBVIOUS
    <3>2. QED
      BY <3>1 DEF Clauses
  <2> HIDE DEF u, q, n
  <2>5. u \in Seq(Token) /\ n \in 1..Len(u) /\ u[n] = "WHERE" /\ SubSeq(u, n + 1, Len(u)) = q \o t
    BY <2>2, <2>3, <2>4, Behind DEF n
  <2>6. w = n
    <3>1. w \in 1..n /\ u[w] = "WHERE"
      BY <2>5, FirstWhere
    <3> HIDE DEF w
    <3>2. n \in 1..w
      <4>1. w \in DOMAIN u
        BY <2>5, <3>1
      <4>2. QED
        BY <2>2, <3>1, <4>1 DEF u
    <3>3. QED
      BY <3>1, <3>2
  <2>7. predicate_effectiveness[q \o t] = "Effective"
    BY <1>1, <2>5, <2>6
  <2>8. q \o t \in Seq(Token)
    BY <2>3, <2>4, Joined
  <2>9. ~Contains(q \o t, "OR") /\ Leads(q \o t)
    BY <2>7, <2>8, EffectiveLeads
  <2>10. ~Contains(q, "OR")
    BY <2>3, <2>4, <2>9, ContainsEither
  <2>11. Leads(q)
    <3>1. CASE t = <<>>
      <4>1. q \o t = q
        BY <2>3, <3>1, ConcatEmptySeq
      <4>2. QED
        BY <2>9, <4>1
    <3>2. CASE Len(t) >= 1 /\ t[1] \in Clause
      <4>1. t[1] \in Sequel
        BY <3>2 DEF Sequel
      <4>2. QED
        BY <2>3, <2>4, <2>9, <3>2, <4>1, LeadsInFront
    <3>3. QED
      BY <3>1, <3>2 DEF Clauses
  <2>12. p.rows # Row
    BY <2>3, <2>10, <2>11 DEF Sure, q
  <2>13. QED
    BY <2>2, <2>12 DEF Restricts
<1>4. QED
  BY <1>2, <1>3 DEF Statements

-----------------------------------------------------------------------------
(* Every step of the planner is one of SqlText or leaves it alone.          *)
LEMMA PlanIsText == PlanSpec => Spec
<1>1. PlanInit => Init
  BY DEF PlanInit
<1>2. [PlanNext]_planVars => [Next]_vars
  BY DEF PlanNext, Classify, planVars
<1>3. QED
  BY <1>1, <1>2, PTL DEF PlanSpec, Spec

(* A script of any length that is accepted is cut where its server would    *)
(* cut it (split_statements_for_dialect, sql.rs): the scanner of each       *)
(* dialect is level with the server at every symbol that is not one of the  *)
(* known differences (IsOdd), whatever standard_conforming_strings is.      *)
THEOREM StatementsAreWhole ==
  ASSUME \A s \in Settings : ~s.strict
  PROVE  PlanSpec => []OneStatementEach
<1>1. TextInv => OneStatementEach
  BY DEF TextInv, Sound, OneStatementEach
<1>2. QED
  BY <1>1, TextInvHolds, PlanIsText, PTL

(* code_tokens, which knows no dialect, finds the first word the server     *)
(* finds, or one the server takes for a sign, unless a comment that only    *)
(* the dialect has stands before it: so a DROP is flagged, and what the     *)
(* read-only gate takes for a SELECT is one (leading_statement_keyword).    *)
THEOREM FlagsAreRight ==
  ASSUME \A s \in Settings : ~s.strict
  PROVE  PlanSpec => []FlagsAreTrue
<1>1. TextInv => FlagsAreTrue
  BY DEF TextInv, Sound, FlagsAreTrue
<1>2. QED
  BY <1>1, TextInvHolds, PlanIsText, PTL

(* A plain UPDATE or DELETE that runs unflagged leaves some row alone,      *)
(* whatever it says before its own WHERE, in its predicate (comparisons,    *)
(* IN, BETWEEN and IS NULL, put together with groups, NOT, AND and OR to    *)
(* any size) and in the clauses behind it: the first WHERE that             *)
(* classify_destructive finds is its own, and what predicate_effectiveness  *)
(* takes for effective behind it restricts.                                 *)
THEOREM UnflaggedLeavesRows ==
  ASSUME Changes \subseteq Statements
  PROVE  PlanSpec => []UnflaggedRestricts
<1>1. PlanInit => UnflaggedRestricts
  BY DEF PlanInit, Unplanned, UnflaggedRestricts
<1>2. UnflaggedRestricts /\ [PlanNext]_planVars => UnflaggedRestricts'
  <2> SUFFICES ASSUME UnflaggedRestricts, [PlanNext]_planVars
               PROVE  UnflaggedRestricts'
    OBVIOUS
  <2>1. CASE Classify
    <3>1. change' \in Statements /\ reason' = classify_destructive(change'.tokens)
      BY <2>1 DEF Classify
    <3>2. reason' = "none" /\ Plain' => Restricts(change')
      BY <3>1, EffectiveRestricts DEF Plain
    <3>3. QED
      BY <3>2 DEF UnflaggedRestricts
  <2>2. CASE UNCHANGED <<change, reason>>
    BY <2>2 DEF UnflaggedRestricts, Plain
  <2>3. QED
    BY <2>1, <2>2 DEF PlanNext, planVars
<1>3. QED
  BY <1>1, <1>2, PTL DEF PlanSpec

=============================================================================
