------------------------------ MODULE WhereText ------------------------------
(***************************************************************************)
(* The text of one WHERE predicate and of a telemetry line: tokens with    *)
(* quoted values, the value they denote, the normalized form that is       *)
(* reported, and the fields of a line as the sink escapes them and the     *)
(* query takes them out.                                                   *)
(*                                                                         *)
(* The tokenizer reads one character a step.  Field stands for the name of *)
(* a predicate and its ==, n for any character that has no meaning of its  *)
(* own, Newline for the white space that the sink escapes with a letter    *)
(* (\n, \r, \t; each has its own), and Blank for the other white space. *)
(***************************************************************************)
EXTENDS Integers, SequencesExt

CONSTANT MaxTyped  \* bound: characters after the predicate's name

Field == "event=="
Quote == "\""
Backslash == "\\"
Blank == " "
Newline == "\n"
White == {Blank, Newline}
Parenthesis == "("
Chars == {"n", Quote, Backslash, Blank, Newline, Parenthesis}

VARIABLES
    typed,       \* the characters read after Field
    scan,        \* the tokenizer: tokens, current token, in_quotes, escaped
    scanStatus  \* "scanning", "scanned", or "unterminated"

textvars == <<typed, scan, scanStatus>>

StartScan(first) == [tokens |-> <<>>, current |-> first, quoted |-> FALSE, escaped |-> FALSE]

Flush(s) ==
    IF s.current = <<>> THEN s
    ELSE [s EXCEPT !.tokens = Append(@, s.current), !.current = <<>>]

\* One character of TokenizeWhereExpression.
ScanChar(s, c) ==
    LET longer == [s EXCEPT !.current = Append(@, c)]
    IN  CASE s.quoted ->
               [longer EXCEPT !.escaped = ~ s.escaped /\ c = Backslash,
                              !.quoted = s.escaped \/ c # Quote]
          [] ~ s.quoted /\ c = Quote -> [longer EXCEPT !.quoted = TRUE]
          [] ~ s.quoted /\ c = Parenthesis ->
               [Flush(s) EXCEPT !.tokens = Append(@, <<Parenthesis>>)]
          [] ~ s.quoted /\ c \in White -> Flush(s)
          [] OTHER -> longer

TextInit ==
    /\ typed = <<>>
    /\ scan = StartScan(<<Field>>)
    /\ scanStatus = "scanning"

Scan(c) ==
    /\ scanStatus = "scanning"
    /\ Len(typed) < MaxTyped
    /\ typed' = Append(typed, c)
    /\ scan' = ScanChar(scan, c)
    /\ UNCHANGED scanStatus

EndOfText ==
    /\ scanStatus = "scanning"
    /\ scan' = Flush(scan)
    /\ scanStatus' = IF scan.quoted THEN "unterminated" ELSE "scanned"
    /\ UNCHANGED typed

TextNext == (\E c \in Chars : Scan(c)) \/ EndOfText

TextSpec == TextInit /\ [][TextNext]_textvars

\* The tokens of a whole text, for a text in which every quote is closed.
TokensOf(text) == Flush(FoldLeft(ScanChar, StartScan(<<>>), text)).tokens

-----------------------------------------------------------------------------
(* ParseWhereValueLiteral, what follows Field in a token.                  *)

UnquoteChar(r, c) ==
    CASE r.escaped /\ c \in {Backslash, Quote} ->
           [value |-> Append(r.value, c), escaped |-> FALSE]
      [] r.escaped /\ c \notin {Backslash, Quote} ->
           [value |-> r.value \o <<Backslash, c>>, escaped |-> FALSE]
      [] ~ r.escaped /\ c = Backslash -> [r EXCEPT !.escaped = TRUE]
      [] OTHER -> [r EXCEPT !.value = Append(@, c)]

Unquote(inner) ==
    FoldLeft(UnquoteChar, [value |-> <<>>, escaped |-> FALSE], inner)

IsQuoted(raw) == raw # <<>> /\ raw[1] = Quote

IsLiteral(raw) ==
    /\ raw # <<>>
    /\ IsQuoted(raw) => /\ Len(raw) > 1 /\ Last(raw) = Quote
                        /\ ~ Unquote(Front(Tail(raw))).escaped

Value(raw) == IF IsQuoted(raw) THEN Unquote(Front(Tail(raw))).value ELSE raw

-----------------------------------------------------------------------------
(* The normalized form.                                                    *)

\* What an escaped character is written as, after the backslash.
Sign(c) == IF c = Newline THEN "n" ELSE c

EscapedChars(S, text) ==
    LET Put(out, c) == IF c \in S THEN out \o <<Backslash, Sign(c)>> ELSE Append(out, c)
    IN  FoldLeft(Put, <<>>, text)

\* Mutant: backslashes are left as they are.
EscapeQuotesOnly(value) == EscapedChars({Quote}, value)

EscapeWhereValue(value) == EscapedChars({Quote, Backslash}, value)

Quoted(value) == <<Quote>> \o EscapeWhereValue(value) \o <<Quote>>

\* FormatWhereValueNormalized.
Normalized(value, quoted) ==
    IF quoted \/ ToSet(value) \cap (White \cup {Parenthesis, Quote}) # {}
    THEN Quoted(value) ELSE value

-----------------------------------------------------------------------------
(* The detail of a line: the sink's EscapeJson, and ExtractJsonStringField *)
(* on what follows the key.                                                *)

EscapeJson(text) == EscapedChars({Quote, Backslash, Newline}, text)

Line(detail) == EscapeJson(detail) \o <<Quote, "}">>

\* The first quote with an even number of backslashes right before it.
FieldEnd(rest) ==
    LET Escaped(i) ==
          (i - 1 - Max({0} \cup {j \in 1..(i - 1) : rest[j] # Backslash})) % 2 = 1
    IN  Min({i \in DOMAIN rest : rest[i] = Quote /\ ~ Escaped(i)})

ExtractField(rest) == SubSeq(rest, 1, FieldEnd(rest) - 1)

\* JsonStringFieldContains on the line of an event with this detail.
DetailContains(detail, needle) ==
    LET field == ExtractField(Line(detail))
    IN  \E i \in 0..(Len(field) - Len(needle)) :
            SubSeq(field, i + 1, i + Len(needle)) = needle

-----------------------------------------------------------------------------
\* The text after Field, once it has proved to be one token.
OneToken == scanStatus = "scanned" /\ Len(scan.tokens) = 1
Raw == Tail(scan.tokens[1])

\* The normalized form of a predicate is one token and denotes the same value,
\* whatever quotes, backslashes, spaces and parentheses the user wrote, and
\* normalizing it changes nothing more.
NormalizedReadsBack ==
    OneToken /\ IsLiteral(Raw) =>
        LET text == Normalized(Value(Raw), IsQuoted(Raw))
        IN  /\ TokensOf(<<Field>> \o text) = << <<Field>> \o text >>
            /\ IsLiteral(text) /\ Value(text) = Value(Raw)
            /\ Normalized(Value(text), IsQuoted(text)) = text

\* Any value can be asked for: quoted and escaped it is one token that denotes it.
EveryValueCanBeQuoted ==
    /\ TokensOf(<<Field>> \o Quoted(typed)) = << <<Field>> \o Quoted(typed) >>
    /\ IsLiteral(Quoted(typed)) /\ Value(Quoted(typed)) = typed

\* What a JSON parser makes of an escaped text.
DecodeChar(r, c) ==
    CASE r.escaped -> [value |-> Append(r.value, IF c = "n" THEN Newline ELSE c),
                       escaped |-> FALSE]
      [] ~ r.escaped /\ c = Backslash -> [r EXCEPT !.escaped = TRUE]
      [] OTHER -> [r EXCEPT !.value = Append(@, c)]

Decoded(escapedText) ==
    FoldLeft(DecodeChar, [value |-> <<>>, escaped |-> FALSE], escapedText).value

\* A detail ends where the sink ended it, whatever white space, quotes and
\* backslashes it has, and a JSON parser reads it as it was.  (The query does
\* not decode it: see DetailIsFound.)
DetailComesBack ==
    /\ ExtractField(Line(typed)) = EscapeJson(typed)
    /\ Decoded(EscapeJson(typed)) = typed

\* What the user quotes or the normalized form spells out is one token again
\* and denotes the same; what the sink escapes is cut out and decoded whole.
TextComesBack == NormalizedReadsBack /\ EveryValueCanBeQuoted /\ DetailComesBack

\* A detail contains itself ("evaluator reads `detail` JSON field and applies
\* contains match", K34.2 of the roadmap).
DetailIsFound == typed # <<>> => DetailContains(typed, Value(Quoted(typed)))
=============================================================================
