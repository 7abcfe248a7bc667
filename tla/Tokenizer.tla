----------------------------- MODULE Tokenizer ------------------------------
(***************************************************************************)
(* The tokenizer of the shell of tp1 (src/tp1/src/tokenizer.c): what       *)
(* tok_next and tok_next_line take from the text that is still to be read. *)
(* A malloc or realloc that fails is left out.                             *)
(***************************************************************************)
EXTENDS Parser

Quotes == {"'", "\""}
Whitespace == {" "}
Operators == {"&", "|", ";", "newline"}
Letters == {"e", "n", "0", "x"}     \* "e" stands for the letters of exit

TextChars == Quotes \cup Whitespace \cup Operators \cup Letters \cup {"\\", "NUL"}

\* The characters that satisfy is_symbol_char.
SymbolChars == TextChars \ (Whitespace \cup Operators \cup {"NUL"})

\* toEscaped: for the quotes and the backslash, which have a case of their own,
\* it is the character itself, as for those that have none.
ToEscaped(c) ==
    CASE c = "n" -> "newline"
      [] c = "0" -> "NUL"
      [] OTHER   -> c

Rest(text, i) == SubSeq(text, i, Len(text))

\* A token and the text behind it.  The category "none" is the NULL that a
\* caller takes for the end of the input.
Token(category, value, rest) == [category |-> category, value |-> value, rest |-> rest]

\* read_symbol: the first character that is none of a symbol is put back.
SymbolToken(text) ==
    LET n == PrefixLength(text, SymbolChars)
    IN Token(IF n = 0 THEN "none" ELSE "symbol", SubSeq(text, 1, n),
             IF n = 0 THEN Tail(text) ELSE Rest(text, n + 1))

\* read_string_literal: the end of the text or a bad escape in it gives NULL, and
\* what was read of it is gone.
LiteralToken(text) ==
    LET end == Head(text)
        from[s \in (Nat \ {0}) \X Seq(TextChars)] ==
          LET i == s[1]
              value == s[2]
          IN IF i > Len(text) THEN Token("none", << >>, << >>)
             ELSE CASE text[i] = end -> Token("literal", value, Rest(text, i + 1))
                    [] text[i] # end /\ text[i] # "\\" ->
                         from[<< i + 1, Append(value, text[i]) >>]
                    [] OTHER ->
                         IF i = Len(text) \/ ToEscaped(text[i + 1]) = text[i + 1]
                         THEN Token("none", << >>, Rest(text, i + 2))
                         ELSE from[<< i + 2, Append(value, ToEscaped(text[i + 1])) >>]
    IN from[<< 2, << >> >>]

\* A plausible fault: the character behind an operator of one character is lost.
PeekLost(text, double, single) ==
    IF Len(text) > 1 /\ text[2] = text[1] THEN Token(double, << >>, Rest(text, 3))
    ELSE Token(single, << >>, Rest(text, 3))

\* "|" and "&" look at the next character and put it back if it is another one.
Peek(text, double, single) ==
    IF Len(text) > 1 /\ text[2] = text[1] THEN Token(double, << >>, Rest(text, 3))
    ELSE Token(single, << >>, Rest(text, 2))

TokNext(input) ==
    LET text == Rest(input, 1 + PrefixLength(input, Whitespace))
    IN IF text = << >> THEN Token("none", << >>, << >>)
       ELSE CASE Head(text) \in {"newline", ";"} -> Token(Head(text), << >>, Tail(text))
              [] Head(text) = "|"      -> Peek(text, "||", "|")
              [] Head(text) = "&"      -> Peek(text, "&&", "invalid")
              [] Head(text) \in Quotes -> LiteralToken(text)
              [] OTHER                 -> SymbolToken(text)

\* What the parser and the shell see of a token: a value ends at its first NUL.
Seen(token) ==
    LET value == SubSeq(token.value, 1, PrefixLength(token.value, TextChars \ {"NUL"}))
    IN IF value = << "e" >> THEN "exit" ELSE token.category

\* tok_next_line: the tokens up to a newline or up to NULL.
TokNextLine(input) ==
    LET from[s \in Seq(TextChars) \X Seq(Tokens)] ==
          LET next == TokNext(s[1])
              tokens == s[2]
          IN CASE next.category = "none" -> [tokens |-> tokens, rest |-> next.rest]
               [] next.category = "newline" ->
                    [tokens |-> Append(tokens, "newline"), rest |-> next.rest]
               [] OTHER -> from[<< next.rest, Append(tokens, Seen(next)) >>]
    IN from[<< input, << >> >>]

-----------------------------------------------------------------------------
(***************************************************************************)
(* The tokens of a text by what each of its characters leaves open, with   *)
(* nothing read twice and nothing put back.                                *)
(***************************************************************************)
Open(q) == IF q = "'" THEN "in single" ELSE "in double"
Escaping(q) == IF q = "'" THEN "escape in single" ELSE "escape in double"
QuoteOf(mode) == CHOOSE q \in Quotes : mode \in {Open(q), Escaping(q)}

\* The mode after a character.
OutsideMode(mode, c) ==
    CASE c \in Whitespace -> "blank"
      [] c \in {"newline", ";"} -> c
      [] c = "|" -> IF mode = "|" THEN "||" ELSE "|"
      [] c = "&" -> IF mode = "&" THEN "&&" ELSE "&"
      [] c = "NUL" -> "bad"
      [] c \in Quotes /\ mode # "symbol" -> Open(c)
      [] OTHER -> "symbol"

LiteralMode(mode, c) ==
    CASE c = QuoteOf(mode) -> "literal"
      [] c = "\\"          -> Escaping(QuoteOf(mode))
      [] OTHER             -> mode

EscapeMode(mode, c) == IF c \in {"n", "0"} THEN Open(QuoteOf(mode)) ELSE "bad"

Modes(text) ==
    LET mode[i \in 0 .. Len(text)] ==
          IF i = 0 THEN "blank"
          ELSE LET before == mode[i - 1]
               IN CASE before \in {Open(q) : q \in Quotes} -> LiteralMode(before, text[i])
                    [] before \in {Escaping(q) : q \in Quotes} -> EscapeMode(before, text[i])
                    [] OTHER -> OutsideMode(before, text[i])
    IN mode

\* The line ends here.
LineEnd(text) ==
    LET ends == {i \in DOMAIN text : Modes(text)[i] \in {"newline", "bad"}}
    IN IF ends = {} THEN Len(text) ELSE CHOOSE i \in ends : \A j \in ends : i <= j

\* A token is complete here: the next character does not go on with it.
CompleteAt(text, i) ==
    LET mode == Modes(text)[i]
        next == IF i = Len(text) THEN "end" ELSE Modes(text)[i + 1]
    IN \/ mode \in {";", "newline", "literal", "||", "&&"}
       \/ mode = "symbol" /\ next # "symbol"
       \/ mode = "|" /\ next # "||"
       \/ mode = "&" /\ next # "&&"

LineOf(text) ==
    LET ends == SelectSeq([i \in 1 .. LineEnd(text) |-> i], LAMBDA i : CompleteAt(text, i))
        category(mode) == IF mode = "&" THEN "invalid" ELSE mode
    IN [k \in DOMAIN ends |-> category(Modes(text)[ends[k]])]
=============================================================================
