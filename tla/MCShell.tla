------------------------------ MODULE MCShell -------------------------------
(***************************************************************************)
(* Texts of characters, of tokens, and of four commands joined by any      *)
(* operators.                                                              *)
(***************************************************************************)
EXTENDS Shell

CONSTANTS MaxText, MaxTokens

Upto(S, n) == UNION {[1 .. k -> S] : k \in 0 .. n}

\* Any characters, alone and in a literal.
Texts == Upto(TextChars, MaxText)
Literals ==
    {<< "\"" >> \o t \o << "\"", c, "newline" >> : t \in Upto(TextChars, 2), c \in {" ", "x"}}

Spelled(token) ==
    CASE token = "symbol"  -> << "x", " " >>
      [] token = "literal" -> << "'", "x", "'" >>
      [] token = "exit"    -> << "e", " " >>
      [] token = "invalid" -> << "&", " " >>
      [] token = "&&"      -> << "&", "&" >>
      [] token = "||"      -> << "|", "|" >>
      [] token = "|"       -> << "|", " " >>
      [] OTHER             -> << token >>

SpelledLine(words) ==
    LET text[n \in 0 .. Len(words)] ==
          IF n = 0 THEN << >> ELSE text[n - 1] \o Spelled(words[n])
    IN text[Len(words)] \o << "newline" >>

Lines == Upto(Tokens \ {"newline"}, MaxTokens)

Between == {<< "symbol", t[1], t[2], "exit" >> : t \in [1 .. 2 -> Tokens]}

Joined ==
    {<< "symbol", o[1], "literal", o[2], "symbol", o[3], "symbol" >> :
        o \in [1 .. 3 -> {";", "|", "&&", "||"}]}

MCInputs == Texts \cup Literals \cup {SpelledLine(l) : l \in Lines \cup Between \cup Joined}
=============================================================================
