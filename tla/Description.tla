---------------------------- MODULE Description -----------------------------
(***************************************************************************)
(* How the file that describes a machine of tp0 is read                    *)
(* (src/tp0/src/main.c): no_of_lines, readline and parse_line.  A malloc   *)
(* that fails is left out, and so is a first line of more than max_len     *)
(* characters, which readline writes behind its buffer.                    *)
(***************************************************************************)
EXTENDS Integers, Sequences, FiniteSets

CONSTANTS
    Symbol,         \* the characters of a file but the newline, and of a tape
    Newline,
    StateLength,    \* 5: the longest name of a state
    LineLength      \* 1024: the longest line of a transition

ASSUME DescriptionAssumption ==
    /\ Newline \notin Symbol
    /\ StateLength \in Nat \ {0} /\ LineLength \in Nat

Text == Seq(Symbol \cup {Newline})

\* A plausible fault: a last line without its newline is not counted.
NewlinesOnly(text) == Cardinality({i \in DOMAIN text : text[i] = Newline})

\* no_of_lines: the last line may lack its newline.
no_of_lines(text) ==
    Cardinality({i \in DOMAIN text : text[i] = Newline})
        + (IF text # << >> /\ text[Len(text)] # Newline THEN 1 ELSE 0)

Least(S) == CHOOSE n \in S : \A m \in S : n <= m

\* The number of characters readline takes: it stops at a newline, at the end of
\* the file, or with one character more than max_len.
LineEnd(text, max_len) ==
    Least({n \in 0 .. Len(text) :
            n = Len(text) \/ n = max_len + 1 \/ text[n + 1] = Newline})

\* The line, and the text behind it: the character that stopped readline is gone.
Line(text, max_len) == SubSeq(text, 1, LineEnd(text, max_len))
Behind(text, max_len) == SubSeq(text, LineEnd(text, max_len) + 2, Len(text))

\* The number of characters read_state takes from place p on.  Behind the line it
\* takes what the buffer holds, which does not matter: the line is refused then.
NameEnd(line, p) ==
    Least({n \in 0 .. StateLength :
            n = StateLength \/ (p + n \in DOMAIN line /\ line[p + n] = ",")})

Movements == [G |-> -1, R |-> 0, D |-> 1]

\* The places of parse_line: those of the two names, and of the symbols and the
\* movement, counted from 1.
NextPlace(line) == 2 + NameEnd(line, 2) + 6
WritePlace(line) == NextPlace(line) + NameEnd(line, NextPlace(line)) + 1
MovePlace(line) == WritePlace(line) + 2

\* parse_line accepts the line: whatever is between the fields, and behind them.
IsTransition(line) ==
    MovePlace(line) \in DOMAIN line /\ line[MovePlace(line)] \in DOMAIN Movements

parse_line(line) ==
    LET name(p) == SubSeq(line, p, p + NameEnd(line, p) - 1)
    IN [current_state |-> name(2),
        read          |-> line[2 + NameEnd(line, 2) + 1],
        next_state    |-> name(NextPlace(line)),
        write         |-> line[WritePlace(line)],
        movement      |-> Movements[line[MovePlace(line)]]]
=============================================================================
