------------------------------- MODULE Parser -------------------------------
(***************************************************************************)
(* The parser of the shell of tp1 (src/tp1/src/parser.c).  A token is its  *)
(* category; "exit" is a symbol or a string literal that reads exit.       *)
(***************************************************************************)
EXTENDS Integers, Sequences, FiniteSets, SequencesExt

Arguments == {"symbol", "literal", "exit"}
Separators == {";", "|", "&&", "||", "newline"}
Tokens == Arguments \cup Separators \cup {"invalid"}

Ops == {"separator", "pipe", "and", "or", "terminator"}

IsArg(token) == token \in Arguments

IsInvalidFirstSep(token) == token \in {"|", "&&", "||"}

\* The length of the start of the sequence whose elements are all in S.
PrefixLength(s, S) ==
    CHOOSE n \in 0 .. Len(s) :
        /\ \A i \in 1 .. n : s[i] \in S
        /\ n = Len(s) \/ s[n + 1] \notin S

\* The number of arguments at the start of the tokens.
CountArguments(tokens) == PrefixLength(tokens, Arguments)

\* EXIT_FAILURE, which an unknown category returns, is the value of OP_SEPARATOR.
FindOp(token) ==
    CASE token = "|"       -> "pipe"
      [] token = "&&"      -> "and"
      [] token = "||"      -> "or"
      [] token = "newline" -> "terminator"
      [] OTHER             -> "separator"

\* A plausible fault: the operator of the command is taken to be its last word's.
CommandShort(tokens) ==
    LET n == CountArguments(tokens)
    IN [words |-> SubSeq(tokens, 1, n), op |-> FindOp(tokens[n])]

\* A plausible fault: one argument too many is stored, the operator itself.
CommandLong(tokens) ==
    LET n == CountArguments(tokens)
    IN [words |-> SubSeq(tokens, 1, n + 1), op |-> FindOp(tokens[n + 1])]

\* The command at the start of the tokens, and the operator behind it.
Command(tokens) ==
    LET n == CountArguments(tokens)
    IN [words |-> SubSeq(tokens, 1, n), op |-> FindOp(tokens[n + 1])]

\* What is left of the tokens behind the operator.
Behind(tokens) == SubSeq(tokens, CountArguments(tokens) + 2, Len(tokens))

-----------------------------------------------------------------------------
(***************************************************************************)
(* The commands of a line, from its positions and without a loop: a        *)
(* command is a longest run of arguments, with the operator behind it.     *)
(***************************************************************************)
Starts(line) == {i \in DOMAIN line : IsArg(line[i]) /\ (i = 1 \/ ~IsArg(line[i - 1]))}

CommandAt(line, i) ==
    LET last == CHOOSE j \in i .. Len(line) :
                    /\ \A k \in i .. j : IsArg(line[k])
                    /\ j = Len(line) \/ ~IsArg(line[j + 1])
    IN [words |-> SubSeq(line, i, last), op |-> FindOp(line[last + 1])]

CommandsOf(line) ==
    LET starts == SetToSortSeq(Starts(line), <)
    IN [k \in DOMAIN starts |-> CommandAt(line, starts[k])]

\* Every operator that joins two commands has a command before it.
WellFormed(line) ==
    \A i \in DOMAIN line :
        IsInvalidFirstSep(line[i]) \/ line[i] = "invalid"
            => i > 1 /\ IsArg(line[i - 1])
=============================================================================
