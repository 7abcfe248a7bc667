------------------------------- MODULE Shell --------------------------------
(***************************************************************************)
(* The shell of tp1 (src/tp1/src/shell.c): lines are read, parsed and run, *)
(* and every command is a child process that the shell waits for.  What a  *)
(* child does with its input and output, and how it ends, is free.         *)
(***************************************************************************)
EXTENDS Tokenizer

CONSTANTS
    Inputs,         \* the texts on the standard input
    MaxOpen,        \* descriptors a process may have open
    PipeCapacity,   \* units of output a pipe holds
    MaxOutput       \* units of output a child may write

ASSUME ShellAssumption ==
    /\ Inputs \subseteq Seq(TextChars)
    /\ MaxOpen \in Nat /\ MaxOpen >= 3
    /\ PipeCapacity \in Nat \ {0}
    /\ MaxOutput \in Nat

VARIABLES
    phase,      \* where main is
    input,      \* the text that is still to be read
    line,       \* the tokens of the line
    tokens,     \* those that cmd_parse has not taken yet
    commands,   \* the commands it has made of the others
    current,    \* the index of current_command
    previous_result, is_skipping,
    previous_pipe_output,   \* the command whose pipe it reads, 0 for the terminal
    pipes,      \* of each command forked for this line: content, open for writing
    child,      \* the process that is waited for
    results,    \* of the commands of the line that were executed
    open        \* number of descriptors the shell has open

parserVars == << line, tokens, commands >>
runVars == << current, previous_result, is_skipping, previous_pipe_output,
              pipes, results >>
vars == << phase, input, parserVars, runVars, child, open >>

NoChild == [stdin |-> 0, piped |-> FALSE, reads |-> FALSE, left |-> 0, end |-> "none"]

Init ==
    /\ phase = "read"
    /\ input \in Inputs
    /\ line = << >> /\ tokens = << >> /\ commands = << >>
    /\ current = 1
    /\ previous_result = "success" /\ is_skipping = FALSE
    /\ previous_pipe_output = 0
    /\ pipes = << >> /\ results = << >>
    /\ child = NoChild
    /\ open = 3

-----------------------------------------------------------------------------
(***************************************************************************)
(* main and cmd_parse.  A line that is refused is dropped.                 *)
(***************************************************************************)
NextLine(p) ==
    /\ phase' = p
    /\ commands' = << >> /\ tokens' = << >> /\ line' = << >>
    /\ current' = 1
    /\ previous_result' = "success" /\ is_skipping' = FALSE
    /\ previous_pipe_output' = 0
    /\ pipes' = << >> /\ results' = << >>
    /\ UNCHANGED << input, child, open >>

\* tok_next_line.  Without a token, as always at the end of the text, main calls
\* it again.
ReadLine ==
    /\ phase = "read"
    /\ LET read == TokNextLine(input)
       IN /\ input' = read.rest
          /\ line' = read.tokens
          /\ \/ read.tokens # << >> /\ phase' = "parse"
             \/ read.tokens = << >> /\ phase' = "read"
    /\ tokens' = line'
    /\ UNCHANGED << commands, runVars, child, open >>

\* The first test of cmd_parse, the tests of its loop, and an empty result.
Reject ==
    /\ phase = "parse"
    /\ \/ tokens = line /\ line[1] = "newline"
       \/ tokens # << >> /\ (Head(tokens) = "invalid" \/ IsInvalidFirstSep(Head(tokens)))
       \/ tokens = << >> /\ commands = << >>
    /\ NextLine("read")

\* A separator without a command before it is passed over.
SkipToken ==
    /\ phase = "parse"
    /\ tokens # << >> /\ ~(tokens = line /\ line[1] = "newline")
    /\ Head(tokens) \in {";", "newline"}
    /\ tokens' = Tail(tokens)
    /\ UNCHANGED << input, phase, line, commands, runVars, child, open >>

TakeCommand ==
    /\ phase = "parse"
    /\ tokens # << >> /\ IsArg(Head(tokens))
    /\ CountArguments(tokens) < Len(tokens)
    /\ commands' = Append(commands, Command(tokens))
    /\ tokens' = Behind(tokens)
    /\ UNCHANGED << input, phase, line, runVars, child, open >>

\* The line ends without a newline: the operator is read through NULL.
NoOperator ==
    /\ phase = "parse"
    /\ tokens # << >> /\ CountArguments(tokens) = Len(tokens)
    /\ phase' = "crashed"
    /\ UNCHANGED << input, parserVars, runVars, child, open >>

RunCommands ==
    /\ phase = "parse"
    /\ tokens = << >> /\ commands # << >>
    /\ phase' = "run"
    /\ UNCHANGED << input, parserVars, runVars, child, open >>

-----------------------------------------------------------------------------
(***************************************************************************)
(* sh_run and execute_command.                                             *)
(***************************************************************************)
previous_op == IF current = 1 THEN "terminator" ELSE commands[current - 1].op

\* A plausible fault: skipping stops at every operator.
SkippedByNone(op) == FALSE

IsSkippedOp(op) == op \notin {"and", "or", "separator"}

Skipped ==
    \/ previous_op = "and" /\ previous_result = "failed"
    \/ previous_op = "or" /\ previous_result = "success"
    \/ is_skipping /\ IsSkippedOp(previous_op)

\* The turn of current_command, which is executed.
Executing ==
    /\ phase = "run"
    /\ current <= Len(commands)
    /\ ~Skipped
    /\ is_skipping' = FALSE

SkipCommand ==
    /\ phase = "run"
    /\ current <= Len(commands)
    /\ Skipped
    /\ is_skipping' = TRUE
    /\ current' = current + 1
    /\ UNCHANGED << input, phase, parserVars, previous_result, previous_pipe_output,
                    pipes, results, child, open >>

IsExit == Head(commands[current].words) = "exit"

ExitCommand ==
    /\ Executing
    /\ IsExit
    /\ phase' = "exited"
    /\ UNCHANGED << input, parserVars, current, previous_result, previous_pipe_output,
                    pipes, results, child, open >>

\* pipe fails and the shell ends.
PipeFails ==
    /\ Executing
    /\ ~IsExit
    /\ open + 2 > MaxOpen
    /\ phase' = "failed"
    /\ UNCHANGED << input, parserVars, current, previous_result, previous_pipe_output,
                    pipes, results, child, open >>

\* The result of current_command is known.
Returns(result) ==
    /\ previous_result' = result
    /\ results' = [k \in DOMAIN results \cup {current} |->
                        IF k = current THEN result ELSE results[k]]
    /\ current' = current + 1
    /\ phase' = "run"

\* Both ends of the pipe stay open.
ForkFails ==
    /\ Executing
    /\ ~IsExit
    /\ open + 2 <= MaxOpen
    /\ open' = open + 2
    /\ Returns("failed")
    /\ UNCHANGED << input, parserVars, previous_pipe_output, pipes, child >>

SetPipe(k, content, writable) ==
    pipes' = [i \in DOMAIN pipes \cup {k} |->
                IF i = k THEN [content |-> content, writable |-> writable] ELSE pipes[i]]

\* What the child reads from and writes to the terminal is left out.
Fork ==
    /\ Executing
    /\ ~IsExit
    /\ open + 2 <= MaxOpen
    /\ open' = open + 2
    /\ SetPipe(current, 0, TRUE)
    /\ LET stdin == IF previous_op = "pipe" THEN previous_pipe_output ELSE 0
           piped == commands[current].op = "pipe"
       IN child' \in [stdin : {stdin}, piped : {piped},
                       reads : IF stdin = 0 THEN {FALSE} ELSE BOOLEAN,
                       left : IF piped THEN 0 .. MaxOutput ELSE {0},
                       end : {"none"}]
    /\ phase' = "wait"
    /\ UNCHANGED << input, parserVars, current, previous_result, previous_pipe_output, results >>

\* A plausible fault: previous_pipe_output is not set.
WaitKeepsPipe ==
    /\ phase = "wait"
    /\ child.end # "none"
    /\ SetPipe(current, pipes[current].content, FALSE)
    /\ open' = open - 1
    /\ Returns(child.end)
    /\ child' = NoChild
    /\ UNCHANGED << input, parserVars, is_skipping, previous_pipe_output >>

\* A plausible fault: the write end is not closed.
WaitKeepsOpen ==
    /\ phase = "wait"
    /\ child.end # "none"
    /\ Returns(child.end)
    /\ previous_pipe_output' = current
    /\ child' = NoChild
    /\ UNCHANGED << input, parserVars, is_skipping, pipes, open >>

\* waitpid returns; the write end is closed, the read end is kept.
Wait ==
    /\ phase = "wait"
    /\ child.end # "none"
    /\ SetPipe(current, pipes[current].content, FALSE)
    /\ open' = open - 1
    /\ previous_pipe_output' = current
    /\ Returns(child.end)
    /\ child' = NoChild
    /\ UNCHANGED << input, parserVars, is_skipping >>

EndLine ==
    /\ phase = "run"
    /\ current > Len(commands)
    /\ NextLine("read")

-----------------------------------------------------------------------------
(***************************************************************************)
(* The child: any program, or the copy of the shell that failed to become  *)
(* one.                                                                    *)
(***************************************************************************)
ChildWrite ==
    /\ phase = "wait"
    /\ child.left > 0
    /\ pipes[current].content < PipeCapacity
    /\ SetPipe(current, pipes[current].content + 1, TRUE)
    /\ child' = [child EXCEPT !.left = @ - 1]
    /\ UNCHANGED << input, phase, parserVars, current, previous_result, is_skipping,
                    previous_pipe_output, results, open >>

ChildRead ==
    /\ phase = "wait"
    /\ child.reads
    /\ LET source == pipes[child.stdin]
       IN /\ source.content > 0
          /\ SetPipe(child.stdin, source.content - 1, source.writable)
    /\ UNCHANGED << input, phase, parserVars, current, previous_result, is_skipping,
                    previous_pipe_output, results, child, open >>

\* read returns 0 once the pipe is empty and nobody can write to it.
ChildEnds ==
    /\ phase = "wait"
    /\ child.end = "none"
    /\ child.left = 0
    /\ child.reads =>
          pipes[child.stdin].content = 0 /\ ~pipes[child.stdin].writable
    /\ \E end \in {"success", "failed"} : child' = [child EXCEPT !.end = end]
    /\ UNCHANGED << input, phase, parserVars, runVars, open >>

ChildStep == ChildWrite \/ ChildRead \/ ChildEnds

\* The shell waits for a child whose output nobody reads yet.
PipeFull ==
    /\ phase = "wait"
    /\ child.left > 0
    /\ pipes[current].content = PipeCapacity

Stopped ==
    /\ phase \in {"exited", "failed", "crashed"} \/ PipeFull
    /\ UNCHANGED vars

ShellStep ==
    \/ Reject \/ SkipToken \/ TakeCommand \/ NoOperator \/ RunCommands
    \/ SkipCommand \/ ExitCommand \/ PipeFails \/ ForkFails \/ Fork \/ Wait \/ EndLine

Next == ReadLine \/ ShellStep \/ ChildStep \/ Stopped

Spec == Init /\ [][Next]_vars /\ WF_vars(ShellStep) /\ WF_vars(ChildStep)

-----------------------------------------------------------------------------
Results == {"success", "failed"}

TypeOK ==
    /\ phase \in {"read", "parse", "run", "wait", "exited", "failed", "crashed"}
    /\ input \in Seq(TextChars)
    /\ line \in Seq(Tokens) /\ tokens \in Seq(Tokens)
    /\ commands \in Seq([words : Seq(Arguments) \ {<< >>}, op : Ops])
    /\ current \in 1 .. Len(commands) + 1
    /\ previous_result \in Results
    /\ is_skipping \in BOOLEAN
    /\ previous_pipe_output \in {0} \cup DOMAIN pipes
    /\ DOMAIN pipes \subseteq 1 .. Len(commands)
    /\ \A k \in DOMAIN pipes :
          pipes[k] \in [content : 0 .. PipeCapacity, writable : BOOLEAN]
    /\ DOMAIN results \subseteq 1 .. Len(commands)
    /\ \A k \in DOMAIN results : results[k] \in Results
    /\ child \in [stdin : {0} \cup DOMAIN pipes, piped : BOOLEAN, reads : BOOLEAN,
                  left : 0 .. MaxOutput, end : {"none"} \cup Results]
    /\ open \in 3 .. MaxOpen

(***************************************************************************)
(* A line that is read has the tokens of the text up to its newline or to  *)
(* the place where no token can be read, each character belongs to one     *)
(* token at most, and what follows is left for the next line.              *)
(***************************************************************************)
ReadsTheText ==
    [][phase = "read" =>
        LET read == LineOf(input)
        IN /\ input' = Rest(input, LineEnd(input) + 1)
           /\ Len(line') = Len(read)
           /\ \A k \in DOMAIN read :
                 \/ line'[k] = read[k]
                 \/ line'[k] = "exit" /\ read[k] \in {"symbol", "literal"}]_vars

(***************************************************************************)
(* cmd_parse returns the commands of the line, each with its words and the *)
(* operator behind them, none lost and none made up; and it refuses a line *)
(* only when an operator lacks its command, or when there is no command.   *)
(***************************************************************************)
ParsesTheLine ==
    [][phase = "parse" =>
        /\ phase' = "run" => WellFormed(line) /\ commands = CommandsOf(line)
        /\ phase' = "read" => ~WellFormed(line) \/ Starts(line) = {}]_vars

(***************************************************************************)
(* Pipelines are the units of a line.  The first one is run, and another   *)
(* one according to the operator before it and to the result of the last   *)
(* command that was executed, from the left to the right.                  *)
(***************************************************************************)
ResultBefore(k) ==
    LET executed == {i \in DOMAIN results : i < k}
    IN IF executed = {} THEN "success"
       ELSE results[CHOOSE i \in executed : \A j \in executed : j <= i]

PipelineStart(k) ==
    CHOOSE i \in 1 .. k :
        /\ i = 1 \/ commands[i - 1].op # "pipe"
        /\ \A j \in i .. k - 1 : commands[j].op = "pipe"

Wanted(k) ==
    LET first == PipelineStart(k)
        op    == commands[first - 1].op
    IN \/ first = 1
       \/ op = "separator"
       \/ op = "and" /\ ResultBefore(first) = "success"
       \/ op = "or" /\ ResultBefore(first) = "failed"

RunsWhatOperatorsAsk ==
    \A k \in 1 .. current - 1 : k \in DOMAIN results <=> Wanted(k)

(***************************************************************************)
(* A command behind a pipe reads what the command before it has written,   *)
(* and can see the end of it.  When fork failed for the latter, there is   *)
(* nothing to read from: the code gives it an older pipe or the terminal.  *)
(***************************************************************************)
PipesConnectNeighbours ==
    phase = "wait" /\ previous_op = "pipe" /\ current - 1 \in DOMAIN pipes
        => /\ child.stdin = current - 1
           /\ ~pipes[current - 1].writable

(***************************************************************************)
(* Every line that is read comes to its end, or the shell does, unless a   *)
(* command writes more than a pipe holds: its reader is only started when  *)
(* it has ended.                                                           *)
(***************************************************************************)
LineEnds ==
    phase \in {"parse", "run"} ~>
        phase \in {"read", "exited", "failed", "crashed"} \/ PipeFull
=============================================================================
