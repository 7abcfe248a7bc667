------------------------------ MODULE FatPath -------------------------------
(***************************************************************************)
(* get_simplified_path and break_up_path of tp4 (src/tp4/src/main.c).  A   *)
(* malloc that fails is left out.                                          *)
(***************************************************************************)
EXTENDS PathSpec

\* The place behind the part that starts at i: a slash or the end.
PartEnd(path, i) ==
    CHOOSE j \in i .. Len(path) + 1 :
        /\ j = Len(path) + 1 \/ path[j] = "/"
        /\ \A k \in i .. j - 1 : path[k] # "/"

\* Fault: ".." at the root stays there.
OutsideNever(stack) == FALSE

\* There is no directory to leave.
Outside(stack) == stack = << >>

PartFrom(path, i) == SubSeq(path, i, PartEnd(path, i) - 1)

\* A turn of the loop of get_simplified_path at character i with this stack of
\* names: the next character and the stack then.
Turn(path, i, stack) ==
    LET part == PartFrom(path, i)
    IN CASE path[i] = "/" -> << i + 1, stack >>
         [] part = Here   -> << i + 2, stack >>
         [] part = Up     -> << i + 3, Front(stack) >>
         [] OTHER         -> << PartEnd(path, i), Append(stack, part) >>

\* The loop; "ok" is FALSE when ".." finds the stack empty.
Simplified(path) ==
    LET from[s \in (Nat \ {0}) \X Seq(Seq(Chars))] ==
          IF s[1] > Len(path) THEN [ok |-> TRUE, stack |-> s[2]]
          ELSE IF PartFrom(path, s[1]) = Up /\ Outside(s[2])
               THEN [ok |-> FALSE, stack |-> << >>]
               ELSE from[Turn(path, s[1], s[2])]
    IN from[<< 1, << >> >>]

\* Fault: the last level is taken to be behind the path.
BehindTheLastEarly(stack, level) == level + 1 >= Len(stack)

BehindTheLast(stack, level) == level >= Len(stack)

\* break_up_path: 0 and the name at this level in upper case, -1 for a path
\* that leaves the root, -2 for a level behind the last one.
BreakUpPath(path, level) ==
    LET simple == Simplified(path)
    IN CASE ~simple.ok -> [status |-> -1, name |-> << >>]
         [] simple.ok /\ BehindTheLast(simple.stack, level) -> [status |-> -2, name |-> << >>]
         [] OTHER -> [status |-> 0, name |-> Uppercase(simple.stack[level + 1])]
=============================================================================
